# tradefarm: a TLA+ model of the program

tradefarm lets a hundred agents paper-trade on one pooled Alpaca account, keeps a
virtual book for each, and turns the result into a live broadcast, daily videos and a
weekly podcast. The live part is one Python process: a FastAPI application, an SQLite
database behind async SQLAlchemy, and a dozen background tasks on a single event loop.
Tasks interleave at every `await`; the only lock on the trading path,
`Orchestrator._tick_lock`, serialises ticks and the curriculum loop, and is not taken by
the reconcile loop. The video programs are separate processes that meet in the files of
a session's directory.

The modules here model the parts of `src/src/tradefarm` that carry this logic, TLC checks
them on small instances, and TLAPS proves the properties marked below for every value of
the constants. Paths in this text are relative to `src/src/tradefarm` unless they start
with `src/`.

1. [Inventory](#1-inventory)  2. [Modules](#2-modules)  3. [Runs](#3-runs)
4. [Proofs](#4-proofs)  5. [Deviations](#5-deviations)  6. [Not modelled](#6-not-modelled)

## 1. Inventory

| Component | State | Operations | Talks to |
|---|---|---|---|
| Virtual books, `execution/virtual_book.py` | cash, realized P&L, position, bounded set of reconciled order ids | `record_fill`, `apply_reconciled_fill`, valuations | tick, reconcile loop |
| Tick, `orchestrator/scheduler.py:382` | signals, pending exits, optimistic marks | decide, risk exits, risk check, submit, book, record, stamp a note | books, broker, rows, journal |
| Broker, `execution/broker.py`, `alpaca_broker.py` | Alpaca's orders | `submit_market`, `get_orders` | tick, reconciler |
| Order reconciler, `execution/order_reconciler.py`, `scheduler.py:1593` | poll cursor, seen order ids, marks | `poll_once`, `_apply_reconciled` | broker, books, rows |
| Rows, `storage/repo.py` | `trades`, `positions` | `record_fill_atomic`, `record_trade`, `sync_positions` | tick, reconcile loop |
| Journal, `storage/journal.py` | `agent_notes` | `write_note`, `close_outcome` | tick |
| Risk rules, `risk/manager.py` | trailing peaks and when they were seeded | `check_entry`, `should_exit`, rebuild at a change of rank | tick, academy |
| Academy, `academy/` | rank of an agent, in memory and as a row; log of promotions | outcomes, curriculum pass, manual pass | tick (lock), risk rules |
| Broadcast slots, `orchestrator/broadcast_scheduler.py` | occupant of each output, queue | `submit`, `drain`, `expire` | publishers of moments, event bus |
| Broadcast suite, `orchestrator/broadcast_suite.py`, `broadcast_recap.py` | installed singletons, running sidecars, moment ledger, recap rows | boot, drain, daily recap | slots, sidecars |
| Directors and watchers, `auto_director.py`, `streak_watcher.py`, `commentary_loop.py` | last firings, snapshots, day leaders, what was said | polls | slots, agents, language model |
| YouTube chat, `orchestrator/youtube_chat.py` | token, circuit breaker, chat id, page cursor | discover, poll, refresh, back off | YouTube, audience |
| Audience and predictions, `orchestrator/audience.py`, `predictions.py` | vote rounds, pins, sentiment | votes, lock, reveal, reset, approve or reject a pin | chat, operators, event bus |
| Event bus and WebSocket, `api/events.py`, `ws.py`, `ws_recording.py`, `lower_third_log.py` | bounded queue per client, drop counter, recorder, log of lower thirds | publish, connect, send, gap, record | everything that is shown |
| Pipeline runs, `api/pipeline.py`, `scheduler.py:803`, `1185` | runs in memory, bounded cache, `pipeline_runs` | boot sweep, daily run, weekly podcast, HTTP run, persist | clock, rows, chain |
| Session export, `session/run.py`, `replay.py`, `manifest.py` | rows of a session, `manifest.json` | replay a day, export, merge extras | database of the live process |
| Beats, `session/beats.py` | `beats.json` | score, drop twins, keep the best | manifest, video programs |
| Video production, `render/`, `tts/`, `script/`, `yt/` | the files of a session | chain of nine programs: replay, beats, capture, stitch, voice, mix, thumbnail, metadata, upload | each other through files, YouTube |
| Weekly podcast, `render/podcast.py`, `session/weekly_rollup.py` | the files of a week | roll up, compose in stages, upload | sessions, YouTube |
| Strategies, market data, recap queries, decision feed, archive and shorts, HTTP API, settings and budgets, front ends | | | not modelled, section 6 |

What is hard in it:

* **Interleaving and atomicity.** An order is submitted from a worker thread, booked when
  the thread answers, recorded in a transaction, and corrected by another task that
  polls the broker. The poll may report the order before the tick has booked it, and both
  tasks write the trade row of the same fill. A curriculum pass awaits the database once
  for each agent it looks at while outcomes go on being stamped. Two chains, two
  compositions or two session runners can work in one directory.
* **Ordering.** A correction replaces a price after the position has moved on. A drain of
  the broadcast queue starts several moments while preemptions change which of them can
  start. Votes arrive around the lock and the evening's reset. Three programs compute
  where a clip starts, each from files of its own.
* **Partial failure.** The broker refuses, its answer is lost, a transaction fails between
  the change of a book and its row, a write between two files fails; some errors end the
  tick, others are swallowed.
* **Crash and restart.** Books, marks, cursors, cooldowns and caches are lost; rows, files
  and the broker's orders stay. A recap is published before its row is written.
* **Retries.** The chat poller refreshes a refused token and opens a circuit; an upload
  resumes where the server says it is; a chain runs a program again; a second run of
  the voice-over speaks only what is missing.
* **Liveness.** Whether a fill is ever corrected depends on a cursor that only moves
  forward. Ranks must catch up with outcomes, positions must close, commentary must go
  on when its model fails, and a chain must end.
* **Bounds.** The reconciled ids, the moment queue, the ledger, the inbox of a client, the
  log of lower thirds, the pin queue, the history the streak watcher reads and the cache
  of runs drop entries at their limit.
* **Numbers.** Partial closes share a cost basis, over-sized sales are clamped, a demotion
  is capped by a share of the agents, a clip may be shorter than its fades.

What makes each part correct is the property of its run in section 3. `PROJECT.json`
lists the hazards line by line, each with the properties that would catch it.

## 2. Modules

```
trading      VirtualBook ──┬─ BookSettlement ─────────────────┐
                           ├─ JournalNotes ───────────────────┤
             RiskExits ────┼──────────────────────────────────┼─ MCCareer
             Academy ──────┼──────────────────────────────────┘
                           ├─ FillLedger <··· refined by
                           └─ OrderFlow ──────────────────────── MCOrderFlow
broadcast    BroadcastSlots, Suite, LiveStream, Commentary ───┐
             Cooldowns ─┬─ AutoDirector ──────────────────────┼─ MCBroadcastSlots
                        └─ StreakWatcher ─────────────────────┘  (LiveStream: MCLiveStream)
audience     ChatPoller, Predictions ── Audience ─────────────── MCAudience
episode      Reel, RenderChain, ClipCapture, ResumableUpload,
             VoiceOver ───────────────────────────────────────── MCEpisode
studio       PipelineRuns, SessionExport, Podcast,
             Beats (uses VirtualBook) ────────────────────────── MCProduction

sorted       Ordering, used by Academy, Reel, Beats, SessionExport and Podcast

proofs       VirtualBookProofs ─┬─ OrderFlowProofs, CareerProofs
             FoldProofs ────────┴─ BroadcastProofs, AudienceProofs,
                                   EpisodeProofs, StudioProofs
```

`MCBroadcastSlots`, `MCCareer`, `MCEpisode` and `MCProduction` run several modules that
share no variable. A variable `part` says at the start which of them a behaviour
exercises; the others stay where they begin. The runs are thus those of each module by
itself, and nothing is claimed about modules beside each other. Where components do
share state they are composed: tick, reconcile loop, broker and rows in `OrderFlow`; chat
poller, predictions, pins and sentiment in `Audience`; bus, clients, recorder and log of
lower thirds in `LiveStream`; daily scheduler, weekly scheduler, HTTP runs and table in
`PipelineRuns`; curriculum loop, endpoint and tick in `Academy`.

One action stands for what a task does between two awaits another task can observe.

### Trading

**VirtualBook** has no variables: `RecordFill` and `ReconcileFill` are `record_fill` and
`apply_reconciled_fill` as functions of a book. The average price, a Decimal fraction
in the code, is represented by the cost basis `qty * avg_price`, so that everything
stays an integer. Every strategy trades one symbol, so a book has one position.

**BookSettlement** uses one book through these two calls: `Record` books a fill at the
mark, `Report` corrects one, in any order, repeatedly, with the bounded set of ids.
`Orderly` says whether reports keep up, as a poll every ten seconds and a tick every
five minutes have it; `Oversell` whether a fill may ask for more than is held.

**OrderFlow** composes tick, broker, reconcile loop, rows and restart:

| Action | Code |
|---|---|
| `StartTick` | bars, decisions, pruning of pending exits, risk exits |
| `SkipSignal`, `SkipOffHours`, `Submit` | an agent's turn: no mark, blocked, refused off-hours, or mark registered and order sent |
| `SubmitReturns`, `SubmitRaises` | the answer: book at the mark, or an exception that ends the tick |
| `RecordFillAtomic`, `RecordFillFails` | trade and positions in one transaction; a duplicate rolls both back |
| `Poll` | `get_orders` after the cursor, dedup, marks consumed, cursor to the newest order returned |
| `ApplyReport`, `RecordReport`, `SyncPositions`, `ReportFails` | `_apply_reconciled`, one report at a time |
| `Broker*` | Alpaca, external: accepts, rejects, fills, prices, cancels |
| `Restart` | fresh books, empty marks and dedup set, a cursor somewhere in the past; rows and broker unchanged |

What the environment may do is the constant `Faults`, so that a run can say under which
faults a property holds. `mode` is the execution mode; it never changes.

**FillLedger** is the abstract promise to an agent's cash: a fill is entered once at a
price and settled at most once at another, and cash moves by exactly that. OrderFlow
implements it (`ImplementsLedger`, an instance of FillLedger with a refinement mapping:
the ledger is the set of booked orders at the best price known).

**JournalNotes** models the notes of one agent: written before its order, and stamped on
the oldest open entry by the fill that realizes P&L, with each write able to fail.

**RiskExits** models `should_exit` over whole days: `TickHolds`, `TickExits` and
`TickExitRefused` are a tick that looks at the position, `EntryCorrected` a report,
`RankChanges` the new `RiskManager` a rank brings, `PendingExpires` the end of the guard
of an order on its way. The trailing peak outlives a tick; whether it is of this
position is told by when it was seeded.

**Academy** models `evaluate_all`: `PassStarts` (the loop behind the tick lock, the
endpoint without it), `Evaluate` for each agent, then `SetRank` and `RebuildRisk` for each
change, promotions first and demotions by severity up to the cap. Outcomes are their
number, wins, sum, sum of squares and losing run, from which the criteria are computed.

### Broadcast

**BroadcastSlots** models `submit_slots`: `Submit` expires and enqueues, `Activate` is one
round of the drain loop, `Announce` ends it and publishes the state of each moment.
The call is synchronous, so nothing else happens between these actions.

**Suite** is `start` and `stop` one sidecar at a time around the installed ledger and
scheduler, crashes anywhere, operators' pushes and the loop of the daily recap, which
publishes (`RecapPolls`) before it writes its row (`RecapIsNoted`).

**AutoDirector**, **StreakWatcher** (both on **Cooldowns**) and **Commentary** are the
producers of moments: a poll each over agents, marks, ranks or trades that go on
changing, with cooldowns, restarts and midnights. A poll of the streak watcher reads the
journal of any subset of the agents (`PollOf`), for `journal.recent_outcomes` answers an
error with an empty list. The commentator's call to its language model takes time, and of
what it says the guard weighs only the amounts written with a suffix (`marked`) against
the snapshot it was given; a sentence may claim more in plain words.

**LiveStream** models a publish with its fan-out into bounded inboxes (`PublishEvent`,
`PushLowerThird`), a client from the handshake to its end (`Connect`, `ServeReplay`,
`GoLive`, `TakeEvent`, `EventSent`, `SendFails`, `Disconnect`), the gap endpoint and
the recorder that files a connection's frames while it is the current one (`Record`:
`Written`, or `WriteFails`, which the code swallows).

### Audience

**ChatPoller** is one cycle of `_tick` split at its requests (`Wake`, `TokenAnswered`,
`Discover`, `Seed`, `ChatGone`, `PollFails`, and the page of messages that Audience
routes), with refused and expired tokens, the circuit breaker, and broadcasts that begin
and end. **Predictions** is the board: `BoardTicks` resets, waits, advances and publishes
by the hour. **Audience** composes the two: a published message is parsed and routed to
the votes, the sentiment window or the pin queue in the same step, as the bus and the
pin lock are never held across an await.

### Episode

**Reel**: `StitchChained`, `StitchPairwise` or `StitchPassThrough`, then `Mix`, then
`MakeEpisode`, each from the files the program in question reads. **RenderChain**: the
nine programs on files that are absent, half written or whole, for two chains at a time,
with retries (`Stumbles`), failures (`Breaks`) and kills. **ClipCapture**: a capture beat
by beat, interrupted anywhere, with beats detected anew in between and stale files of
which any may resist the purge (`stuck`). **ResumableUpload**:
client and server of one upload, one action for each kind of answer. **VoiceOver**: runs
of the speech synthesis line by line over a script the operator rewrites.

### Studio

**PipelineRuns** models the daily and the weekly scheduler and the runs started over
HTTP: boot with its sweep of stale `live_today` rows, crash, the fire with its
idempotency check, start and end of a run, and what each writes to the table. A run ends
in memory (`RunEnds`) before its end is written (`RunSaved`), and the write may fail, which
is logged and forgotten (`NotPersisted`); `GetRun` is what an operator is then told.
**SessionExport** is a session runner from the first row to the merged manifest, beside
another runner and the live process in one database. **Beats** is a pure algorithm, the
detector, over every sequence of a few fills (`Trade` adds one, `Detect` computes the
list). **Podcast** is the rollup of a week and two compositions stage by stage with an
upload, in one directory.

An operator named after another with a suffix (`Poll_CursorPastNewest`) is a wrong variant
of it, a bug the code could plausibly have had. No specification uses it; each property
of a passing run is known to fail when such a variant takes the operator's place.

## 3. Runs

Where several statements form one promise they are parts of one property, with a name
and a comment each in the module.

| Run | Property | Parts |
|---|---|---|
| `order_flow`: one agent, three orders, both modes; refusals, failing transactions, late prices, polls that see unfilled orders | `NothingBorrowed` | no cash spent in simulation that is not there; nobody short at the broker |
| | `DbMirrorsBooks` | the positions table is what the books say |
| | `ImplementsLedger` | the order flow implements FillLedger |
| `order_flow_races`: two agents, two orders, reports before the booking, early ticks, refusals, failing transactions; fairness | `BooksAndRowsAreFills` | an agent holds what it booked; one row for each fill, whoever wrote it |
| | `EventuallySettled` | every booked order is corrected |
| `order_flow_faults`: every fault at once, two orders, a restart | `TypeOK`, `LongOnly` | no book goes short |
| `broadcast_slots` | `SlotsAreSound` | a moment has all of its outputs or none; no id twice; a drain pushes off nothing it started |
| | `QueueIsExplained` | a moment waits behind its equals or betters only; the overlay was told so |
| | `LeavesForAReason` | a moment leaves when its TTL is over or one that outranks it comes |
| | `SidecarsAreRouted` | nothing a sidecar publishes misses ledger and slots |
| | `RecapOncePerDay` | a trading day's recap is shown, and again only if its row was lost |
| | `DirectorTellsTheNews` | every standing is told; of ranks exactly the rises since the last poll, no fall and no old rank |
| | `LeadersAreRecords` | a leader of the day that is told is bigger than the last, and closed since a poll last read its agent, unless none could read it before |
| | `CommentaryIsSober` | no suffixed amount beyond ten times the biggest fill; commentary never stops |
| | `StreamIsWhole` | losses are covered by what the counter shows or has told, no gap on a screen, one open recorder, a recording of every frame whose write did not fail |
| | `BroadcastTypeOK` | types and bounds |
| `audience` | `VotesAreCounted` | last word before the lock counts once; the board is the hour's; what is decided was shown and stays |
| | `AnsweredOnce` | a message is published once, a pin request resolved once, newest requests stay |
| | `TypeOK` | types and bounds |
| `career` | `BooksAddUp` | corrected books are exact, add up at every mark, and are off by the clamped part at most |
| | `NeverThroughZero` | no call carries a position through zero |
| | `OutcomesStay` | outcomes go to the oldest open note, stay, and add up to the realized P&L |
| | `PeakIsOfThisPosition` | a trailing peak is of the position held |
| | `RanksAreEarned` | a change of rank is warranted when it takes effect and logged; the worst are demoted first |
| | `NeverMidTick` | no rank changes during a tick |
| | `NothingIsStuck` | in the end nobody is below the rank it is eligible for, and a position is closed |
| | `CareerTypeOK` | types and bounds |
| `episode` | `ReelIsInSync` | captions, where there are any, one for each clip and within it; the fallback's clips start at the same times; voice and chapters at their places |
| | `ClipsAreCurrent` | a sidecar is of its clip; a successful capture leaves the clips of the beats there are, and of others only files it could not delete |
| | `UploadIsTheReel` | a video is the reel, unit for unit; two only for a lost answer |
| | `IndexIsHeard` | lengths and texts of the index are those of the wavs; ok means all are there |
| | `ChainsDeliver` | half files have a cause, done means made, forced means whole |
| | `RunsEnd` | every chain ends |
| | `EpisodeTypeOK` | types and bounds |
| `production` | `RunsAreOnRecord` | one run for a day, one podcast for a week, inherited rows are today's, an operator's run is shown as it is, and its end is final once it is stored |
| | `ManifestIsOfOneSession` | fills, extras and cast are of the same session |
| | `BeatsTellTheDay` | no twins, open and recap frame, the best are told, P&L as in the books |
| | `EpisodeIsOfItsWeek` | rollup adds up, the script tells all its sessions or the first ones, files are of one composition, the video id is of this episode if a finished one was sent and none finished meanwhile |
| | `ProductionTypeOK` | types and bounds |

Four more runs show that the code does not do what one of its comments or tests says:

| Run | Statement | What happens |
|---|---|---|
| `order_flow_slow` | "we'd miss its eventual fill" must not happen (`src/tests/execution/test_order_reconciler.py:78`) | the cursor moves to the newest order returned, unfilled ones included; a fill seen too early is never reported and stays at its mark |
| `stream_gap` | losses "are no longer silently swallowed ... The dashboard queries GET /stream-gap after a WS reconnect to learn how many events were lost" (`api/events.py:7`) | a client sent away as slow loses its whole queue, none of it is counted, and the gap it asks for is zero |
| `career_evaluate` | "Designed to run *between ticks*" (`academy/curriculum.py:4`) | `POST /academy/evaluate` takes no lock and changes a rank between the decisions and the orders of a tick |
| `dated_chain` | "Run a date's worth of simulation through the full chain" (`render/pipeline.py:26`) | the session step is given neither `--date` nor `--dates`, one of which it requires, and the chain ends there |

### Bounds

* **Orders.** A second fill is what makes a correction ambiguous, a third what separates
  "the last one" from "the others"; four let the id set of three overflow and a position
  be opened, added to, closed and opened again. Prices in `MCCareer` are multiples of 16
  so that every average is an integer. Three orders are a buy, its exit and the next buy;
  two agents are enough for one task to work for one agent while the other task works for
  the other, and no action relates more than two.
* **Broadcast.** Six submissions over three outputs fill the queue of two and let a drain
  start two moments. Two market prices cross the threshold both ways, two agents with
  three closes each extend, break and restart a streak while the history holds two. Two
  days of which one trades, two faults: a recap whose row is lost and one whose process
  is. Four events and an inbox of three overflow it and the backlog that sends a client
  away; two clients differ in speed; two recorders are one after the other. One write fails for
  a connection, and any read of the journal for any agents.
* **Audience.** Two viewers, two messages, one broadcast and two days give a vote that is
  changed, one that crosses the lock or the reset, and a pin queue of one that overflows. What a viewer asks to pin names an agent by its
  name or by a part of it (`Means`).
* **Career.** Three outcomes for each of two agents reach every rank with the thresholds
  lowered; a cap of a half is one demotion. Two days of `MaxHold`, marks below the stop,
  at the entry, above it and beyond the trailing distance.
* **Episode.** Three beats of which two share a second, clips shorter and longer than two
  fades, both fades of a command line and its default. Two chains of nine programs, two
  attempts each, one kill. Three captures over two ids and three moments. A reel of five
  units in chunks of two ends on a short chunk. Two lines, two texts, two runs.
* **Studio.** Three days in two weeks, three runs, three processes and a cache of two: a
  crash on the day, on the next, and one that is never noticed. Two runners on one id,
  overlapping or not. Four fills by two agents are enough for each kind of beat and for a
  list that is full. Three sessions of which two are in the week, one more than the script
  has segments, so that one is left out; two compositions overlap.

Every counter is bounded by a guard with a named constant. Where the system may stop for
good, or the bounds stop it, the cfg turns the deadlock check off.

### Fairness

* `EventuallySettled` (and `order_flow_slow`): weak fairness of the rest of a tick, of the
  poll and of the rest of a batch, as the event loop runs every ready task and the poll
  timer fires for ever; and of the broker, who answers, fills or ends and prices an order.
  Nothing is assumed about when a tick starts or whether an agent trades.
* `CommentaryIsSober`: the loop polls again, and a call ends, since it has a timeout.
* `RanksCatchUp`, of `NothingIsStuck`: a tick ends; a pass that has begun goes on; the loop gets the lock,
  which is handed out in the order of the requests, however often ticks take it (strong).
* `PositionsClose`, its other part: days pass, guards expire, and an exit that a tick could make over and
  over is accepted at some time (strong): the broker does not refuse for ever.
* `RunsEnd`: a chain's thread goes on; each of its programs ends one way or another.
* `stream_gap`: the handler of a client goes on with what is in its inbox.

## 4. Proofs

All theorems hold for every value of the constants that satisfies the `ASSUME` of the
module and the hypothesis of the theorem, where it has one. The modules of proofs extend
those they are about; constants have no bound in them, so `MaxOrders`, `MaxPosts`, the
sets of agents, viewers or clients and the sizes of queues are arbitrary.

**`FoldProofs`** is what the other modules need of induction and of folds. The prover takes
no induction theorem, whose parameter is a predicate, but it takes `LeastNumber`: a
nonempty set of numbers has a least element, which is first-order. A least counterexample
gives everything else: a sum over a finite set exists and does not depend on the order
in which it is formed (`MapThenSumSet` is the value of a recursive function, so that is
not obvious), a `FoldLeft` over a sequence is the last of the values it passes through
(`FoldIsLast`), what holds at the start of a range and passes from each number to the next
holds at its end (`Reaches`), a finite set of integers can be listed in order
(`OrderedExists`), and where each member is counted by those below it, the count is its
place in that list (`RankIsPlace`, `PlacedIs`, for `Ordering`). **`VirtualBookProofs`** has
the lemmas about `ClampFlip`, `RecordFill` and `ReconcileFill` which the proofs about
trading share, and those about the beats with them.

### Trading

* **`OrderFlowProofs`: `LongOnlyHolds`, `TypeOKHolds`.** Any number of agents and orders,
  either mode, every combination of faults. `LongOnly` is not inductive: `record_fill`
  clamps a sale to what is held, but one booked while nothing is held opens a short. The
  strengthening follows the sale: one that is signalled (`SignalledSalesAreHeld`), or
  sent and not yet booked (`SentSaleIsHeld`), belongs to an agent that holds something,
  and an agent with an order on its way has no other signal. The reconcile loop may run
  in between because a correction leaves quantities alone (`ReconcileFillQuantity`).
  Type correctness is part of the same invariant, since the size of an exit is a
  natural number only because books are long.
* **`HoldsWhatItBookedHolds`, `NothingBorrowedHolds`.** `Lots` says that a signalled or
  sent exit is the whole position and an entry is made flat, so the clamp cuts nothing and
  a booking adds to the sum of the executions exactly what it adds to the book. Nobody is
  short at the broker because every order the broker has is booked, refused or on its way
  (`NoneAstray`), and the one on its way is covered; that is false after a lost answer or a
  restart and, with `cancel`, an order may be booked that the broker does not execute.
  These three faults are the theorem's hypothesis, and section 5 says what they do. That
  an agent never overspends (`Solvent`) is the risk check at the very price of the fill.
* **`DbMirrorsBooksHolds`, `BooksAndRowsAreFillsHolds`** follow an order through both of its
  writers. No invariant says
  that tables and books agree, for there is always something still to be written, so each
  says who is going to write it. `Mirrored`: where a positions row and a book differ, a
  fill of the agent has no row yet or a report of it is being applied
  (`DbMirrorsBooksHolds`). `FillsGetRows`: a booked order has its row, or the tick is about
  to write it or, where the tick's transaction may fail, the cursor has not passed it, or
  its report waits in the batch, or is being recorded (`BooksAndRowsAreFillsHolds`).
  `RowFaults`, its hypothesis, names the exceptions: a lost answer or a restart parts row
  and fill for good; and a row that the tick failed to write is certain to come only from a
  broker that reports every fill before the cursor passes it.
* **`ImplementsLedgerHolds`**: OrderFlow implements FillLedger. Each step enters a fill,
  settles one or stutters; the work is that a correction moves cash by exactly the entry's
  quantity times the change of its price, and it does if the clamp inside
  `apply_reconciled_fill` has nothing to cut. `Settling` says so: between a fill and its
  report no other order of that agent comes, so that an entry is still all it holds. This is
  where ticks that start early, reports before the booking, lost answers and restarts are
  excluded; the first item of section 5 is a correction of the wrong basis.
* **`CareerProofs`: `NeverThroughZeroHolds`** for any order of fills and reports, and
  **`BooksAddUpHolds`** for orderly ones. That the figures add up at every mark
  (`PnlAddsUpHolds`) rests on the value of a book at cost (cash + basis - realized), which
  `record_fill` always keeps and `apply_reconciled_fill` keeps unless it takes a fill for
  the opening one of a position that other fills paid for (`ReconcileFillAtCost`);
  `OpeningsHeld` excludes that. That the book is the one a replay at the best prices makes
  needs more: a report changes the price of one fill in the middle, and every later state
  of the replay with it. `Replayed` keeps these states as a function; `Run` says of a fill
  not yet corrected that only fills of its own side have come since, so after an opening
  one the position has only grown and after a closing one it has not passed flat; hence the
  correction shifts all later states by the same amounts, which are those
  `apply_reconciled_fill` applies. What the clamp cuts off adds at most its excess times
  the difference of the prices to the error.
* **`PeakIsOfThisPositionHolds`.** A seeded peak is the best price seen since, and before it
  is seeded nothing was seen (`Aligned`).
* **`OutcomesStayHolds`.** That stamps come in order is inductive with the types alone
  (`NotesInv`): a stamp goes to the oldest entry note without an outcome, and every earlier
  one has one. That they add up to the realized P&L is not, for a close books first and
  stamps later: `Unstamped` is what is between the two, and `EntryIsOpen` says that a close
  finds an entry note to stamp while nothing has failed. The fold over the notes is a sum by
  `OutcomesAreSum`.
* **`NeverMidTickHolds`, `RanksAreEarnedHolds`.** A pass that is under way holds the tick
  lock (`Locked`); this takes `Callers` to be the loop alone, and `career_evaluate` shows
  that it fails with the endpoint. While the lock is held no outcome comes, so what the pass
  has decided stays `Justified` until it is done, one change for each agent (`OneEach`). The
  agents behind it that are due are on its list (`Seen`), of which it takes the first few
  (`WorstAreCut`, by the lemma on sorting), and nobody it leaves is worse. A failed read
  counts as no outcomes; the theorem assumes there is none, or that no threshold is zero,
  since an agent without outcomes would otherwise have a rank (`NothingForNothing`).
* **`CareerTypeOKHolds`**, for the four side by side as the run has them.

### Broadcast (`BroadcastProofs`)

* **`SlotsAreSoundHolds`, `LeavesForAReasonHolds`, `QueueIsExplainedHolds`, `TypeOKHolds`.**
  The invariant behind `NoFlash` is `Ranked`: a queued moment that outranks one this drain
  has started is blocked, and stays blocked, because what blocks it outranks whatever the
  drain can still start. So the drain's starts never rise in priority and none can push
  off an earlier one. `Told` is what the overlay has heard of a moment, or will hear when
  the drain ends; `QueueBound` is the limit of the queue, by its cardinality.
* **`SidecarsAreRoutedHolds`, `RecapOncePerDayHolds`.** `Routed` says that whoever runs does
  so under an installed arbiter; `Counted` that the recaps of a day are those whose row was
  lost, the row there is, and the one being written; `Aired` that a poll in the window of a
  trading day leaves the day with a recap.
* **`StreamIsWholeHolds`.** `InStep` relates the inbox of a client to what was published:
  while it missed nothing, what it was shown and what waits make up everything since it
  subscribed; once it missed something its backlog is full and the next frame still follows
  the last, so that it is sent away before a gap shows. `Fresh` is the state of a new
  connection. `Filed` is the recorder's side: file and failed writes together are the frames
  up to the one being sent. `LossInv` follows the counter: each event a connected client
  missed was counted when it was dropped, and an answer about the gap moves the count to
  what has been told.
* **`DirectorTellsTheNewsHolds`, `LeadersAreRecordsHolds`.** What an agent has climbed since the
  last poll, step by step, is what parts its rank from the snapshot (`DirInv`), whatever
  falls and returns came between; and every moment fired was aired. A trade of the day that
  closed before a poll last read its agent is no bigger than the leader, for it was compared
  then, also if it has scrolled out of the history since (`Compared`); what was told is no
  bigger than the leader (`ToldLeads`). So what is bigger than the leader closed since that
  read, or nobody could read its agent that day (`NoneRead` is where a day begins).
* **`ClaimsAreBackedHolds`**, the safety part of `CommentaryIsSober`. The check of a claim runs
  on the snapshot taken before the model is called, while fills go on, and weighs the amounts
  with a suffix only, which is all the theorem speaks of: `TalkInv` says that
  the largest fill of a snapshot is one there has been, so at most the biggest by now.
* **`BroadcastTypeOKHolds`.** Types and bounds of the six components side by side: a step of
  the whole is a step, or a stutter, of each part (`PartsOfAStep`), whose invariants are the
  ones above. It takes clients and coordinators to be finite in number and the boot order to
  list every coordinator (the assumptions of `Suite` and `LiveStream`), for otherwise a boot
  would not end.

### Audience (`AudienceProofs`)

`AudienceInv` says, of each part, what the messages published so far have made of it.

* **`VotesAreCountedHolds`.** `BoardInv` is the board by the hour: `Ticked` what a tick made
  of it, `ToTick` what the last part of the day, or a restart, left for the next one, and
  that a decision was shown. The tally of a question is the number of its voters
  (`Counted`), and an open question has every voter's last answer among the messages since
  the board was made (`LastWord`).
* **`AnsweredOnceHolds`.** What has been published lies before the cursor once the poller is
  seeded (`PollerInv`), so a page begins after it. The queue has the newest requests, in
  their order, but for those resolved (`Queue`, `Newest`): a full queue drops the oldest.
* **`TypeOKHolds`**, with the bounds of the queue, the sentiment window and the failures.

A page is routed message by message by a `FoldLeft` over the desks (votes, sentiment,
pins). `IsPath` are the desks between two messages, and `RoutedKeeps` carries the three
statements along them, by a least message after which one of them would fail.

### Episode (`EpisodeProofs`)

* **`UploadIsTheReelHolds`.** The server has a prefix of the file (`FirstPart`), the client
  reads where it says it writes (`Aligned`), and the videos are numbered by the answers that
  were lost and the one that was not (`Numbered`).
* **`ClipsAreCurrentHolds`.** A run works through a list of jobs, so the invariant is about
  those no longer on it: while nothing has failed, a planned beat that is off the list has
  clip and sidecar of this take (`CapturedIsCurrent`); each job is on the list once
  (`JobsLeft`), so none is recorded over; a beat that is gone has had no clip since the plan
  was made, but for the files the purge could not delete (`GoneIsPurged`). A failed job may leave anything, and failures only count up, so
  a run that ends with none of them has left the list empty and every clip current.
* **`IndexIsHeardHolds`.** The index is written at the end, so what it will say has to hold of
  the rows gathered so far while wavs are still replaced: `RowFits` for the lines behind
  the run, each of which has a row or failed (`SoFar`). A row kept from the index is that
  of the index (`KeptIsOfIndex`). A text that changes under a run is noted in `rewritten`
  until the line is spoken (`Spoken`, `AsRead`), which is the property's own exception.
* **`ReelIsInSyncHolds`.** Stitcher, fallback, mixer and chapters work out the places of the
  clips independently of each other, by sums over the clips there are. `MadeReel` says of
  a reel that it was made of the plan's clips with one of the fades, and with the captions
  of the way it was joined, which are none for the fallback. Two readers then list
  the same set in the same order, for a set of beats has
  one list in the order of their times (`OneList`), which is the reel's own where it was made as
  planned; and the sums are followed along it, clip by clip (`SumTo`, `PairIsChain`).
* **`ChainsDeliverHolds`.** `ChainInv` follows each file through two chains that share a
  session. `Delivered` speaks of the chains that are alone: what such a chain has passed it has
  made, and the file it works on is the half one; `LeftAlone` says that no other chain
  runs on its session, and `TwoIfNot` that one that is not alone has another on it, which is
  the property's own exception. A file that is half then has an ffmpeg at work on it, or a
  kill, two chains, or the thumbnail behind it (`Explained`).
* **`EpisodeTypeOKHolds`.** The types of the five programs side by side, from the conjunction
  of their invariants (`EpisodeInv`), since a step of the whole is a step of one of them.

### Studio (`StudioProofs`)

* **`RunsAreOnRecordHolds`.** `OnePerDay` is not inductive by itself: the scheduler looks
  for a live row of today, so what matters is that a sweep at boot leaves the rows of
  today live (`TodayIsLive`). `Registered` says that ids are given out once, that an
  operator's run has no row before its end is stored, which is why the row written then
  tells how it ended, and that what is cached is in memory. So an answer from the cache is
  the run's own, and one from the table, of a run that fell off the cache or of a former
  process, is the same or, where the write is due or was lost, none. `OnePerWeek` takes a week to have one Saturday (`PipelineRunsAssumption`).
* **`ManifestIsOfOneSessionHolds`.** A manifest is written when its runner has counted its
  last fill (`ManifestFits`: the writer is merging, done or dead), so a count taken in memory
  stays that of the rows (`RowsAreCounted`). The second write adds its extras to the
  manifest it finds; `RunBesides` says that two live runners of one id know of each other,
  whence `Merging`: between its two writes a runner finds its own manifest or one of a
  runner it ran beside. No live row gets in since the live process writes under an id of
  its own (`SessionAssumption`).
* **`EpisodeIsOfItsWeekHolds`.** The parts about the rollup are about one step, but about
  sums over any number of sessions: `SumsFit` comes from following the fold over the
  sorted days (`Totals`). The parts about files are about all composers at a time.
  `OneAlone`: of two at work neither is alone; so the files behind a composer that is
  (`Behind`) can only be its own, whole, and stay so until it writes the metadata
  (`MetaIsLast`). A file in pieces is the one its composer is writing, or was when it broke
  off (`InPieces`). `Uploading` carries over the upload that the metadata is still of the
  copy unless another composition finished; where the upload starts, this takes
  `DoneShows` (the episode of a composition that was alone and is done is the one the
  metadata is about) and, behind it, `MuxIsBehind`. `PodcastAssumption` takes the ids an upload can
  give to be none of the words the code writes instead of an id.
* **`BeatsTellTheDayHolds`.** The invariant is small (`BeatsInv`: the list is what `Detect`
  makes of the day, and nobody sold more than was held); the work is in what the detector
  computes. Every candidate is a beat with a score of 0 to 100, and no two of a kind have
  one number (`CandidatesScored`), so each of the four orders sorts them (`BetterSorts` and
  its likes). `_dedup` passes through a sequence of kept lists (`IsDedup`), whose last keeps
  the anchors and, of beats that collide, a better one (`KeptOf`). `_select` puts the best
  that there is room for between the anchors (`ToldOf`). The walk over the fills and the
  books are followed side by side (`WalkMatches`): the detector knows shorts and the books
  clamp, so they agree as long as sales are held. The thresholds are any natural numbers,
  those the code divides by not zero, and the symbols are finitely many
  (`BeatsAssumption`).
* **`ProductionTypeOKHolds`**, for the four programs side by side as the run has them
  (`ProductionInv`), with the capacity of the cache of runs (`LoopsAndCache`).

### Only model-checked

* Everything under fairness: `EventuallySettled`, `NothingIsStuck`, `RunsEnd`,
  and the part of `CommentaryIsSober` that says that the commentator never falls silent.
  Liveness and `ENABLED` are outside the prover.
* Nothing else: every invariant and every action property that a run checks is stated by
  a theorem.

## 5. Deviations

Behaviour met while modelling that departs from what one would expect, or from what a
comment says, and has no run of its own.

### Trading

* A report that arrives after its position was closed, or closed and reopened, is judged
  by the quantity held now (`execution/virtual_book.py:261`) and corrects the wrong basis,
  although the docstring calls the correction exact. `SettledExact` fails with
  `Orderly = FALSE`.
* If the answer to a submission is lost, the exit stays unbooked while the pending-exit
  guard protects it for sixty seconds only and guards risk exits, not decisions
  (`orchestrator/scheduler.py:501`, `583`): the agent sells again and the account goes
  short at the broker. `BrokerNeverShort` fails with `Faults = {"lost"}`; likewise, for an
  order cancelled after it was accepted, with `Faults = {"cancel"}`.
* After a restart the marks are lost, so a fill that is reported then is dropped before
  the row of which `scheduler.py:1630` says that it "records the fill".
* A duplicate rolls the tick's transaction back; `storage/repo.py:181` says that "the
  original atomic write already persisted the matching position state", but if the
  reconcile loop's write came before the booking it had not.
* A close that realizes zero stamps no note (`scheduler.py:628` "stamp the matching entry
  note"), so its note takes the next outcome; so does the note of an entry the broker
  refuses (`scheduler.py:568`). An outcome stamped at the optimistic price is not
  corrected when the report moves the P&L (`scheduler.py:631`).
* The transaction of one report in a batch that fails loses the rest of the batch
  (`scheduler.py:1593`); `get_orders` returns at most 500 orders
  (`alpaca_broker.py:118`); an order visible only after a later one lies behind the
  cursor (`order_reconciler.py:106`).
* The academy loop is off by default and a cap of a tenth of fewer than ten agents is
  zero. A failed read of an agent's weeks may demote it. Two passes at a time record a
  promotion twice. The new `RiskManager` of a rank forgets the trailing peak. The guard
  of an exit that was refused holds it back until its TTL is over.

### Broadcast and audience

* A moment dropped from a full queue was announced as queued and nothing says that it is
  gone (`broadcast_os.py:241`); queued moments start only when somebody submits, not when
  a TTL elapses (`broadcast_scheduler.py:73`).
* `stop_background` stops the suite before the recap loop, whose moment then bypasses
  ledger and slots; a sidecar that fails to start ends the boot; the attribution of the
  day is stamped with the UTC day at 16:00 ET (`storage/strategy_attribution.py`).
* The drop counter of the bus is one for the process: a client that asks for the gap
  takes away what another one missed. A connection looks its recorder up once and writes
  to a closed one afterwards.
* The director finds agents that "moved up vs. the boot snapshot" (`auto_director.py:14`) by
  the ranks of its last poll: an agent that falls and comes back to the rank it had at boot
  is told as promoted. An edge its cooldown suppresses is never told; a director restarted
  on the same instance ends at once.
* The streak watcher is not seeded by a first poll that finds no trade; after a restart the
  day's best may be beyond the twenty notes it reads. `journal.recent_outcomes` turns an
  error into an empty list (`storage/journal.py:205`), so a seeding poll that could not read
  an agent takes it for one without trades, and a later poll announces as a leader what it
  closed before the restart (`LeadersAreNews` excepts agents nobody could read before).
  Streaks are not seeded at all: one that holds is told again after a restart and whenever
  its cooldown is over.
* The guard against invented amounts reads numbers with the suffixes k, m, thousand and
  million only (`commentary_loop.py:506`): "$200,000", "$2 billion" or "5 million shares"
  goes on air unweighed, and so does everything while the snapshot has no fill. The gate of
  the commentary opens for good at the first fill, its prompt calls recent fills "open
  positions", and its ids restart at 1.
* A frame the recorder could not write is sent all the same, and only the log says so
  (`api/ws_recording.py:161`): a recording may lack frames that were shown.
* The comment at `predictions.py:285` says a board made by the evening's reset is of
  *today*; it is of the next day and open. The circuit of `youtube_chat.py:240` is there
  "so we don't hammer Google's OAuth endpoint", but `_authed_get` refreshes after a 401
  without a look at it.

### Video

* `render/pipeline.py` calls outputs files that "when present, mean the step already
  succeeded". A killed program leaves half a file, a failing thumbnail does too, and the
  next chain takes them for done; the voice-over writes its index when lines failed, so
  the next chain skips it. A forced chain does not force the voice-over.
* The chain's capture and upload are always dry runs, and `upload_response.json` is never
  written. Times of a step are kept on success only, though "every terminal outcome" is
  promised. `_resolve_enabled` turns the voice on for `include_tts=False`, which the docs
  call an explicit no. The progress sink runs in a worker thread where there is no loop,
  so `pipeline_progress` is never published; `sys.argv` and `stdout` are exchanged for the
  whole process while a chain runs.
* `mix` and `metadata` are always given a fade by their own command line, so
  `reel.meta.json` is not consulted although a comment in `mix.py` says that forgetting
  the flag cannot drift the voice. `_line_clip_duration_sec` claims the number the
  stitcher used; the stitcher clamps and probes. The mixer takes beats in the order of
  `beats.json` and the stitcher by time and id, which differ within a second.
* `--beat` purges the clips of all other beats although `--keep-stale` says "whose beats
  are gone"; beats that are not rendered keep old clips. A stale
  file that cannot be deleted is passed over in silence (`render/headless.py:407`): the
  capture reports success, and the stitcher takes the clip of a beat that is gone.
* The pairwise fallback of the stitcher draws no captions on a reel of more than one clip
  (`render/stitch.py:546`), and nothing records that they are missing.
* An upload refreshes after a 401 a token that no PUT carries, without a bound, and an
  answer with a range but no progress is not counted.

### Sessions, beats, runs and podcast

* Manifests written under replay have no "injected clock time" (`session/manifest.py:20`):
  rows are stamped by `func.now()` (`storage/models.py:91`). A second run with the same id
  duplicates rows; a crash between the two writes leaves a manifest the chain takes for
  done; a range that ends in the future is accepted; `StrategyRollup` "fills" are open
  positions; a replay's `sync_positions` overwrites the live positions, and its agents
  are interns whatever their rank.
* A rivalry counts the whole day, not "inside window_min"; the closing burst of a short
  day may lie before its open; nothing passes promotion events, so that kind of beat never
  occurs.
* `_persist_run_state` gives ISO strings to DateTime columns, so no update of a run's row
  lands and it stays pending (`storage/models.py:190`, "pending -> running -> done |
  failed"). A process that dies during the daily run and boots again the same day inherits
  the live row and does not run again (`scheduler.py:925`), though
  `live_pipeline_run_for_date` speaks of the current process. A run can fall off the cache
  before it has a row (`api/pipeline.py:163`), and is not found then. So is one whose end
  could not be written, which is logged and not tried again (`api/pipeline.py:413`), once it
  is off the cache or the process has ended, though the docstring has "the next update"
  reconcile a failed one. The webhook blocks the event loop
  (`api/pipeline.py:350`). A podcast run killed on a Saturday is not repeated, and
  `_TRADING_WEEK_DAY_SHIFT` is 0 although its docstring puts Sunday and Monday together.
* No program calls `write_weekly_rollup` on schedule; its equity is that of the last
  directory by name; two sessions of one day are added up. The composer does not reuse an
  episode although the scheduler says so (`scheduler.py:1194`). The stub's script
  "(stub - no LLM creds)" cannot be parsed (`render/podcast.py:319`;
  `src/tests/render/test_podcast_script.py:140`), and a composition stops at its voice.
* Composing again drops `youtube_video_id`; `uploaded_at` is stamped before the upload and
  kept when it fails; a dry run writes "dry-run" as the id; a repeated upload makes a
  second video, and one during the mux sends half a file. An upload
  during a composition, or after one that broke off behind its mux, notes the id of its
  video in the metadata of the composition before, which does not describe it
  (`render/podcast.py:970`). `--skip-card` makes an empty card
  that ffmpeg cannot crop. The rollup may be rewritten between script and description,
  which "never drifts". The `script` command ignores `--out` for the rollup.

## 6. Not modelled

* **Strategies** (`agents/`): numerical code. OrderFlow takes any decision they can take:
  an entry while flat, the exit of the whole position.
* **Market data** (`data/`, calendars): input and output. A missing price and a closed
  market are choices of the models.
* **Decision feed, archive and shorts**: a bounded list of the agents' latest decisions
  for one endpoint (`orchestrator/recent_decisions.py`), and copies of finished clips and
  sessions, which no other component reads.
* **Recap queries, HTTP API, runtime settings and budgets**: read-only views, thin
  handlers over the components above, and constants of the models. The handlers that
  change the state of a component are actions of its module.
* **Front ends** (`src/web`, `src/stream`): React applications that display what the API
  sends.
* Within modelled components: `--no-captions` and a machine without a font, where a reel has
  no captions at all; wording, prompts, layout and drawing; `apply_fill_delta`,
  which has no caller; snapshots and fill moments of a tick; recordings served as a
  replay; the promotion scorer of the beats. What such code produces is a choice of the
  models or a constant.
* Components that run side by side without shared state are checked one at a time
  (section 2), so a property that relates, say, a rank to a broadcast moment is out of
  reach of these runs.

Worth doing next: AutoDirector and StreakWatcher publishing into BroadcastSlots, in one run
with it.
