# African Market Data: specification

TLA+ specifications of the parts of this repository whose correctness depends on
order, loss, failure or accumulated state, the TLC configurations that check them,
and TLAPS proofs about them. `PROJECT.json` maps every definition to the lines it
models. Paths below are relative to `src/crates/` unless they say otherwise.

    tlc -config MCMitchFeed.cfg MCMitchFeed     checks a configuration
    tlapm MitchFeedProofs.tla                   checks the proofs of a module

## 1. The system

Direct feeds (MITCH, MoldUDP64) and polled sources become normalised quotes, which
go to an event bus and an archive and leave through an HTTP API.

| Component | State it keeps | Operations | Talks to | What makes it correct |
|---|---|---|---|---|
| MITCH sequencer, `amd-feed/src/mitch/sequencer.rs`, `header.rs` | expected sequence, a mark per line, quarantined instruments, replay budget, counters | `observe`, `quarantine`, `release`, `resync` | called by a feed handler for each packet of two lines; answers with an `Action` | no message applied twice or skipped; restarts told from duplicates; each gap escalated once; the replay quota kept; no quarantined book let out by a packet |
| MoldUDP64 sequencer, `amd-feed/src/moldudp64/sequencer.rs`, `header.rs` | session, expected sequence, counters | `observe`, `recovered_to` | as above | the same, with sessions instead of restarts |
| Order book, `amd-feed/src/book/` | order pool, price levels, tape, anomaly counters | `apply` (one branch per message), `reset` | fed the messages the sequencer lets through | pool and levels agree; sizes add up; time priority; only the reported book changes |
| Codecs, `amd-feed/src/mitch/{message,packet,build,types}.rs`, `moldudp64/{packet,types}.rs` | the offset of a walk, the packet being built | decode a packet, walk its messages, build one | between socket and book | a walk never leaves the packet, ends, and yields what was sent or says that it did not; builder and decoder have one layout |
| Ingestor, `amd-ingestor/src/main.rs` | last announced session state, last price seen per instrument | `run_venue`, `poll_once` | calendar, adapter, bus, archive; one task per venue, nothing shared | a price is suppressed only if it was sent; yesterday's closes suppress nothing; every standing price is served |
| Calendar, `amd-calendar/src/` | none (a table of venues) | `session_state`, `is_trading_day`, `session_date` | ingestor, API | windows half-open, days local; every registered day unfolds in order |
| Money and quotes, `amd-core/src/` | none | parse, rescale, compare, add | everywhere | exact fixed point, explicit rounding and overflow |
| Event bus, `amd-bus/src/` | the JetStream stream (external) | `publish` with acknowledgement, `subscribe` | ingestor, API | subjects name venue, kind and instrument; a subscription matches its venue and no other |
| Stores, `amd-store/src/` | ClickHouse and Postgres (external) | `from_quote`, `insert_quotes`, `lookup`, reference data | ingestor, API | one scale and currency per row; unknown class fails closed; upserts forget nothing |
| API, `amd-api/src/` | shared state (adapters, stores, bus) | snapshot and stream routes, entitlement filter | stores, bus, adapters | no caller sees a delay class it may not, by either route; what is withheld is told; snapshot and stream leave no gap |
| Adapters, `amd-adapters/src/` | registry by venue | register, preferred, `get_json` with retries | ingestor, API | bounded retries that can help; last registered wins |
| TypeScript SDK, `src/sdk/typescript/` | none | a second calendar, money and HTTP client | the API | agrees with the Rust |

What is hard here: two lines that carry the same packets, lose them independently
and run at different speeds; recoveries that answer late or not at all; a failover
or a new session while packets of the old stream are in flight; books kept by
increments, where one missed or repeated message never heals; awaits on two sinks
that fail separately; a process that dies between them; a client that stitches a
board and a stream together; one rule written by hand in two places or two
languages. `PROJECT.json` lists each hazard at its line.

## 2. Modules

| Module | Models | Extends |
|---|---|---|
| `MitchSequencer` | the MITCH sequencer, by itself in `SeqSpec` | |
| `MitchFeed` | that sequencer between exchange, lines, recovery and handler | `MitchSequencer` |
| `BookPromise` | what a feed promises its publisher, abstractly | |
| `MoldSequencer` | the MoldUDP64 sequencer, by itself in `SeqSpec` | |
| `MoldFeed` | that sequencer in its feed, with sessions and lost retransmissions | `MoldSequencer` |
| `OrderBook` | the books of one venue | |
| `Calendar` | what `session_state` says of an instant | |
| `Ingestor` | the polling loop of one venue | `Calendar` |
| `Entitlement` | delay classes, keys, the filter and what it withholds | |
| `Subjects` | bus subjects and wildcard matching | |
| `AdapterRegistry` | the adapters of each venue, in their order of preference | |
| `Api` | sources, ingestor, bus, both routes and clients together | the four above and `Calendar` |
| `MitchMessage`, `MitchPacket` | the layout of each MITCH message; building and walking a packet | |
| `MoldPacket` | walking a MoldUDP64 packet | |
| `Prices` | `Money`, the kwayisi row, the archive row | |
| `HttpRetry` | the retry loops of `http.rs` and of the SDK | |
| `Venues` | the registered venues, Rust and TypeScript | `Calendar` by `INSTANCE` |
| `InstrumentId` | how a ticker is folded into an id, and an id's text | |
| `SdkMoney`, `SdkClient` | the SDK's prices, adapter and annotation beside the Rust | `Prices`, `Venues`, `InstrumentId` |
| `ReferenceStore` | the instrument and alias tables | `InstrumentId` |
| `*Proofs` | proofs (section 5) | the module they are about; `PacketProofs` both packet modules, `FunctionProofs` the parts `MCFunctions` puts together |
| `FoldLemmas` | what the folds of the community modules compute | |
| `MC*` | instances for TLC; `MCFunctions` runs the parts that share no state | |

**MitchSequencer.** `expected`, `lineHigh`, `quarantined`, `replayBudget` and `stats`
are the fields of `Sequencer`. `observe` is one action per answer: `Heartbeat`,
`ExchangeRestart`, `FirstPacket`, `InOrder`, `Duplicate`, `RequestReplay`,
`RequestSnapshot`, each with the guards of the branches before it; exactly one is
enabled for a packet. Arithmetic wraps at `SeqMod` as the `u32` does.

**MitchFeed.** `src/` holds the sequencer and the book but no process that joins
them: the module comments, the tier table at the top of `sequencer.rs` and
`amd-feed/tests/mitch_recovery.rs` say how they are used. The exchange, its lines,
the Replay and snapshot channels and the handler are therefore *external*, modelled
as those texts have them: a handler applies what is in order, holds what arrives
over a gap, fills the gap, drains what it held and calls `resync` with the first
message it does not have. Publication of books stops while a snapshot is awaited
(`Live`). `Deliver*` is one action per answer of `observe` together with what the
handler does about it. A replay is refused when the channel's window has rolled
past the request; then the handler takes a snapshot. A snapshot reflects everything
before some position at or after the moment of its request. The handler may
withhold the book of one instrument at any time and publishes it again once the
books are live (`WithholdBook`, `PublishBook`: `quarantine` and `release`).
`lineEpoch` and `streamEpoch` are history, used by properties only.

**MoldSequencer / MoldFeed.** The same for MoldUDP64: `session` is checked before the
sequence, packets that overlap the position are applied, `recovered_to` never moves
back. The code's `seen` array is written and never read, and is left out. The
retransmission server is unicast UDP, so an answer may be lost; the handler keeps
the overlap out of the books by sequence number, as the comment in `observe` asks.

**OrderBook.** `pool` and `levels` are the code's two indexes; a level is a quantity
and a queue, and a key of `levels` exists exactly while the `BTreeMap` entry does.
`tape` is the rest of a `Book`. One action per message, with all that `apply` does:
`ReAddOrder` is `add` with the delete of the stale order inside it, `ModifyToBack`
removes, re-queues and updates the pool entry. `touched` is what `apply` returned.
Missing orders, ids used again and executions larger than the order are inputs.
`earlier` is history: which of two live orders took its place first, as the messages
say it, whatever the handlers then do with the queues. The code's `desynced_level`
branches are modelled although `NeverDesynced`, which is proved, says that they are
never taken.

**Calendar.** `SessionStateAt` is `session_state`: not a trading weekday, inside a window,
before the earliest window, or else closed. Time is counted in minutes and the venue's
zone is an offset from UTC. An error of the calendar, which the ingestor reads as
closed, needs a zone the library does not know; the registry's tests rule it out.

**Ingestor.** The clock runs through the calendar's days and weekends, and the loop reads
it where the code does. A step runs from one await to the next: `Observe` (clock), `Announce`
(bus), `Fetch` / `FetchFails` (source), `PublishQuote` (bus, one quote), `InsertQuotes`
(archive, the batch). A write that fails may have reached the sink: its
acknowledgement can be lost. `Crash` empties the memory, which is all the loop has.
Prices are compared as `cmp_value` does, so a `Price` stands for a value, whatever its
scale; which quotes the archive refuses is given by `Unarchivable`. `missed` and
`printed` are history. The iteration over the fetched quotes is in no particular
order, as they come from a source; a quote appears once in an answer.

**Entitlement, Subjects, AdapterRegistry.** Operators only. `Kept` is the filter of
`entitlement.rs`, `Withheld` the account it gives, `NoKey` the anonymous caller.
A subject is the sequence of tokens its dots separate, so that a ticker with a dot in
it is two tokens, as it is for NATS. A registry is a function from venues to
sequences of adapters; registering puts an adapter in front.

**Api.** A request moves between its awaits: `Ask`, then `NoSource`, `SourceFails` or
`SourceReads` and `Respond` (the adapter's quotes, the filter and the annotation, with
no await between), then `Take`. `Subscribe`, `Relay` and `Disconnect` are the stream.
`Poll` and `PublishQuote` are the part of the ingestor that decides what the bus
carries; API and ingestor are processes with registries of their own, any two of
`Registrations`, and the API may have found no bus when it started. The client is
external and does what the comment in `amd-bus/src/lib.rs` asks: it subscribes, takes a
board, and lets the stream prevail over it. `lost` is history.

**MitchMessage, MitchPacket, MoldPacket.** A message is its type, its length and whether
its constrained fields hold a legal value; a datagram is its size, the header's fields
and the messages at the offsets where they were put. What is at any other offset is
chosen when the walk reads it, so that a walk that has lost its place reads anything.
Packets are built by `PacketBuilder` or sent by anybody (`Foreign`), and are cut and
extended on the way. Lengths and counts wrap where the code's `u16` and `u8` do.

**Prices, SdkMoney, SdkClient, HttpRetry, Venues, InstrumentId.** Pure functions: each operation
beside its reference definition (rescaling against the nearest multiple, arithmetic
against integers, the retry loop against what a script of replies makes worthwhile,
a venue's day against the order of its phases), and the TypeScript twin beside the
Rust. An operation of `Money` returns a price or an error, as the code does; `MaxMinor`
is the width of `i128`. A reply whose body breaks off, or which the client's timeout
meets while the body is read, is one of its own: the code makes an error of decoding
of it and does not try again. A board is a sequence of rows with the tickers the source
wrote, and either adapter folds them where its code does.

**ReferenceStore.** Each statement of `reference.rs` is an action; the keys are the text
that `InstrumentId` makes of venue and symbol, character by character, since the
property is whether two instruments can share it.

## 3. Runs

| Run | Question | Bounds |
|---|---|---|
| `mitch_feed` | Are live books always a prefix of the stream, is no message below the position lost, does no packet and no answer rewind it, and is what was delivered applied in the end? | 4 messages in packets of up to 2, one packet in flight on each line, window 2 and budget 1, so that a replay is served, refused and no longer affordable; snapshots that end anywhere, inside packets too |
| `mitch_failover` | Is a restart read only where there was one, do budget, position and accounts survive it, and is a withheld book let out by nothing but the handler or a restart that leaves no book live? | 3 messages per site, 1 failover, 1 packet in flight, 1 instrument, snapshots that end anywhere |
| `order_book` | Do the two indexes and the sizes agree after any stream of messages, do the queues stand in the order of time, and is the report right? | 2 orders, 2 instruments, 2 prices, sizes 0 and 1, 1 trade per book and 1 anomaly |
| `mold_feed` | The questions of `mitch_feed` for MoldUDP64 (safety), over a change of session, and that no late answer rewinds it. | 2 sessions of 3 messages in packets of up to 2, 1 in flight, 1 lost retransmission, snapshots that end anywhere |
| `ingestor` | Does suppression follow what was sent, over failures, crashes, a midday break and a change of day, and is a standing price served? | 2 instruments (one not archivable), 2 prices, 2 trading days of 5 minutes with two windows each and a day off between them, 2 moves, 2 failed writes, 1 crash |
| `api` | Does either route leak a class, is what is withheld told, and does a client end up with the price wherever its board falls between two events? | 2 venues, 3 instruments, 3 deployments, 1 client, 1 trade, 2 faults, 2 minutes |
| `functions` | Do walks of sound, cut, extended and forged packets end inside them; do builder and decoder agree; is arithmetic exact; is what may succeed tried again; do venue days unfold; does the SDK make the same of prices, replies, venue entries, boards and quote times; do upserts forget nothing? | counts wrap at 4 and lengths at 80; up to 5 messages built; scales 0 to 2 and minor units to 99999, with both ends of the width; 2 retries; boards of up to 2 rows whose tickers differ in case, blanks and separators; 2 rows per table; every venue, every day, every minute where a table changes |
| `mitch_restarts` | Findings 1 and 2 | 3 messages, 1 failover, 2 in flight |
| `mold_flap` | Finding 3 | 2 sessions, 2 in flight |
| `book_touched` | Finding 4 | 2 orders, 2 instruments |
| `ingestor_lost` | Finding 5 | 1 failed write |
| `sdk` | Findings 6 to 9 | those of `functions` |

The properties of `mitch_restarts` and `sdk` are conjunctions of named parts
(`RestartNotReadAsDuplicate` and `OneRestartPerFailover`; `SdkVenuesAgree`,
`SdkTickersAgree`, `SdkRefusesNoMore` and `SdkSessionIsCurrent`). TLC stops at the first
counterexample it meets; every other part fails too, and put alone in the same
configuration it gives the trace of its own finding.

Why the bounds are enough. A sequencer's decision depends on one packet, one line's
mark and the position; two messages in order, one lost and one after it show every
branch, and a fourth lets a second gap open while the first is being filled. The order
book needs two orders to compete for a place and a second instrument and price to move
between; queues of any length are the subject of `QueuesKeepPriority`. Two prices and
two days are what makes a stale baseline visible; one crash falls at every await. A
client's board can fall before, between and after the two awaits of one publication,
and one trade places it there; a second fault lets a stream break after an event was
lost. What a walk finds where no message was put is chosen from every kind of message,
so short packets meet every branch. Where a property is also proved (section 5) the
bounds only mattered for finding out.

`BookPromise` is the abstract specification: while the books are live they reflect a
prefix of the stream, they may be suspended, and they come back no older than they
were. `KeepsPromise` checks that `MitchFeed` (one site) and `MoldFeed` (until the exchange
opens a second session) implement it. `BookHasNoHole` is the state form of the same
promise and says in addition that the prefix ends at the sequencer's position.

Every feed run has deadlock checking on and never stops: a heartbeat can always be
sent. So have the book, the ingestor, whose loop never ends, and `functions`, which
begins again. `api` has it off: its clock and its trades are bounded, and once both
are used up and every client is served nothing is left to do.

### Findings

1. **Silent failover** (`mitch/sequencer.rs:224`). `resync` forgets the lines' marks,
   and a restart is known only by a mark. If the exchange fails over right after a
   recovery, the new stream is read as duplicates until it has caught up with the
   old position.
2. **Double restart** (`mitch/sequencer.rs:146`). A packet of the old stream still in
   flight on the slower line marks it again after the restart cleared it; when that
   line restarts in turn, the books are rebuilt a second time. The test says "exactly
   one restart, not two"; it has no straggler.
3. **Session flapping** (`moldudp64/sequencer.rs:127`). A packet of the closed session
   still in flight changes the session back, and the next one changes it again.
4. **Untold change** (`book/mod.rs:366`). An add that reuses a live id on another
   instrument removes the stale order from the first instrument's book and reports
   only the second. Otherwise `OnlyTouchedChanges` holds.
5. **Suppressed without having been published** (`amd-ingestor/src/main.rs:188`). The
   price becomes the baseline before the publish, also when that fails. It is not
   sent again until it moves, the day ends or the process restarts.
6. **Two venue tables** (`src/sdk/typescript/src/exchanges.ts:54`). GSE, NSE, BRVM, BSE,
   DSE, ZSE and MSE have other windows in the SDK than in the Rust registry, and ZSE
   another currency (USD, not ZWG), although "the Rust workspace is the reference
   implementation".
7. **Two ids for one ticker** (`src/sdk/typescript/src/adapters/kwayisi.ts:104`). Both
   adapters compare tickers in capitals, but the SDK quotes a row under the name the
   source wrote, where `InstrumentId::new` folds and trims it.
8. **A board refused for a missing change**
   (`src/sdk/typescript/src/adapters/kwayisi.ts:102`). The Rust takes it for 0.
9. **The session of another moment** (`src/sdk/typescript/src/client.ts:75`). The SDK
   reads the session before it awaits the quotes it hands out with it; the API reads the
   clock when the source has answered.

Further differences met on the way, with no run of their own:

- A MITCH packet that straddles the position a snapshot left is discarded whole
  (`mitch/sequencer.rs:166`), although the comment has a duplicate "already seen on the
  other line": its last message may have been on no line. `mitch_feed` has such packets,
  and `PassedIsNotLost` says what saves the books: the discarded message is not below the
  position, so the next packet opens a gap and a recovery brings it. MoldUDP64 applies
  such packets at once.
- `Action::RequestSnapshot` of MoldUDP64 speaks of "retransmission already exhausted"
  (`moldudp64/sequencer.rs:56`), but the choice at line 160 looks at the width of the
  gap alone: an unanswered request is made again for ever.
- "The decoder carries it as state" (`mitch/message.rs:38-41`, of the Time message that
  gives offsets their meaning): no decoder keeps any.
  `verify_count` is satisfied by a packet with an undecodable message at its end
  (`mitch/packet.rs:57-60`).
- `stale` is never true of a source without timestamps, whose quotes are stamped on
  arrival (`amd-api/src/routes.rs:259-260`).
- "API serves latest quotes from a cache" (`amd-store/src/clickhouse_store.rs:194`): it
  asks the adapter on each request.
- "Every NGX quote" (`amd-bus/src/subject.rs:61`) is every quote of a ticker without a
  dot: the wildcard's `*` is one token, so that the stream (`amd-api/src/routes.rs:346`)
  would never carry a dotted ticker, which the board shows. The instance of `api` has
  tickers of one token.
- One malformed kwayisi row refuses the whole board (`amd-adapters/src/kwayisi.rs`).
- An instrument's currency is never updated on conflict (`amd-store/src/reference.rs`).
- `get_json` gives up on a response whose body breaks off or is cut by the client's own
  timeout (`amd-adapters/src/http.rs:53-56`), though the same failure a moment earlier,
  before the status, is tried again; the SDK tries both again.
- The SDK rounds a number's ties as `toFixed` does, where the Rust rounds half to even; tries
  again also a body it cannot parse and a request it cannot send; takes an empty list of
  symbols for none where the Rust takes it for all; has scale 4, not 8; rounds
  `stalenessSeconds` where the Rust truncates. `SdkMoney`, `SdkClient` and `HttpRetry` model
  both sides of the first four, and `SdkAgrees` compares what either makes of the same
  input: prices to the nearest unit of the narrower scale, the same answer where both
  make as many attempts.
- The SDK's README says that its HTTP client is not written; it is.

## 4. Fairness

- `MitchFeed!FairSpec`: each line's packets are read in the end (the socket reader is
  a loop), an outstanding replay is served or refused, and an outstanding snapshot
  arrives. Each is weak fairness on one action that stays enabled. Nothing obliges
  the exchange to publish, so a message that no line delivered is not promised.
- `Ingestor!FairSpec`: weak fairness on `Step`, the loop's own steps. Sleeps end and
  requests are answered, since the HTTP client has timeouts; failures and crashes are
  bounded, and a failed poll is no `Step`. `PriceIsServed` speaks of prices that stay
  on the board of an open venue, and excepts writes that failed (finding 5).
- `Api!FairSpec`: weak fairness on each task, which the runtime schedules for ever: the
  loop of each venue (`IngestStep`), the answer to each request (`AnswerStep`), each
  stream (`Relay`), each client (`ClientStep`). `SubscriberCatchesUp` excepts prices
  whose event the stream lost, and asks that both deployments serve the instrument.
- There is no fairness on the clock, the exchange, the source, or on faults.

## 5. Proofs

All assumptions are the named `ASSUME`s of the constants, evaluated by TLC in the
passing runs: sequence arithmetic (`SeqMod` positive, a packet smaller than the
sequence space, `MaxSeq + 1 < SeqMod`, so that a feed's own numbering does not wrap),
natural bounds, a natural stale-after time, at least one position, `None` outside the
sets it is added to, codes and symbols that are tokens, finitely many instruments, an
anonymous caller that is none of the keys, headers and damage that are numbers of
their fields' widths, and small letters, capitals, separators and listings that are
apart (`InstrumentId`), of which tickers are texts. The theorems hold for any value of
the bounds, any windows and budgets, any lines, sessions, orders, instruments, prices,
deployments and clients.

- `MitchFeedProofs`, first part: the sequencer alone (`SeqSpec`, any packets whatever;
  that positions wrap is only proved, the runs of the feeds stay below the wrap).
  `TypeOK` and `Accounting` (`BudgetConserved` and `GapsEscalateOnce`) are inductive
  together: the budget stays in its range only because a replay is requested when some
  is left. `ArbitrationNeverRewinds` follows step by step from `TypeOK`, with the two
  lemmas on `%` (`Reduce`, `AdvanceOrWrap`). The same two properties hold in the feed
  because each of its steps is, for the sequencer, an answer of `observe`
  (`DeliveryIsObserved`), a recovery or nothing (`FeedMovesSequencer`):
  `FeedGapsEscalate`, `FeedNeverRewinds`.
- `MitchFeedProofs`, the feed. `FeedType` is `FeedTypeOK` with the fact that packets in
  flight end within the stream. `RestartOnlyAfterFailover` is an action property that no
  invariant of the sequencer alone implies: it needs `LinesOrdered`, which says that a
  line's mark and the packets in flight on it are in order, first by epoch, then by
  sequence, and none is ahead of the exchange. Publishing keeps it because the exchange
  numbers forward, a failover because epochs come first, `resync` and a restart because
  an unmarked line says nothing. `BookHasNoHole` needs `Joined` (a replay is only ever
  pending after the first packet) and is proved by the step in which the book or the
  position changes. It holds for any number of failovers, but `book` does not tell the
  numbers of two sites apart, so it says that books are whole only for one site's
  stream; `mitch_feed` checks it there. `QuarantineIsKept` (`QuarantineHolds`: a book is
  let out by the handler while the feed is live, or by a restart that leaves it not
  live, and by nothing else) follows from the types: no other action than `PublishBook`
  and `DeliverRestart` shrinks the quarantine, and after the latter a snapshot is
  awaited. `OneSitePromiseKept` is the refinement of `BookPromise` for `MaxEpoch = 0`:
  then no packet is read as a restart (by `LinesOrdered`), and `SiteInv` says that
  nothing the handler holds, asks for or expects is ahead of the exchange, and that
  books kept while a snapshot is awaited are older than what it will reflect.
  `OneSitePassesOnlySeen` states `PassedIsNotLost` for one site, wherever snapshots end:
  every message below the position is in the books, held, or in the snapshot to come.
  Its invariant `SnapshotWillJoin` says that what was passed since the snapshot was
  asked for is held; a packet that is in order is held or applied whole, and a recovery
  resumes at the first message that is missing. `OneSiteOnlyAdvances` is the other half
  (`PositionOnlyAdvances`): no packet and no late answer moves the position back, since
  a snapshot reflects what was published when it was asked for and joins what is held.
  After a failover a snapshot does move it back, to the new site's stream; of packets
  alone `FeedNeverRewinds` says it for any number of failovers.
- `MoldFeedProofs`. Of the sequencer alone: types, the accounting of gaps, and
  `PositionOnlyAdvances`: within a session no packet and no recovery moves the position
  back; both carried over to the feed as for MITCH (`MoldFeedGapsEscalate`,
  `MoldFeedNeverRewinds`). Of the feed: the invariant `FeedInv` has, besides types and
  `BookHasNoHole`: every packet in flight was published (`LinesPublished`); what is held
  is of the session followed; if that is the running session then position, held
  messages and requests are not ahead of the exchange (`NotAhead`); a retransmission is
  asked for from the position or from behind it (`AsksFromBehind`); and what was passed
  since the snapshot was asked for is held (`SnapshotWillJoin`), which is why the
  position may move on while the books wait and yet nothing is missing when the snapshot
  comes. There is one lemma for each answer of `observe`, each recovery and each act of
  the exchange. `NothingDiscardedIsLost` reads the step of a duplicate off it.
  `MoldPromiseKept` is the refinement of `BookPromise`, step by step: it needs
  `FirstSession`, that books kept while a snapshot is awaited are older than what it
  will reflect.
- `OrderBookProofs`. `BookInv` is the type and `PoolMatchesLevels`: the orders of the
  pool and those queued at the levels are the same, each once, at its own key. `Agree`
  says so of any pool and levels as values, and three lemmas say what removal, addition
  and resizing make of them; the actions are compositions of these (`ModifyToBack` and
  `ReAddOrder` of two). `NeverDesynced` follows, since every branch that would count has
  a guard that `Agree` refutes. `TimePriorityKept` compares the queues with the history
  `earlier` of who was given a place before whom; its invariant `PriorityInv` is kept
  because taking an order out leaves the others ranked (`RemovalRanks`) and appending
  one that came last ranks it last (`AppendRanks`). `OnlyTouchedChanges` follows from
  the levels each message can write (`StepReports`). `SizesAddUp` (`LevelsAddUp`: a
  level's size is the sum of its orders' in the pool) is inductive beside them: a sum
  over a finite set changes by what is put in, taken out or resized.
- `IngestorProofs`. `SinksFollowBaseline` speaks of the loop between iterations; the
  inductive `SinksInv` says of every instrument, at every await, which sinks already
  follow its baseline: bus from the moment of its publish, archive unless its row waits
  in the batch. `BaselineIsTodays` needs `TodaysInv`: the loop polls only when the state
  it announced last is open, and has no baselines while that is none or pre-open. It is
  proved for `ForcePoll = FALSE`; with forced polling it is false.
  `ForgetsOnlyOvernight` needs `Announcing`: while the loop is announcing PreOpen and
  has baselines to lose, it still is PreOpen. Both rest on one fact about the world, in
  the guard of `Tick`: PreOpen lasts longer than the loop sleeps, so a running loop sees
  it (from midnight to the first window, at least nine hours, against
  `CLOSED_INTERVAL`). A registry entry with a window open at midnight would break it,
  and `WindowsAssumption` excludes that.
- `ApiProofs`. `EgressIsFiltered` speaks of what clients show; the invariant adds what
  answers and inboxes hold: an answer's quotes passed the filter and are of the venue
  asked for, and what is in an inbox matched the subscription. Hence lemmas on subjects
  (a match fixes the venue, for any symbol, dots included), on the classes (anonymous
  callers are permitted end-of-day and unknown, no other) and on the filter. It holds
  for any adapters of any classes, and for an ingestor and an API that register
  different ones. `AnswersTellWhatIsWithheld`: the quotes the adapter returned are those
  served and those withheld, and none is both, so that the numbers in the answer add up
  to the board, for any board; and a key of the class the answer names would have been
  served what it left out.
- `FoldLemmas`. The folds of the community modules are recursive functions on subsets,
  given by `CHOOSE`; that the function exists and is the only one follows by the least
  counterexample, from the library's well-foundedness theorems that take no operator. On
  it rest sums over finite sets, prefix sums and folds of sequences.
- `PacketProofs`. `MoldWalkIsSound`, `MitchWalkIsSound`: whatever bytes arrive, a walk
  ends, stays inside them, and is accepted (`finish`, `verified`) only where the header
  says. The invariants (`MoldInv`, `PacketInv`) say that an offset is the sum of the
  lengths read so far, which is where the encoder put the next message.
  `BuiltPacketsReadBack` follows: a walk of a built packet, cut or extended, that
  reports no error yields what was built. Counts and lengths wrap as they do in the
  code, at any width.
- `FunctionProofs`. `ReferenceDataIsKept`: the text of an id, parsed, is the id (`Trim`
  and `Upper` of a neat text are the text itself), so two instruments never share a row,
  and no upsert forgets one (`TablesInv`). `PricesAlwaysExact`: for every price of any
  scale, rescaling up and down, arithmetic, the comparison, the previous close of the
  adapter and the row of the archive are what their references say; powers of ten by
  induction, `HalfAway` as the nearest multiple. `SdkPricesAlwaysAgree`: the SDK's
  prices, with the exceptions stated there. `RetriesAlwaysHelp`,
  `SdkRetriesAlwaysAgree`: for any script of replies and up to 65 attempts the loop
  tries again after 429, a server error or no status at all and after nothing else, so
  not after a body that breaks off, and waits as it should (invariant `Runs`, the loop's
  state as the part of the script read). A 66th attempt would shift a 64-bit 1 out of
  its width (`amd-adapters/src/http.rs`); three are the default. `SdkBoardsAlwaysAgree`:
  for any board of any tickers on which both adapters answer, they quote the same rows,
  the services' id is what `InstrumentId` makes of the SDK's ticker (`FoldedBefore`:
  folding a folded ticker changes nothing), and the two read each number to the nearest
  unit of their scales (`NearTo`), so two readings of one are at most a unit of the
  narrower apart (`TwoReadings`) and equal where it holds the digits. `SameStates`: of
  the services' entry of a venue, any venue, the SDK's algorithm makes the services'
  session state at every instant; that its own entries differ is finding 6.
  `SdkAlwaysAgrees` puts these together, with the annotations for any wait and age where
  the two give the venue the same state when the SDK asks. `VenuesAlwaysFit`: the days
  unfold in order at every minute, not only at the moments TLC visits, because each
  venue's windows lie within its day and apart (`WindowsApart`). `LayoutsAlwaysAgree`
  rests on what a built message's fields add up to (`FieldsFollow` in `PacketProofs`)
  and on the fields of each type being apart.

Only model-checked: liveness (`ReceivedIsApplied`, `PriceIsServed`,
`SubscriberCatchesUp`), which is beyond the prover. What the violation runs refute is
false. The tables of layouts and of venues hold no constants: TLC
visits every entry of theirs, and the proofs add the minutes and the instants between
those it tries. Recursion over sequences and numbers is proved by hand from least
counterexamples; the library's induction theorems, which take an operator, cannot be
instantiated here.

## 6. Left out, and why

- What a message's fields mean (prices, sides, flags), formatting, logging, SQL text,
  container files, start-up: no state of the program's own.
- The per-message filter of an overlapping MoldUDP64 packet is the handler's, which
  `src/` does not have; messages are sets of sequence numbers, so applying one twice
  is invisible in the books of the feed modules and is a property of positions
  (`ArbitrationNeverRewinds`, `PositionOnlyAdvances`).
- `KeepsPromise` of `MoldFeed` ends with the second session: its books then start again
  from nothing, which is no growing prefix. `BookHasNoHole` goes on.
- Keyed callers: no route resolves a key yet. `Entitlement` has the lookup and the filter
  for keys, and `WithheldIsTold` uses them for what an answer says it would have taken.
- Events are assumed to decode to what was published; NATS, ClickHouse and Postgres are
  external, and their statements atomic.
- The API's routes for exchanges, sources, instruments and health only read. `latest`,
  `history` and the usage log are queries of the store.
- The kwayisi history and profile pages are parsing. `session_date` has no caller that
  changes state; holidays have no data.
- The SDK's `AdapterRegistry` keeps what the Rust one keeps and is not modelled twice.
- Trade volume and anomaly counters have widths (`u64`) that no session reaches.

## 7. Plan

Done: the feeds, the books, the ingestor, the API with what it serves, the codecs,
money, retries, venues, reference data and the SDK; and the proofs above.

What is left, the most important first:

1. The feed process itself, when `src/` has one: until then `MitchFeed`, `MoldFeed` and
   `OrderBook` meet only in the texts.
2. Keyed routes, when a route resolves a key.
