# Verification of the tick-to-trade pipeline

TLA+ models of the FPGA tick-to-trade pipeline in `src/rtl`, of the host that sends
its orders in `src/host`, and of the cocotb tests in `src/sim`; the TLC runs that check them on small instances,
and TLAPS proofs of the main results for every value of the parameters. The RTL
is modelled edge by edge: an action is one rising clock edge (or, on the host,
one callback or task step), so that what is checked is the order in which
registers are written and read, which is where this design can go wrong.

- [The system](#the-system)
- [Modules](#modules)
- [Runs](#runs)
- [Fairness](#fairness)
- [Proofs](#proofs)
- [Where code and documents differ](#where-code-and-documents-differ)
- [Not modelled](#not-modelled)
- [Plan](#plan)

## The system

Bytes of an ITCH 5.0 feed enter one per cycle; orders leave on an AXI stream to
the host, which checks them again and places them with a broker.

    AXI bytes -> itch_parser -> (held message, valid/ready) -> order books
        -> ladders of the active symbol -> strategy_imbalance -> risk_check
        -> output registers -> host queue -> RiskGuard -> placeOrder
    latency_counter watches the first byte of a message and the order that leaves;
    the host reads and clears it over AXI-Lite.

| Part | State | Operations | Talks to | What is hard | What makes it correct |
| --- | --- | --- | --- | --- | --- |
| `itch_parser.sv` | byte counter, type, a shift register per field, one held message | stall, shift a byte, finish a message, reset | takes bytes from the DMA; holds a message until the engine is ready | the stall must come on the exact byte; fields outlive the message they came from | each supported message is presented once, in order, with its own bytes |
| `order_book_m2.sv` | 256 orders in block RAM (one slot per low reference bits), valid bits, ladders, LOOKUP/RESCAN state | add, reduce, delete, replace, ignore; lookup a cycle later; rescan of the table | message from the parser, ladders to the strategy | a registered read; skipping rescans; draining the scan; two references in one slot | shown ladders are the depth of the live orders |
| `multi_symbol_book.sv` | a book per symbol, `active_sym` | route by low locate bits; ready when all books are idle; output mux | one parser, all books | a book sees a held message before the engine accepts it; everyone waits for everyone | a symbol's book depends on its messages only, exact depth, right attribution, no message held for ever |
| `strategy_imbalance.sv` | stage 1 snapshot, decision, cooldown | latch the weighted volumes; fire from the registered snapshot | ladders in, proposal out | two pipeline stages and a cooldown under changing symbols | an order is called for by one tradable snapshot; silence after it |
| `risk_check.sv` | position | combinational guards; position moves with accepted orders | proposal, collar reference, kill switch | position must count exactly what leaves | exposure limit; no refusal without a reason |
| `multi_symbol_top.sv`, `tick_to_trade_top.sv` | collar reference and symbol tag in delay registers, output registers, message-start monitor | one edge | wires all of the above | delays that must match the strategy's | the mid and the symbol belong to the order's snapshot |
| `latency_counter.sv` | free counter, t0, histogram, AXI-Lite read and write channels | stamp, sample, clear, read | first byte, order out, host | one t0 for a pipeline of messages; wrap; clear against sample and read | a sample is the time from the last first byte to its decision; each message answered is counted once |
| `risk_guard.py`, `ibkr_bridge.py` | kill flag, position, times of recent orders | check, record_fill, kill, reset; send_decision, run_from_queue | decisions from the feed or the queue, orders to the broker | tasks that run late; placements that raise | limits hold of the orders really placed |
| `live_feed.py`, `strategy_sw.py` | previous validity, reference price | evaluate a quote, schedule a task | market data in, tasks out | the gap between decision and task | orders under the controls when they are placed |
| `order_book_top.sv`, `golden/order_book.py` | orders by slot or by reference, touch, seen flags | add, reduce, delete | the test bench of milestone 1 | they differ in what holds the orders and in when a side counts as seen | the same touch after the same messages |
| `tb_*.py`, `synth_itch.py`, `golden/itch_parser.py` | the coroutine, the pins it drives, what its monitors kept | drive a message or bytes, wait, read, check | every RTL block and both tops | constants that mirror the RTL, ready outputs not looked at, waits without limit | the tests pass for the reason they give, and end |

`PROJECT.json` has the hazards of each part at their lines.

## Modules

Order book.

- **PriceLevels**: `side_insert`, one insertion into a sorted ladder. A ladder is
  the sequence of its valid lanes; sizes are registers of `SizeMod` values.
- **BookEdges**: each edge of `order_book_m2` as a function from the registers and
  the message on the input to the registers after it. `Latched` is the IDLE edge with
  its block RAM read; `ReduceEdge`, `DeleteEdge`, `ReplaceEdge` and `MissEdge` are LOOKUP;
  `ScanEdge` and `CommitEdge` are RESCAN, with the one-edge delay between issuing an
  address and using its data. `BookInv` is the invariant that the proofs need.
- **BookFeed**: the messages a parser can hold, and `SlotFree`, the assumption that no
  two live references share a slot.
- **OrderBookM2**: one book as a state machine, an action per branch of the code.
  The parser holds a message until it is taken, so an idle book takes the message of
  its edge; edges without a message change nothing and are stutters.
- **BookDepth**, **DepthBook**, **OrderBookDepth**: depth from its definition (best
  prices, sum of the shares at each); what a book promises (orders by reference; adds
  shown at once, edits after a busy time); the mapping that shows `OrderBookM2`
  implements it.
- **MultiSymbolBook**: all books on one clock behind one held message. `Presented` is
  line 80 of the code, which gates a book by the symbol and not by the engine's ready.
  `Crosses` is what follows from it: an idle book takes a message that the engine withholds
  for the rescan of another.
- **MultiSymbolHistory**: the same with the history variable `crossed`, whether that has
  happened since the reset; it is what the exact depth and the attribution depend on.

Order path.

- **OrderPath**: strategy, collar reference, risk check, tags and output registers on
  one clock. At each edge the active book may show any member of `Snapshots`, the
  symbol may change and the kill switch may move. The history variables `seen`,
  `halted`, `quiet` and `sent` are read by no action of the code.
- **SoftwareStrategy**: `strategy_sw.py`, as `live_feed.py` calls it.

The card.

- **TickToTrade**: the whole of `multi_symbol_top` on one clock. It instantiates
  `ItchParser`, `MultiSymbolBook`, `OrderPath` and `LatencyCounter` on shared variables
  and joins their edge operators in `TopEdge`: the parser's held message is the engine's
  `held`, the active ladder (`TopOfBook`) is the path's snapshot, the byte monitor's
  `msg_start` and the order that leaves drive the counter. `tick_to_trade_top` is the
  case of one symbol with the register `m_axis` behind.
- **FeedToOrder**: the card under a DMA that streams a day of messages, with pauses and
  a reset. What the books should hold is computed from the messages alone
  (`OrdersAfter`), with the edits and the depth of `BookDepth`, the ones that `DepthBook` is
  written with.

Tests.

- **SynthItch**: the generator of test messages and what the golden parser makes of them.
- **OrderBookTop**: the book of milestone 1 and its golden model.
- **BenchOps**: what a test does, as operations (edges, a wait for an output, bytes, an
  AXI-Lite access, a check). **Tb...**: the tests of each `tb_*.py`, one definition for
  each coroutine under its own name, as sequences of these operations.
- **Bench**: runs them. A coroutine sees the registers of before the edge it waited for,
  and the pins it writes are those of the next edge, as in cocotb. One device goes
  through all tests of a file, so that state left by a test and not cleared by its reset
  would be seen.

Parser, counter and host.

- **ItchParser**: every edge of the parser. A byte is not a number but where it comes
  from (message, position), so that a field made of the wrong bytes is seen whatever
  their values; lengths and offsets are the real ones.
- **LatencyCounter**: the counter, its histogram and both AXI-Lite channels. Each edge may
  bring a first byte, a decision, both or neither: in the card a message may be answered
  an edge or a whole rescan after its last byte, not at all, or more than once, since the
  strategy fires again from a standing book each time its cooldown is over
  (`strategy_imbalance.sv:147`). The history is the edges of both pulses; a first byte is
  answered by the first decision after it, if no other first byte comes before. A repeated
  decision answers nothing (`measuring` is down, and it is not counted) or, after the next
  first byte, that message; and a first byte on the edge of a decision is never measured.
  `TickToTrade` drives the same edge operators with the card's own pulses.
- **HostBridge**: ticker events, tasks scheduled and run later, queue mode, the guard,
  the kill switch, time, and placements that raise. `send_decision` awaits nothing, so
  it is one step; `placed` and `sent_at` record what the broker took.

The `MC*` modules hold the small sets given to the constants. Modules ending in
`Proofs` hold theorems.

## Runs

All bounds are constants of the `.cfg` files.

| Run | Result | Bounds, and why they are enough |
| --- | --- | --- |
| `book_refines` | pass | Both sides, one lane and two prices (one is always hidden or shown), two slots and three references (a lookup that finds the other reference), two share counts (partial and full reduction), one type for each branch and one that is ignored. |
| `book_rescan` | pass | One side, two lanes, three prices, four slots of which one is shared by two references and the last is used (a scan that ends early loses it). Collisions are allowed; sizes wrap at 2, as the properties are about prices or modulo the register. |
| `ms_rate` | pass | Two books (locates 0 and 3), two slots, two prices, one lane, sizes that wrap at 2, four messages after each reset. Any message may be delivered at any edge at which the parser is empty and no book looks up, so also while either book rescans. Four messages are an order in each book, a delete that makes one rescan and an add or a delete for the other, which is held back and taken again at each edge; or two orders in one book, one of them hidden, and the deletes of both. |
| `ms_held` | violation | The feed of `ms_rate` for locates 0 and 1 and sizes up to 3: the add that crosses is in its level twice or more. |
| `path_orders` | pass | Six snapshots: each lot tier, both directions, an empty side, a locked book, a spread too wide; prices of the two symbols further apart than the collar, so a mid of the wrong snapshot is refused; a position limit that three orders reach; cooldown 2. |
| `parse_feed` | pass | Sequences of three messages of all nine types, each edge stalled or not, reset at any time: a field's bytes survive at most one message that does not shift them, so two messages before the third show any leak. |
| `lat_counter` | pass | Five edges after a reset, each with or without a first byte and a decision: two messages answered and a decision repeated, before, with or after the next first byte. Three buckets (the last is reached as the cap), a counter of 4 values that wraps, one clear at any time, host reads and writes at any time. Five edges are too few for a bucket of 4 values to wrap; that it may is covered by the proof. |
| `lat_stream` | violation | The card of `card_orders` with three messages and no pause between them. |
| `host_orders` | pass | Live or queue mode; two orders a second, a limit of two lots, three waiting tasks, two and a half seconds of time; quotes of both directions, one out of band, one with a side missing; an FPGA lot above the host's size. |
| `host_fail` | violation | Live mode where a placement may raise. |
| `card_orders` | pass | Real message lengths, two symbols, all orders of four out of six messages (adds of both types and sides, a replace in one book, a delete in the other), so that both symbols get a two-sided book that trades, and the second from two stocks (locates 2 and 4); a table of 60 slots, so that a rescan (62 edges) outlasts the next message and the parser has to hold it and stall the bytes, adds and the delete alike, behind a rescan of its own book or of the other, where the idle book looks the held delete up again and again; one pause before a message, or one reset at its byte 20. |
| `benches` | pass | The tests as they are, with the RTL's defaults but for: 64 slots instead of 256 (more than the 36 bytes of a message, so that the backpressure test stalls), words of 30 bits, a cycle counter of 8 bits (no test measures more than 100 edges; it wraps in every bench). The free stream after the milestone 1 tests is three messages of any type, two references in one slot, prices at both ends of the range. |

What they show:

- `ImplementsDepthBook`: with no two live orders in one slot, every edge of the book is
  a step of `DepthBook` or changes nothing it talks of; edits are served, rescans end.
- `LiveShown`, `LevelsSorted`: between rescans no live order is missing from a ladder, so
  that no scan loses its last slot or commits early, and ladders are sorted without a price
  twice. `NoPhantomLevel`: with one order in a slot, no price is shown without an order; it
  is this one, with `ImplementsDepthBook`, that says that LOOKUP skips only rescans that are
  not needed (a book that never rescanned would meet `LiveShown`).
- `RescanRebuilds`, `ReadyAgain`: also after collisions a rescan commits the exact depth
  of the table, and a busy book comes back.
- `BooksSound`, `Isolation`, `ShownUntilCrossed`, `MuxAttributed` (all proved): the engine at
  full rate. The first two hold whatever is held back and taken more than once; the depth
  shown and the attribution of the outputs hold until a message crosses. After that
  neither does: `ms_held` shows it of the depth, and two books may then be rescanning at
  once, so that the mux is not "always correctly attributed" (`multi_symbol_book.sv:14`).
- `BooksFollowFeed` (proved): in the card, every idle book holds the orders that result from its
  symbol's messages since the last reset, each applied once and in order, and shows
  their depth; up to the first message that waits for another symbol's book, where the
  finding of `ms_held` begins. `OrderReflectsFeed` (proved): an order that leaves was called for by
  the depth of its own symbol three edges before, behind by one message at most. This is
  what is true of a strategy that reads the ladder during a rescan.
- `EngineUsedAsSpecified` (proved): the card's parser and engine together implement
  `MultiSymbolBook`, whose `Deliver` is the assumption about the parser; so the theorems
  about it hold of the card. `FeedDrained`: parser, books and DMA never wait for each other
  for ever.
- `ChecksHold`: each assertion of the nine benches, at its edge. It also ties the models to
  the repository's own expectations of the RTL: the latency that `tb_tick_to_trade`
  reads in the model is 41 cycles, the figure of `docs/implementation_results.tex:289`.
  `NothingIgnored`: tests that do not look at a ready output lose nothing. `TestsFinish`:
  no handshake wait hangs. `GoldenAgrees`: the milestone 1 book and its golden model have one
  touch after the tests and any three messages more, with sizes that do not wrap (the
  golden model's are unbounded).
- `OrderFollowsSnapshot`, `RejectsJustified`: the registers of strategy, collar and tag
  are aligned, so that an order, its reference price and its symbol are of one snapshot.
- `ExposureBounded`, `CooldownKept`, `KeepsBuying`: the limit holds of the orders that
  left, decisions are apart, and the path goes on until the limit.
- `PresentsOwed`: the parser loses, repeats, reorders and mixes nothing, and presents
  what `golden/itch_parser.py` makes of each message.
- `LastSample`, `AnswersCounted`, `ReadsAfterClear` (all proved): the counter, whenever its
  pulses come. The histogram is the tally of the latencies of the messages answered since
  the clear, each once in its bucket, the last sample is that of the last of them, and no
  read asked for after a clear shows what was before it. These are latencies since the last
  first byte: whether that is of the message that caused the order is `SampleOfItsMessage`,
  which fails of the card (`lat_stream`).
- `RateKept`, `PlacedWithinLimit`, `PlacedUnderControls`: the host's limits on what is
  placed, however late tasks run.

## Fairness

The only fairness assumed of the RTL is that its clock does not stop. In `OrderBookM2`
it is weak fairness of `Lookup` and `Rescan`, the edges of a busy book; in
`MultiSymbolBook` of `Clock`, the edges that bring no new message. In `OrderPath` it is
weak fairness of `Steady`, an edge at which the book and the switch stay as they are:
fairness of the edge over all snapshots would force the book to move. In `FeedToOrder` it
is weak fairness of `Edge`, an edge of the card with a byte or without: the bounded number of
pauses and resets is all that may come between bytes. In `Bench` it is weak fairness of
`Runs`, the next step of the test: the simulator does not stop. Nothing is assumed of the
feed of the other modules or of the host. `rst_n` may come at any time; a reset book is idle and a reset
engine holds no message, so their liveness properties hold with resets too.

## Proofs

`tlapm` checks these for every value of the constants that meets the named assumptions
(`OrderDepth` positive, register widths positive, the feed well typed, and the relations
between limits in `LimitAssumption` and `PriceAssumption`, which are the defaults'
and those of prices below half of the 32-bit range); a theorem that needs more says so.

- **BookEdgesProofs**: first sums of a function over a finite set (`SumFunctionOnSet`):
  splitting off a term, agreement, changing or renaming terms. The library defines the fold by
  a function that is recursive over subsets; `SetInduction` gets its equation from the
  theorem on well-founded recursion and then argues by the cardinality of a smallest
  counterexample, so that no induction theorem with an operator as parameter is needed.
  Then lemmas about one insertion (it keeps a ladder sorted and within its
  length, shows the new price unless that is worse than all lanes, and loses no price but the
  last); each edge preserves `BookInv` and `PhantomFree`. Then depth: `Exact(lv, O, s)`
  says of a ladder, lane by lane, that it is the depth of orders `O`; `ExactIsDepth` that it
  then equals `DepthOf(O, s)`; `InsertExact` that inserting one order's shares into an exact
  ladder is exact for one order more. Each edge preserves `ScanExact` (what a scan has built
  is the depth of the slots it has passed) and `ShownExact`. Last, that an edit of the table is
  the edit of the orders by reference that `BookDepth` describes.
- **OrderBookProofs**: `BookInvariant` (`IInv`), and from it `TypeCorrect`,
  `SortedLadders`, `NoOrderMissing`, `NoPhantom`. `RescanRepairs`: a rescan commits the exact
  depth of the table, collisions or not. `RefinesDepthBook`: with no two live orders in a slot
  (`CollisionFree`), every step of the book is a step of `DepthBook` or a stutter.
- **MultiSymbolProofs**: `EngineTypeCorrect`, `EveryBookSound`, `SymbolsIsolated`, for any
  number of symbols and at any feed rate; and until a message crosses (`ms_held` shows that
  this is needed) `OutputsAttributed` (`MuxAttributed`) and `EveryBookShowsDepth`
  (`ShownUntilCrossed`).
- **OrderPathProofs**: `PathInvariant` (`IInv`), and from it `PathTypeCorrect`,
  `OrdersFollowSnapshots`, `ExposureWithinLimit`, `OnlyJustifiedRejects`,
  `SilentAfterDecision`.
- **ItchParserProofs**: `ParserTypeCorrect` and `EveryMessagePresented` (`PresentsOwed`),
  for feeds of any length.
- **LatencyCounterProofs**: `CounterTypeCorrect`, `ReadAfterClearIsClean`,
  `LastSampleIsLatency` (`LastSample`) and `EveryAnswerCounted` (`AnswersCounted`), for first
  bytes, decisions and clears at any edges; latencies are modulo the counter and counts
  modulo a bucket's word.
- **CardProofs**: the card of any number of symbols, for any feed, any day and any stalls,
  pauses and resets. `CardUsesEngine`: it uses its books as `MultiSymbolBook` assumes
  (`EngineUsedAsSpecified`); `CardBooksFollow` (`BooksFollowFeed`); `CardOrdersReflect`
  (`OrderReflectsFeed`); `OneSymbolFollows`: with one symbol, `BooksAlwaysFollow`, which is false
  with two (`ms_held` has the reason). All four under `SlotPerOrder`: the orders that a feed
  creates have each a slot of their own. It is what the table of the books needs, without it
  an add may overwrite a live order, and TLC evaluates it for the feed of `card_orders`.
  An instance's operators are not those of the module that the other proofs are about,
  so the module begins with lemmas that carry them over: the edges of a book are equal, and
  the alignment of the parser is proved again of its instance.
- **HostBridgeProofs**: `HostTypeCorrect`, `RateIsKept`, `OrdersUnderControls`, and
  `PlacedWithin` under the assumption that no live placement raises (`host_fail` shows that
  it needs it). Assumed of the market data: a valid quote has positive prices.

The inductive invariants, and why they are needed:

- `LiveShown` is not inductive. LOOKUP decides on read data, so `BookInv` adds that the
  data is that of the looked-up slot (`LookupFresh`); a commit shows what the scan built, so
  it adds that the scan is aligned with its address (`ScanAligned`) and that every slot it has
  passed is in the ladders being built (`ScanCovers`). `NoPhantomLevel` needs further that the
  ladders being built are backed by orders (`PhantomFree`).
- Depth (`DInv`) adds to it `ScanExact`, which collisions do not disturb, since a scan starts
  from nothing and reads the table as it is, and `ShownExact`, which they do.
- The refinement (`RInv`) adds that each live order is in the slot of its reference and that
  the slot of a message being looked up is still free for the order it brings (`Kept`). From
  it the table by slot and the orders by reference are the same orders under other names
  (`LiveAt`), so that their depths agree (`LiveDepth`), and an edit of a slot is the edit of
  the reference that `DepthBook` describes (`EditLive`).
- The engine's `DInv`, which holds until a message crosses, adds `HeldFits`: while a message
  is held its slot stays free and no book is looking one up; the rescans that may go on
  meanwhile change no table. A message that is held and does not cross waits for its own book
  (`OwnBookWaits`), so no book takes it before the engine does. `MuxAttributed` needs the same.
- In the order path `OrderFollowsSnapshot` is about the last of four stages; `Aligned` says
  of each stage which snapshot it is about, that the cooldown is the complement of
  the quiet edges, and that the collar reference is the mid of the decision's snapshot.
  `OnlyJustifiedRejects` then follows by arithmetic: the touch is at most half a spread from
  its mid, and half of the widest spread is within the collar.
- In the parser the byte counter is the DMA's position (`InStep`) and each shift register ends
  with those bytes of its field that have gone in (`Ends`); what is before them is of earlier
  messages and has been shifted out when the last byte comes.
- In the counter `ReadsAfterClear` needs that the registers are as the clear left them until the
  next sample (`SinceClear`). `LastSample` and `AnswersCounted` need that the counter is the edge
  number modulo its word, and that while `measuring` is up `t0` is of the last first byte and
  no decision has come since, and while it is down there is no such byte (`Measured`); and,
  for the edge's own pulses to be new, that the history is of earlier edges (`PulsesOK`).
- In the card `EInv` adds to the parser's alignment that the held message is as the golden
  parser decodes it (`Holding`), that each book is sound (`BooksOK`), and that a book that looks
  up, and every order in a table, is about messages of the day which have been accepted
  (`Looking`, `Filled`): so with `SlotPerOrder` the slot of the next order is free.
  `FInv` adds `Follow`: the orders in each table are those after the messages accepted, all but
  the last while it looks up, and its ladder is the depth of these or of those before the last.
  `OrdersAfter` is recursive over the day; `HistoryExists` gets its equation by induction over
  the set of positions, from which what one more message does (`AfterOne`, `AfterSame`), and that
  a reset leaves nothing (`AfterLost`). `OInv` adds `Piped`: each register of the path is about
  the edition of its age.
- On the host a queued decision of the strategy came after two valid quotes, the first of which
  seeded the reference (`ReferenceInv`); what was placed is the position until the queue's
  loop ends (`ExposureInv`); for every order placed less than a second ago the guard keeps a time that is as late
  and as far from the end (`Tracks` in `WindowInv`), so counting those counts them all.

Model-checked only:

- Liveness (`ReadyAgain`, `FeedDrained`, `TestsFinish`, `KeepsBuying` and the fairness in
  `ImplementsDepthBook`): ENABLED is out of reach of the prover.
- The properties of `Bench` (`ChecksHold`, `NothingIgnored`, `GoldenAgrees`): the tests are
  fixed programs with fixed parameters, so a run decides them.

## Where code and documents differ

Three runs find the code doing otherwise than a document, comment or test says:

- `ms_held`: `multi_symbol_book.sv` says a message is accepted when every book is idle. An
  idle book takes it before, at every edge that another book's rescan holds it back:
  an add is inserted again at each. It also starts rescans during another book's, which
  lines 13 and 14 exclude, and the outputs are then of one of two books that move.
- `lat_stream`: the documents say every message's latency is measured. The first byte of
  the next message overwrites `t0`, so on a continuous stream the sample of an order is
  counted from a later message than the one whose ladder called for it, and is too short.
- `host_fail`: `record_fill` is documented as for confirmed fills and called before
  `placeOrder`; after a placement that raises, the position is wrong by its shares.

Seen while modelling, and allowed for in the models:

- `strategy_sw.py:4` says "bit-for-bit faithful to the RTL": it has no cooldown, no spread
  guard, no scaled lots and no level below the touch.
- `README.md:24` and `:98` give a tick-to-trade latency of 39 cycles; the RTL as it is now
  takes 41 (two registers were added, `docs/implementation_results.tex:182` and `:289`).
- `tb_order_book_m2.py:9` says that a rescan takes `ORDER_DEPTH + 1` cycles; it takes two
  more, and the tests rightly use a larger constant. With the figure of the text
  they fail: it is the mutant of `ChecksHold`.
- `docs/part1_foundation_and_architecture.tex:246` says that `carve_itch_slice.py` strips the
  length prefix of a message; it writes the prefix with the message.
- `order_book_m2.sv:237`: an add to the slot of a live order overwrites it, and its price
  stays on the ladder until a rescan. `NoPhantomLevel` and the proof of it assume
  `CollisionFree`; `book_rescan` does not.
- `strategy_imbalance.sv:137`: behind the multi-symbol books `prev_valid` may be of the
  symbol that was active before, so the "two consecutive evaluations" of
  `strategy_sw.py:34` may be of two symbols.
- `itch_parser.sv:203`: the shares presented with a Delete are those of an earlier
  message, where the golden parser has 0. The book does not read them.

## Not modelled

- `src/data/carve_itch_slice.py`: an offline filter of a file; it keeps A, D, E and X, so the
  book of a slice is that of the symbol only if the day has no F, C or U.
- `pipeline_sva.sv` and `sv_tb`: some of the assertions are properties here; the SystemVerilog
  benches repeat the cocotb ones.
- `src/build`, `src/results`, `src/notebooks`, `src/docs`: scripts, measurements and prose.
- `live_feed.py`'s demo, statistics, report and command line, the framing of byte streams
  in `parse_stream`, `SynthITCH`'s clock and symbol names.
- Logging, the AXI strobes and response codes, and the packing of the 72-bit decision word:
  data that no property tells apart.
- `benches` leaves the X values of a simulator out: every register is read after a reset.

## Plan

Built in this order: book (the part everything rests on), engine, order path, parser,
counter, host, the card that composes them, the test benches. What is left:

- **Card and host** on one clock, when the repository has the DMA and the queue between.
- A card whose feed puts two live orders in a slot: what its books hold then, in terms of the
  messages (`RescanRebuilds` says it in terms of the table).
