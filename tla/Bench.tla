------------------------------- MODULE Bench --------------------------------
(***************************************************************************)
(* The blocks and the two cards under the repository's own cocotb tests.   *)
(* bench names the test bench and with it the device; its tests run in the *)
(* order of the file, on one device that only its reset clears, and each   *)
(* is a sequence of BenchOps.  After its own tests and one more reset, the *)
(* bench of the milestone 1 book goes on with any MAX_STREAM messages.     *)
(*                                                                         *)
(* The device is on the edge before the test: what a test sees after an    *)
(* await is the state before that edge (registers change after the test    *)
(* has looked), and the pins that it writes are those of the next.  pins   *)
(* are those of the edge that is due.                                      *)
(***************************************************************************)
EXTENDS TickToTrade, OrderBookTop, BenchOps

CONSTANT MAX_STREAM     \* bound

VARIABLES
    bench,
    pc, timer,      \* the operation of the test that runs, and its edges so far
    pins,
    m1, golden,     \* the milestone 1 book and the golden book
    captured, stalled,  \* what the background monitors of two tests keep
    fed             \* messages of the free stream

devices == <<parser, engine, strategy, gate, counter, m1>>
vars == <<devices, bus, bench, pc, timer, pins, golden, captured, stalled, fed>>

TestM2       == INSTANCE TbOrderBookM2
TestM1       == INSTANCE TbOrderBook
TestEngine   == INSTANCE TbMultiSymbolBook
TestParser   == INSTANCE TbItchParser
TestStrategy == INSTANCE TbStrategyImbalance
TestRisk     == INSTANCE TbRiskCheck
TestCounter  == INSTANCE TbLatencyCounter
TestTop      == INSTANCE TbTickToTrade
TestMulti    == INSTANCE TbMultiSymbolTop

Programs ==
    [order_book_m2      |-> TestM2!Tests,
     order_book_top     |-> TestM1!Tests \o TestM1!reset,
     multi_symbol_book  |-> TestEngine!Tests,
     itch_parser        |-> TestParser!Tests,
     strategy_imbalance |-> TestStrategy!Tests,
     risk_check         |-> TestRisk!Tests,
     latency_counter    |-> TestCounter!Tests,
     tick_to_trade_top  |-> TestTop!Tests,
     multi_symbol_top   |-> TestMulti!Tests]

Over == pc > Len(Programs[bench])
Op == Programs[bench][pc]

-----------------------------------------------------------------------------
(* One edge of each device, alone on the pins or as the card wires it. *)
Unit == INSTANCE MultiSymbolBook WITH held <- pins.msg

Gate == INSTANCE OrderPath WITH
    decision <- pins.order, mid_r2 <- TestRisk!REF,
    NSYMBOLS <- NSymbols, NLEVELS <- NLevels, Snapshots <- {},
    seen <- << >>, halted <- FALSE, quiet <- 0, sent <- 0

Bare == INSTANCE LatencyCounter WITH
    Offers <- {}, MAX_EDGES <- 0, MAX_CLEARS <- 0,
    now <- 0, starts <- {}, decisions <- {}, epoch <- 0,
    clears <- 0, since <- 0, asked <- 0, clean <- FALSE

Accepted == pins.msg # {} /\ Engine!engine_ready

UnitEdge ==
    /\ books' = Unit!EveryBookEdge
    /\ active_sym' = IF Accepted THEN Unit!SymOf((CHOOSE h \in pins.msg : TRUE).locate)
                       ELSE active_sym

M1Device ==
    /\ m1' = IF pins.rst THEN Empty
               ELSE IF pins.msg = {} THEN m1
               ELSE M1Edge(m1, (CHOOSE h \in pins.msg : TRUE).msg)
    /\ UNCHANGED <<parser, engine, strategy, gate, counter>>

BookDevice ==
    /\ UnitEdge
    /\ UNCHANGED <<parser, strategy, gate, counter, m1>>

ParserDevice ==
    /\ Parser!ParserEdge(pins.tvalid, pins.m_ready)
    /\ UNCHANGED <<engine, strategy, gate, counter, m1>>

StrategyDevice ==
    /\ Path!StrategyEdge(pins.book)
    /\ UNCHANGED <<parser, engine, gate, counter, m1>>

RiskDevice ==
    /\ Gate!PositionEdge(pins.halt)
    /\ UNCHANGED <<parser, engine, strategy, mid_r1, mid_r2, risk, tag, m_axis, counter, m1>>

CounterDevice ==
    /\ Bare!CounterEdge(pins.start, pins.done, pins.aw, pins.w, pins.bready, pins.ar, pins.rready)
    /\ UNCHANGED <<parser, engine, strategy, gate, byte_cnt_mon, m1>>

Card == TopEdge(pins.tvalid, pins.halt, pins) /\ UNCHANGED m1

Device ==
    \/ bench = "order_book_top" /\ M1Device
    \/ bench # "order_book_top" /\ pins.rst /\ TopReset /\ UNCHANGED m1
    \/ /\ ~pins.rst
       /\ \/ bench \in {"order_book_m2", "multi_symbol_book"} /\ BookDevice
          \/ bench = "itch_parser" /\ ParserDevice
          \/ bench = "strategy_imbalance" /\ StrategyDevice
          \/ bench = "risk_check" /\ RiskDevice
          \/ bench = "latency_counter" /\ CounterDevice
          \/ bench \in {"tick_to_trade_top", "multi_symbol_top"} /\ Card

-----------------------------------------------------------------------------
(* What a test can see *)

Decoded ==
    [type |-> out.type, ts |-> out.ts, ref |-> Number("ref"), nref |-> Number("new_ref"),
     side |-> IF out.side THEN "ask" ELSE "bid", shares |-> Number("sh"), price |-> Number("pr")]

(* What the golden parser makes of message i. *)
Golden(i) ==
    ParsedMsg(stream[i]) @@ [ts |-> Parser!parse_message(Numbered(i, stream[i])).ts]

ready == IF bench = "itch_parser" THEN Parser!tready(pins.m_ready)
                                  ELSE Parser!tready(Engine!engine_ready)

PricesOf(b, s) == [i \in 1 .. NLevels |->
    IF i <= Len(b.lv[s]) THEN b.lv[s][i].price ELSE IF s = "bid" THEN 0 ELSE AskEmpty]

BookOutputs ==
    LET b == books[active_sym]
    IN  [valid |-> TopOfBook.book_valid, msg_ready |-> Engine!engine_ready,
         active_sym |-> active_sym,
         bid_p |-> TopOfBook.bid, bid_s |-> TopOfBook.bid_sizes[1],
         ask_p |-> TopOfBook.ask, ask_s |-> TopOfBook.ask_sizes[1],
         bid_prices |-> PricesOf(b, "bid"), bid_sizes |-> TopOfBook.bid_sizes,
         ask_prices |-> PricesOf(b, "ask"),
         bid0 |-> BestPrice(books[0].lv, "bid"), ask0 |-> BestPrice(books[0].lv, "ask"),
         bid1 |-> BestPrice(books[1].lv, "bid"), ask1 |-> BestPrice(books[1].lv, "ask")]

M1Outputs ==
    [valid |-> valid(m1), golden |-> m1.touch = golden.touch,
     bid_p |-> m1.touch.bid.price, bid_s |-> m1.touch.bid.size,
     ask_p |-> m1.touch.ask.price, ask_s |-> m1.touch.ask.size]

ParserOutputs ==
    [m_valid |-> m_valid, tready |-> ready, captured |-> Len(captured)]
      @@ IF m_valid THEN Decoded ELSE Unwritten

Outputs ==
    CASE bench \in {"order_book_m2", "multi_symbol_book"} -> BookOutputs
      [] bench = "order_book_top" -> M1Outputs
      [] bench = "itch_parser" -> ParserOutputs
      [] bench = "strategy_imbalance" -> decision
      [] bench = "risk_check" -> [out_valid |-> Gate!out_valid(pins.halt),
                                  reject_reason |-> Gate!reject_reason(pins.halt)]
      [] bench = "tick_to_trade_top" ->
           m_axis @@ [stalled |-> stalled, only_halt |-> risk.reject => risk.reason = "HALT"]
      [] bench = "multi_symbol_top" -> risk @@ [sym |-> tag.out]

(* Of a ladder, the test gives the levels from the touch down. *)
Shown(f, v) == IF f \in {"bid_prices", "bid_sizes", "ask_prices"} THEN IsPrefix(v, Outputs[f])
                                                                  ELSE Outputs[f] = v
Holds(e) == \A f \in DOMAIN e : Shown(f, e[f])

-----------------------------------------------------------------------------
(* The operations *)

Quiet == [rst |-> FALSE, msg |-> {}, order |-> Path!NoOrder, start |-> FALSE, done |-> FALSE,
          tvalid |-> FALSE] @@ QuietHost

(* The last byte is through, or leaves with this edge. *)
Sent == timer = Parser!Length[Op.c.type] /\ (Op.heed => ready)

(* The test goes on without another edge. *)
Done ==
    CASE Op.op \in {"clocks", "each"} -> timer = Op.n
      [] Op.op = "until" -> \/ timer = Op.n
                            \/ (timer > 0 \/ Op.least = 0) /\ Outputs[Op.f]
      [] Op.op = "send"  -> Sent
      [] Op.op = "read"  -> timer = 2
      [] Op.op = "write" -> timer = 3
      [] OTHER -> TRUE

(* The edge that is due, and the pins of the next. *)
Await(w) ==
    /\ UNCHANGED <<bench, pc, fed>>
    /\ Device
    /\ pins' = w @@ Quiet @@ pins
    /\ captured' = IF pins.rst THEN << >>
                     ELSE IF bench = "itch_parser" /\ m_valid' /\ Len(captured) < 3
                       THEN Append(captured, Decoded') ELSE captured
    /\ stalled' = (~pins.rst /\ (stalled \/ ~ready'))

(* A reset is a new test, with a golden book and messages of its own. *)
Waits ==
    /\ Op.op \in {"clocks", "until", "each"} /\ ~Done
    /\ stream' = (IF pins.rst THEN << >> ELSE stream) /\ UNCHANGED <<cur, at>>
    /\ Await(Op.w)
    /\ timer' = timer + 1
    /\ golden' = IF pins.rst THEN Empty ELSE golden

(* The single-symbol card has no use for the locate. *)
Sends ==
    /\ Op.op = "send" /\ ~Done
    /\ LET c == IF bench = "tick_to_trade_top" THEN [Op.c EXCEPT !.loc = 0] ELSE Op.c
           next == IF timer > 0 /\ Op.heed /\ ~ready THEN timer - 1 ELSE timer
       IN  /\ stream' = IF timer = 0 THEN Append(stream, c) ELSE stream
           /\ cur' = IF timer = 0 THEN Numbered(Len(stream) + 1, c) ELSE cur
           /\ at' = next
           /\ timer' = next + 1
    /\ Await([tvalid |-> TRUE] @@ Op.w)
    /\ UNCHANGED golden

(* Address until it is taken, then data until it is valid. *)
Reads ==
    /\ Op.op = "read" /\ ~Done
    /\ UNCHANGED bus
    /\ \/ /\ timer = 0
          /\ Await([ar |-> {Op.addr}, rready |-> TRUE])
          /\ timer' = IF Counter!arready THEN 1 ELSE 0
       \/ /\ timer = 1
          /\ Await([rready |-> TRUE])
          /\ timer' = IF rd.rvalid THEN 2 ELSE 1
    /\ UNCHANGED golden

(* Address and data together; each is withdrawn when it is taken. *)
Writes ==
    /\ Op.op = "write" /\ ~Done
    /\ UNCHANGED bus
    /\ \/ /\ timer = 0
          /\ Await([aw |-> {Op.addr}, w |-> {1}, bready |-> TRUE])
          /\ timer' = IF Counter!awready THEN 1 ELSE 0
       \/ /\ timer = 1
          /\ Await([w |-> {1}, bready |-> TRUE])
          /\ timer' = IF Counter!wready THEN 2 ELSE 1
       \/ /\ timer = 2
          /\ Await([bready |-> TRUE])
          /\ timer' = IF wr.bvalid THEN 3 ELSE 2
    /\ UNCHANGED golden

Proceeds ==
    /\ Done
    /\ pc' = pc + 1 /\ timer' = 0
    /\ golden' = IF Op.op = "apply" THEN apply(golden, Op.msg) ELSE golden
    /\ UNCHANGED <<devices, bus, bench, pins, captured, stalled, fed>>

Runs == ~Over /\ (Waits \/ Sends \/ Reads \/ Writes \/ Proceeds)

(* The loop of test_golden_stream, with any message. *)
GoldenStep(msg) ==
    /\ Over /\ bench = "order_book_top" /\ fed < MAX_STREAM
    /\ fed' = fed + 1
    /\ m1' = M1Edge(m1, msg) /\ golden' = apply(golden, msg)
    /\ UNCHANGED <<parser, engine, strategy, gate, counter, bus, bench, pc, timer, pins,
                   captured, stalled>>

NoBook == [sym |-> 0, book_valid |-> FALSE, bid |-> 0, ask |-> 0,
           bid_sizes |-> Path!NoSizes, ask_sizes |-> Path!NoSizes]

Init ==
    /\ InitTop
    /\ stream = << >> /\ cur = Parser!NoMessage /\ at = 0
    /\ bench \in DOMAIN Programs /\ pc = 1 /\ timer = 0
    /\ pins = [rst |-> TRUE, halt |-> FALSE, m_ready |-> TRUE, book |-> NoBook] @@ Quiet
    /\ m1 = Empty /\ golden = Empty
    /\ captured = << >> /\ stalled = FALSE /\ fed = 0

Next == Runs \/ \E msg \in Messages : GoldenStep(msg)

(* The simulator does not stop in the middle of a test. *)
Spec == Init /\ [][Next]_vars /\ WF_vars(Runs)

-----------------------------------------------------------------------------
(* What the tests assert *)

Agrees(d, i, fields) == \A f \in fields : d[f] = Golden(i)[f]

(* Every assertion of the nine test benches holds of the modelled blocks,  *)
(* at the edge where the bench makes it, on a device that has been through *)
(* the tests before: also the waits that must end in time and those that   *)
(* must not end too early.                                                 *)
ChecksHold ==
    ~Over =>
      CASE Op.op = "check" -> Holds(Op.e)
        [] Op.op = "each" -> (timer > 0 => Holds(Op.e))
        [] Op.op = "until" -> (Done => timer >= Op.least /\ Outputs[Op.f])
        [] Op.op = "decodes" -> m_valid /\ Agrees(Decoded, Op.i, Op.fields)
        [] Op.op = "captures" -> Agrees(captured[Op.i], Op.i, Op.fields)
        [] Op.op = "read" -> (timer = 1 /\ rd.rvalid /\ Op.values # {} => rd.rdata \in Op.values)
        [] OTHER -> TRUE

(* The benches of the books and of the parser do not look at the ready     *)
(* output when they drive a message or a byte, and lose none by it: each   *)
(* is driven when the device takes it.  Otherwise a test would pass or     *)
(* fail on a stimulus that the device never saw.                           *)
NothingIgnored ==
    /\ (bench \in {"order_book_m2", "multi_symbol_book"} /\ pins.msg # {}
          => Engine!engine_ready)
    /\ (bench = "itch_parser" /\ pins.tvalid => ready)

(* Every test comes to its end: no wait for a handshake, of AXI-Lite or of *)
(* the byte stream, is for an answer that the device has given already or  *)
(* never gives.                                                            *)
TestsFinish == <>Over

(* After its tests and any three more messages, of any type and with prices *)
(* at either end included, the milestone 1 book shows the touch of its      *)
(* golden model, although one reads its seen flag before setting it and     *)
(* the other after.  Sizes stay below 2^32, where the two would part.       *)
GoldenAgrees == Over => m1.touch = golden.touch
=============================================================================
