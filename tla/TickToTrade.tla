----------------------------- MODULE TickToTrade -----------------------------
(***************************************************************************)
(* The whole card, as multi_symbol_top wires it: bytes go into itch_parser, *)
(* the message it holds to the book of its symbol, the ladder of the active *)
(* symbol to the order path, and the order that leaves to latency_counter.  *)
(* tick_to_trade_top is the case of one symbol.  Each block is the module   *)
(* that specifies it alone, here on one clock: one TopEdge moves them all,  *)
(* and each reads what the others held before the edge.                     *)
(*                                                                         *)
(* The parser's bytes name their place in a message; stream gives every     *)
(* message its content, so that a register is read back as a number.        *)
(***************************************************************************)
EXTENDS BookFeed, BookDepth, SynthItch

CONSTANTS
    NSymbols, Locates, PRICE_WORD,
    BID_THRESH, ASK_THRESH, MAX_SPREAD_TICKS, COOLDOWN_CYCLES, BASE_LOT, MAX_LOT,
    MAX_ORDER_SIZE, MAX_POSITION, MAX_PRICE_BAND,
    HIST_BUCKETS, CNT_WORD

VARIABLES
    byte_cnt, msg_type_r, sr, side_r, m_valid, out, msg_unsupported,   \* itch_parser
    books, active_sym,                                          \* multi_symbol_book
    stage1, decision, cooldown_cnt,                            \* strategy_imbalance
    mid_r1, mid_r2, position, risk, tag,             \* risk_check and the registers
    free_cnt, t0, measuring, hist, last_latency_cycles, wr, rd,   \* latency_counter
    byte_cnt_mon,       \* the byte counter that makes msg_start
    m_axis,             \* tick_to_trade_top's output register, one edge after risk
    stream,             \* the messages of the feed, by number
    cur, at             \* the byte on the bus: position at of message cur

parser  == <<byte_cnt, msg_type_r, sr, side_r, m_valid, out, msg_unsupported>>
engine  == <<books, active_sym>>
strategy == <<stage1, decision, cooldown_cnt>>
gate    == <<mid_r1, mid_r2, position, risk, tag, m_axis>>
counter == <<free_cnt, t0, measuring, hist, last_latency_cycles, wr, rd, byte_cnt_mon>>
bus     == <<stream, cur, at>>

(* The history variables of the four blocks are not of the card. *)
Parser == INSTANCE ItchParser WITH Types <- {}, MAX_MESSAGES <- 0, owed <- << >>

Path == INSTANCE OrderPath WITH
    NSYMBOLS <- NSymbols, NLEVELS <- NLevels, Snapshots <- {},
    seen <- << >>, halted <- FALSE, quiet <- 0, sent <- 0

Counter == INSTANCE LatencyCounter WITH
    Offers <- {}, MAX_EDGES <- 0, MAX_CLEARS <- 0,
    now <- 0, starts <- {}, decisions <- {}, epoch <- 0,
    clears <- 0, since <- 0, asked <- 0, clean <- FALSE

-----------------------------------------------------------------------------
(* From the parser to the books *)

(* What the parser tells apart of a message of the feed. *)
Numbered(id, c) ==
    [id |-> id, type |-> c.type, sell |-> c.type \in Parser!AddFields /\ c.side = "ask"]

(* The number in register f of the parser: its bytes are field f of one     *)
(* message (ItchParser shows that they are), or zeros.                      *)
Number(f) ==
    LET m == out[f][1].msg
    IN  IF m = Parser!NoMessage \/ out[f] # Parser!parse_message(m)[f] THEN 0
        ELSE stream[m.id][f]

(* What the book is given; the fields it does not read of a type are left   *)
(* at one value, as in BookFeed.                                            *)
BookMessage ==
    LET shares == IF out.type \in {"D", "P"} THEN 0 ELSE Number("sh")
        price  == IF out.type \in {"A", "F", "U"} THEN Number("pr") ELSE 0
        side   == IF out.side /\ out.type # "P" THEN "ask" ELSE "bid"
    IN  Msg(out.type, Number("ref"), Number("new_ref"), side, shares, price)

HeldMessage ==
    IF m_valid THEN {[locate |-> Number("loc"), msg |-> BookMessage]} ELSE {}

Engine == INSTANCE MultiSymbolBook WITH
    held <- HeldMessage

\* Mutant: the symbol of a message that the books do not take yet.
EngineEdgeEager ==
    /\ books' = Engine!EveryBookEdge
    /\ active_sym' = IF m_valid THEN Engine!SymOf(Number("loc")) ELSE active_sym

EngineEdge ==
    /\ books' = Engine!EveryBookEdge
    /\ active_sym' = IF m_valid /\ Engine!engine_ready
                       THEN Engine!SymOf(Number("loc")) ELSE active_sym

-----------------------------------------------------------------------------
(* From the books to the order path *)
AskEmpty == PRICE_WORD - 1      \* all ones

BestPrice(lv, s) == IF lv[s] # << >> THEN lv[s][1].price
                      ELSE IF s = "bid" THEN 0 ELSE AskEmpty
LevelSize(lv, s, i) == IF i <= Len(lv[s]) THEN lv[s][i].size ELSE 0

(* The outputs of a book with ladders lv, as the path reads them. *)
SnapshotOf(sym, lv) ==
    [sym |-> sym, book_valid |-> \A s \in Side : lv[s] # << >>,
     bid |-> BestPrice(lv, "bid"), ask |-> BestPrice(lv, "ask"),
     bid_sizes |-> [i \in 1..NLevels |-> LevelSize(lv, "bid", i)],
     ask_sizes |-> [i \in 1..NLevels |-> LevelSize(lv, "ask", i)]]

TopOfBook == SnapshotOf(active_sym, books[active_sym].lv)

PathEdge(halt) ==
    /\ Path!StrategyEdge(TopOfBook)
    /\ Path!MidEdge(TopOfBook)
    /\ Path!PositionEdge(halt)
    /\ Path!OutputEdge(halt)
    /\ Path!TagEdge(TopOfBook)
    /\ m_axis' = [valid |-> risk.valid, action |-> risk.action,
                  price |-> risk.price, size |-> risk.size]

-----------------------------------------------------------------------------
(* The first byte of a message starts the latency counter. *)
rx(tvalid) == tvalid /\ Parser!tready(Engine!engine_ready)
msg_start(tvalid) == rx(tvalid) /\ byte_cnt_mon = 0

MonitorEdge(tvalid) ==
    byte_cnt_mon' = IF ~rx(tvalid) THEN byte_cnt_mon
                      ELSE IF Parser!tlast THEN 0 ELSE (byte_cnt_mon + 1) % 64

(* One rising edge of the card, with a byte on the bus if tvalid and the    *)
(* host's side of the AXI-Lite bus in axil.                                 *)
TopEdge(tvalid, halt, axil) ==
    /\ Parser!ParserEdge(tvalid, Engine!engine_ready)
    /\ EngineEdge
    /\ PathEdge(halt)
    /\ MonitorEdge(tvalid)
    /\ Counter!CounterEdge(msg_start(tvalid), risk.valid, axil.aw, axil.w, axil.bready,
                           axil.ar, axil.rready)

QuietHost == [aw |-> {}, w |-> {}, bready |-> FALSE, ar |-> {}, rready |-> FALSE]

InitTop ==
    /\ Parser!InitRegisters
    /\ books = [s \in Engine!Sym |-> InitBook] /\ active_sym = 0
    /\ stage1 = Path!Stage1Reset /\ decision = Path!NoOrder /\ cooldown_cnt = 0
    /\ mid_r1 = 0 /\ mid_r2 = 0 /\ position = 0 /\ risk = Path!NoRisk /\ tag = Path!NoTag
    /\ Counter!InitCounter /\ byte_cnt_mon = 0
    /\ m_axis = Path!NoOrder

(* rst_n, of every block. *)
TopReset ==
    /\ Parser!ResetEdge
    /\ books' = [s \in Engine!Sym |-> ResetEdge(books[s])] /\ active_sym' = 0
    /\ stage1' = Path!Stage1Reset /\ decision' = Path!NoOrder /\ cooldown_cnt' = 0
    /\ mid_r1' = 0 /\ mid_r2' = 0 /\ position' = 0
    /\ risk' = Path!NoRisk /\ tag' = Path!NoTag
    /\ Counter!ResetEdge /\ byte_cnt_mon' = 0
    /\ m_axis' = Path!NoOrder
=============================================================================
