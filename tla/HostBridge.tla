----------------------------- MODULE HostBridge -----------------------------
(***************************************************************************)
(* The host: live_feed.LiveFeed turns quotes into decisions and schedules  *)
(* a task for each; ibkr_bridge.IBKRBridge.send_decision, run by the task, *)
(* asks risk_guard.RiskGuard and places the order.  In queue mode the      *)
(* decisions come from the FPGA through run_from_queue instead.            *)
(*                                                                         *)
(* asyncio runs one callback or task at a time, and send_decision awaits   *)
(* nothing: it is one step.  Between the tick that made a decision and the *)
(* task that sends it, ticks, kills and the clock may come.  placed and    *)
(* sent_at are history: the net shares of the orders that IB Gateway took, *)
(* and when it took the last of them.                                      *)
(***************************************************************************)
EXTENDS SoftwareStrategy, Sequences, FiniteSets

CONSTANTS
    MODES,              \* how the host may be started: "live", "queue"
    Quotes,             \* what the market data can say
    FpgaDecisions,      \* what the queue can bring
    FAILING,            \* the modes in which placeOrder may raise
    max_order_shares, max_position_shares, max_orders_per_sec,
    fat_finger_pct,
    SECOND,             \* one second, in steps of the clock
    MAX_TASKS, MAX_TIME \* bounds of the runs

(* What a decision, of either strategy, and a quote may be. *)
Decisions == [some : {TRUE}, action : {"BUY", "SELL"}, price : Nat, size : Nat]

QuoteOK(q) == /\ q.book_valid \in BOOLEAN
              /\ q.bid \in Nat /\ q.bid_size \in Nat /\ q.ask \in Nat /\ q.ask_size \in Nat
              /\ (q.book_valid => q.bid > 0 /\ q.ask > 0)

ASSUME HostAssumption ==
    /\ MODES \subseteq {"live", "queue"} /\ FAILING \subseteq MODES
    /\ max_orders_per_sec \in Nat \ {0} /\ SECOND \in Nat \ {0}
    /\ max_position_shares \in Nat /\ LOT_SIZE \in Nat
    /\ MAX_TASKS \in Nat /\ MAX_TIME \in Nat
    /\ \A q \in Quotes : QuoteOK(q)
    /\ FpgaDecisions \subseteq Decisions

VARIABLES
    mode,               \* how it was started
    prev_valid,         \* SoftwareStrategy._prev_valid
    reference_price,    \* RiskConfig.reference_price; 0 until the first valid quote
    killed, position, order_ts,     \* RiskGuard
    tasks,              \* decisions scheduled or queued, oldest first
    running, now,
    placed, sent_at

guard == <<killed, position, order_ts>>
vars == <<mode, prev_valid, reference_price, guard, tasks, running, now, placed, sent_at>>

absolute(n) == IF n < 0 THEN -n ELSE n
signed(dec) == IF dec.action = "BUY" THEN dec.size ELSE -dec.size

-----------------------------------------------------------------------------
(* RiskGuard.check: the first of the checks that fails *)
(* time.monotonic never goes back, so those forgotten are the oldest.      *)
Old    == {i \in DOMAIN order_ts : now - order_ts[i] >= SECOND}
Recent == SubSeq(order_ts, Cardinality(Old) + 1, Len(order_ts))

InBand(price) ==
    absolute(price - reference_price) <= (reference_price * fat_finger_pct) \div 100

OutOfBand(dec) == reference_price > 0 /\ ~InBand(dec.price)

(* The checks before the rate check; only past them are old orders forgotten. *)
Early(dec) == killed \/ dec.size > max_order_shares \/ OutOfBand(dec)

RateLimitedLoose == Len(Recent) > max_orders_per_sec

RateLimited == Len(Recent) >= max_orders_per_sec

OverPosition(dec) == absolute(position + signed(dec)) > max_position_shares

allowedWhenKilled(dec) ==
    /\ ~(dec.size > max_order_shares \/ OutOfBand(dec))
    /\ ~RateLimited /\ ~OverPosition(dec)

allowed(dec) == ~Early(dec) /\ ~RateLimited /\ ~OverPosition(dec)

-----------------------------------------------------------------------------
Init ==
    /\ mode \in MODES
    /\ prev_valid = FALSE /\ reference_price = 0
    /\ killed = FALSE /\ position = 0 /\ order_ts = <<>>
    /\ tasks = <<>> /\ running = TRUE /\ now = 0
    /\ placed = 0 /\ sent_at = <<>>

(* LiveFeed._on_tickers and _process: the reference is the first valid mid *)
Tick(q) ==
    /\ mode = "live" /\ running /\ Len(tasks) < MAX_TASKS
    /\ reference_price' = IF q.book_valid /\ reference_price = 0
                            THEN (q.bid + q.ask) \div 2 ELSE reference_price
    /\ prev_valid' = q.book_valid
    /\ LET dec == evaluate(q, prev_valid)
       IN  tasks' = IF dec.some THEN Append(tasks, dec) ELSE tasks
    /\ UNCHANGED <<mode, guard, running, now, placed, sent_at>>

(* The producer's side of run_from_queue. *)
Put(dec) ==
    /\ mode = "queue" /\ running /\ Len(tasks) < MAX_TASKS
    /\ tasks' = Append(tasks, dec)
    /\ UNCHANGED <<mode, prev_valid, reference_price, guard, running, now, placed, sent_at>>

Takes == running /\ tasks # <<>>
Rest == UNCHANGED <<mode, prev_valid, reference_price, killed, now>>

(* send_decision, blocked: a check that gets as far forgets old orders. *)
Block ==
    /\ Takes /\ ~allowed(Head(tasks))
    /\ order_ts' = IF Early(Head(tasks)) THEN order_ts ELSE Recent
    /\ tasks' = Tail(tasks)
    /\ Rest /\ UNCHANGED <<position, running, placed, sent_at>>

(* record_fill comes before placeOrder. *)
RecordFillForgetting(dec) ==
    /\ order_ts' = <<now>>
    /\ position' = position + signed(dec)

RecordFillNoPosition(dec) ==
    /\ order_ts' = Append(Recent, now)
    /\ UNCHANGED position

RecordFill(dec) ==
    /\ order_ts' = Append(Recent, now)
    /\ position' = position + signed(dec)

Place ==
    /\ Takes /\ allowed(Head(tasks))
    /\ RecordFill(Head(tasks))
    /\ placed' = placed + signed(Head(tasks))
    /\ sent_at' = Append(IF Len(sent_at) > max_orders_per_sec THEN Tail(sent_at) ELSE sent_at,
                         now)
    /\ tasks' = Tail(tasks)
    /\ Rest /\ UNCHANGED running

(* placeOrder raises: a live task dies alone, the queue's loop ends. *)
Fail ==
    /\ mode \in FAILING /\ Takes /\ allowed(Head(tasks))
    /\ RecordFill(Head(tasks))
    /\ tasks' = Tail(tasks)
    /\ running' = (mode = "live")
    /\ Rest /\ UNCHANGED <<placed, sent_at>>

Kill ==
    /\ killed' = TRUE
    /\ UNCHANGED <<mode, prev_valid, reference_price, position, order_ts, tasks, running, now,
                   placed, sent_at>>

ResetKill ==
    /\ killed' = FALSE
    /\ UNCHANGED <<mode, prev_valid, reference_price, position, order_ts, tasks, running, now,
                   placed, sent_at>>

(* The end of the session, or None from the queue; scheduled tasks are     *)
(* cancelled with the event loop.                                          *)
Stop ==
    /\ running /\ running' = FALSE /\ tasks' = <<>>
    /\ UNCHANGED <<mode, prev_valid, reference_price, guard, now, placed, sent_at>>

PassTime ==
    /\ now < MAX_TIME /\ now' = now + 1
    /\ UNCHANGED <<mode, prev_valid, reference_price, guard, tasks, running, placed, sent_at>>

Next ==
    \/ \E q \in Quotes : Tick(q)
    \/ \E dec \in FpgaDecisions : Put(dec)
    \/ Block \/ Place \/ Fail \/ Kill \/ ResetKill \/ Stop \/ PassTime

Spec == Init /\ [][Next]_vars

-----------------------------------------------------------------------------
TypeOK ==
    /\ mode \in MODES
    /\ prev_valid \in BOOLEAN /\ killed \in BOOLEAN /\ running \in BOOLEAN
    /\ reference_price \in Nat /\ now \in 0..MAX_TIME
    /\ position \in -max_position_shares..max_position_shares
    /\ Len(tasks) <= MAX_TASKS /\ Len(order_ts) <= max_orders_per_sec

(* At most max_orders_per_sec orders are placed within any one second,     *)
(* however late their tasks run.                                           *)
RateKept ==
    Len(sent_at) > max_orders_per_sec =>
        sent_at[Len(sent_at)] - sent_at[Len(sent_at) - max_orders_per_sec] >= SECOND

(* The limit holds of the shares really ordered. *)
PlacedWithinLimit == absolute(placed) <= max_position_shares

(* However late its task runs, an order is placed only while the switch is *)
(* off and the price is within the band.  Live, the band is always there:  *)
(* the gate of two valid quotes comes after the first of them seeded it.   *)
PlacedUnderControls ==
    [][placed' # placed => /\ ~killed
                           /\ ~OutOfBand(Head(tasks))
                           /\ mode = "live" => reference_price > 0]_vars
=============================================================================
