----------------------------- MODULE OrderPath -----------------------------
(***************************************************************************)
(* From a book to an order: strategy_imbalance (two stages), the collar    *)
(* reference, risk_check, and the output registers with the symbol tags,   *)
(* wired as in multi_symbol_top (tick_to_trade_top is the case of one      *)
(* symbol).  Every block is clocked together: one Clock step is one rising *)
(* edge, in which each register reads the values from before the edge.     *)
(*                                                                         *)
(* The books are outside: at each edge they show any member of Snapshots,  *)
(* a record of the ports the path reads.  seen, halted, quiet and sent are *)
(* history: the last four snapshots (seen[1] the newest), the kill switch  *)
(* at the last edge, the edges since the last decision, and the net shares *)
(* of the orders that have left; none of them is read by the program.      *)
(***************************************************************************)
EXTENDS Integers

CONSTANTS
    NSYMBOLS,           \* symbols that share this path
    NLEVELS,            \* depth of book that the strategy reads
    PRICE_WORD,         \* 2^32: width of a price register
    Snapshots,          \* what the active symbol's book can show
    BID_THRESH, ASK_THRESH, MAX_SPREAD_TICKS, COOLDOWN_CYCLES,
    BASE_LOT, MAX_LOT,  \* strategy_imbalance
    MAX_ORDER_SIZE, MAX_POSITION, MAX_PRICE_BAND   \* risk_check

ASSUME ParameterAssumption ==
    /\ NSYMBOLS \in Nat \ {0} /\ NLEVELS \in Nat \ {0}
    /\ PRICE_WORD \in Nat \ {0}
    /\ BID_THRESH \in Nat /\ ASK_THRESH \in Nat
    /\ MAX_SPREAD_TICKS \in Nat /\ COOLDOWN_CYCLES \in Nat
    /\ BASE_LOT \in Nat /\ MAX_LOT \in Nat
    /\ MAX_ORDER_SIZE \in Nat /\ MAX_POSITION \in Nat /\ MAX_PRICE_BAND \in Nat

Symbols == 0..NSYMBOLS - 1
PriceWords == 0..PRICE_WORD - 1
Ladders == [1..NLEVELS -> Nat]

Snapshot == [sym : Symbols, book_valid : BOOLEAN, bid : PriceWords, ask : PriceWords,
             bid_sizes : Ladders, ask_sizes : Ladders]

ASSUME SnapshotAssumption == Snapshots \subseteq Snapshot

(* Nasdaq prices stay below $200,000.0000, under half of the 32-bit word,  *)
(* so that the 32-bit sum of bid and ask does not wrap.  An empty ask side *)
(* shows all ones: the sum then wraps, but such a book is not valid.       *)
ASSUME PriceAssumption ==
    \A s \in Snapshots :
        s.book_valid => 2 * s.bid < PRICE_WORD /\ 2 * s.ask < PRICE_WORD

(* The defaults of the two modules: 250 <= 500 shares, and half of a       *)
(* spread of 1000 ticks within a band of 5000.                             *)
ASSUME LimitAssumption ==
    /\ BASE_LOT <= MAX_LOT
    /\ MAX_LOT <= MAX_ORDER_SIZE
    /\ MAX_LOT <= MAX_POSITION
    /\ MAX_SPREAD_TICKS + 1 <= 2 * MAX_PRICE_BAND

VARIABLES
    stage1,         \* prev_valid and the stage 1 registers of the strategy
    decision,       \* its outputs
    cooldown_cnt,
    mid_r1, mid_r2, \* the collar reference, delayed twice
    position,       \* net open-order exposure
    risk,           \* registered outputs of the risk check, and the order out
    tag,            \* sym_d1, sym_d2, decision_sym_r
    seen, halted, quiet, sent

vars == <<stage1, decision, cooldown_cnt, mid_r1, mid_r2, position, risk, tag,
          seen, halted, quiet, sent>>

BUY  == FALSE
SELL == TRUE
Reasons == {"OK", "SIZE", "PRICE", "POSITION", "HALT"}

-----------------------------------------------------------------------------
(* Strategy, stage 1 *)

(* The touch weighs NLEVELS, the deepest level 1. *)
WeightedVolume(sizes) ==
    LET upTo[i \in 0..NLEVELS] ==
            IF i = 0 THEN 0 ELSE upTo[i - 1] + (NLEVELS - i + 1) * sizes[i]
    IN  upTo[NLEVELS]

Tradable(s) == s.book_valid /\ s.ask > s.bid /\ s.ask - s.bid <= MAX_SPREAD_TICKS

Stage1(s) ==
    [prev_valid |-> s.book_valid, bid_p |-> s.bid, ask_p |-> s.ask,
     w_bid |-> WeightedVolume(s.bid_sizes), w_ask |-> WeightedVolume(s.ask_sizes),
     elig |-> Tradable(s) /\ stage1.prev_valid]

(* Strategy, stage 2: is volume w more than k * thresh / 10 times v? *)
Exceeds(w, v, thresh, k) == w * 10 > k * thresh * v

Tier(w, v, thresh) ==
    IF Exceeds(w, v, thresh, 3) THEN 3 ELSE IF Exceeds(w, v, thresh, 2) THEN 2 ELSE 1

LotUncapped(w, v, thresh) == Tier(w, v, thresh) * BASE_LOT

Lot(w, v, thresh) ==
    LET lot == Tier(w, v, thresh) * BASE_LOT
    IN  IF lot > MAX_LOT THEN MAX_LOT ELSE lot

ready == stage1.elig /\ cooldown_cnt = 0

buy_cond  == Exceeds(stage1.w_bid, stage1.w_ask, BID_THRESH, 1) /\ stage1.ask_p > 0
sell_cond == Exceeds(stage1.w_ask, stage1.w_bid, ASK_THRESH, 1) /\ stage1.bid_p > 0

Decide ==
    \/ /\ ready /\ buy_cond
       /\ decision' = [valid |-> TRUE, action |-> BUY, price |-> stage1.ask_p,
                       size |-> Lot(stage1.w_bid, stage1.w_ask, BID_THRESH)]
    \/ /\ ready /\ ~buy_cond /\ sell_cond
       /\ decision' = [valid |-> TRUE, action |-> SELL, price |-> stage1.bid_p,
                       size |-> Lot(stage1.w_ask, stage1.w_bid, ASK_THRESH)]
    \/ /\ ~(ready /\ (buy_cond \/ sell_cond))
       /\ decision' = [decision EXCEPT !.valid = FALSE]

CooldownTwoShort ==
    cooldown_cnt' = IF decision'.valid
                      THEN IF COOLDOWN_CYCLES > 1 THEN COOLDOWN_CYCLES - 2 ELSE 0
                      ELSE IF cooldown_cnt # 0 THEN cooldown_cnt - 1 ELSE 0

CooldownStuck ==
    cooldown_cnt' = IF decision'.valid THEN COOLDOWN_CYCLES ELSE cooldown_cnt

Cooldown ==
    cooldown_cnt' = IF decision'.valid THEN COOLDOWN_CYCLES
                      ELSE IF cooldown_cnt # 0 THEN cooldown_cnt - 1 ELSE 0

StrategyEdge(s) == stage1' = Stage1(s) /\ Decide /\ Cooldown

-----------------------------------------------------------------------------
(* Collar reference: a 32-bit sum, shifted right *)
mid(s) == ((s.bid + s.ask) % PRICE_WORD) \div 2

MidEdgeOneDeep(s) == mid_r1' = mid(s) /\ mid_r2' = mid(s)

MidEdge(s) == mid_r1' = mid(s) /\ mid_r2' = mid_r1

-----------------------------------------------------------------------------
(* Risk check, combinational.  Sizes and positions stay far below 2^31 (an *)
(* order above MAX_ORDER_SIZE is refused), so the sums do not overflow.    *)
abs(n) == IF n < 0 THEN -n ELSE n

signed_qty(order) == IF order.action = SELL THEN -order.size ELSE order.size
new_position == position + signed_qty(decision)

ok_size     == decision.size <= MAX_ORDER_SIZE
ok_price    == abs(decision.price - mid_r2) <= MAX_PRICE_BAND
ok_position == abs(new_position) <= MAX_POSITION

out_valid(halt) == decision.valid /\ ~halt /\ ok_size /\ ok_price /\ ok_position

reject_reason(halt) ==
    IF out_valid(halt) \/ ~decision.valid THEN "OK"
    ELSE IF halt THEN "HALT" ELSE IF ~ok_size THEN "SIZE"
    ELSE IF ~ok_price THEN "PRICE" ELSE "POSITION"

PositionEdgeUnchecked(halt) ==
    position' = IF decision.valid /\ ~halt THEN new_position ELSE position

PositionEdge(halt) ==
    position' = IF out_valid(halt) THEN new_position ELSE position

OutputEdge(halt) ==
    risk' = [valid |-> out_valid(halt), action |-> decision.action,
             price |-> decision.price, size |-> decision.size,
             reject |-> decision.valid /\ ~out_valid(halt),
             reason |-> reject_reason(halt)]

TagEdgeOneShort(s) == tag' = [d1 |-> s.sym, d2 |-> tag.d1, out |-> tag.d1]

TagEdge(s) == tag' = [d1 |-> s.sym, d2 |-> tag.d1, out |-> tag.d2]

-----------------------------------------------------------------------------
NoSizes == [i \in 1..NLEVELS |-> 0]
Blank == [sym |-> 0, book_valid |-> FALSE, bid |-> 0, ask |-> 0,
          bid_sizes |-> NoSizes, ask_sizes |-> NoSizes]

InFlight == IF risk.valid THEN signed_qty(risk) ELSE 0

(* The history of one edge: the order on the output is now out. *)
Remember(s, halt) ==
    /\ seen' = [i \in 1..4 |-> IF i = 1 THEN s ELSE seen[i - 1]]
    /\ halted' = halt
    /\ quiet' = IF decision'.valid THEN 0
                  ELSE IF quiet < COOLDOWN_CYCLES THEN quiet + 1 ELSE quiet
    /\ sent' = sent + InFlight

Stage1Reset == [prev_valid |-> FALSE, bid_p |-> 0, ask_p |-> 0,
                w_bid |-> 0, w_ask |-> 0, elig |-> FALSE]
NoOrder == [valid |-> FALSE, action |-> BUY, price |-> 0, size |-> 0]
NoRisk  == [valid |-> FALSE, action |-> BUY, price |-> 0, size |-> 0,
            reject |-> FALSE, reason |-> "OK"]
NoTag   == [d1 |-> 0, d2 |-> 0, out |-> 0]
Forgotten == [i \in 1..4 |-> Blank]

Init ==
    /\ stage1 = Stage1Reset /\ decision = NoOrder /\ cooldown_cnt = 0
    /\ mid_r1 = 0 /\ mid_r2 = 0
    /\ position = 0 /\ risk = NoRisk /\ tag = NoTag
    /\ seen = Forgotten /\ halted = FALSE /\ quiet = COOLDOWN_CYCLES /\ sent = 0

Clock(s, halt) ==
    /\ StrategyEdge(s)
    /\ MidEdge(s)
    /\ PositionEdge(halt)
    /\ OutputEdge(halt)
    /\ TagEdge(s)
    /\ Remember(s, halt)

(* rst_n clears every register, the position with them. *)
Reset ==
    /\ stage1' = Stage1Reset /\ decision' = NoOrder /\ cooldown_cnt' = 0
    /\ mid_r1' = 0 /\ mid_r2' = 0
    /\ position' = 0 /\ risk' = NoRisk /\ tag' = NoTag
    /\ seen' = Forgotten /\ halted' = FALSE /\ quiet' = COOLDOWN_CYCLES /\ sent' = 0

Next == Reset \/ \E s \in Snapshots, halt \in BOOLEAN : Clock(s, halt)

Spec == Init /\ [][Next]_vars

(* The clock does not stop: while the book and the switch stay as they     *)
(* are, another edge follows as long as it changes any register.  (Fairness *)
(* of Clock over all snapshots would force the book to move instead.)      *)
Steady == seen[1] \in Snapshots /\ Clock(seen[1], halted)
FairSpec == Spec /\ WF_vars(Steady)

-----------------------------------------------------------------------------
Volumes == {0} \cup {WeightedVolume(s.bid_sizes) : s \in Snapshots}
               \cup {WeightedVolume(s.ask_sizes) : s \in Snapshots}

(* Every register holds a value of its type; in particular a lot never     *)
(* exceeds MAX_LOT and the cooldown never exceeds COOLDOWN_CYCLES.         *)
TypeOK ==
    /\ stage1 \in [prev_valid : BOOLEAN, bid_p : PriceWords, ask_p : PriceWords,
                   w_bid : Volumes, w_ask : Volumes, elig : BOOLEAN]
    /\ decision \in [valid : BOOLEAN, action : BOOLEAN, price : PriceWords, size : 0..MAX_LOT]
    /\ cooldown_cnt \in 0..COOLDOWN_CYCLES
    /\ mid_r1 \in PriceWords /\ mid_r2 \in PriceWords
    /\ position \in Int
    /\ risk \in [valid : BOOLEAN, action : BOOLEAN, price : PriceWords, size : 0..MAX_LOT,
                 reject : BOOLEAN, reason : Reasons]
    /\ tag \in [d1 : Symbols, d2 : Symbols, out : Symbols]
    /\ seen \in [1..4 -> Snapshots \cup {Blank}]
    /\ halted \in BOOLEAN /\ quiet \in 0..COOLDOWN_CYCLES /\ sent \in Int

(* What a snapshot calls for, as the ratio of its volumes in tenths: buy   *)
(* at the ask when bids outweigh asks by more than BID_THRESH, else sell   *)
(* at the bid when asks outweigh bids by more than ASK_THRESH.             *)
Calls(s, order) ==
    LET b == WeightedVolume(s.bid_sizes)
        a == WeightedVolume(s.ask_sizes)
        buys == Exceeds(b, a, BID_THRESH, 1) /\ s.ask > 0
    IN  \/ /\ buys /\ order.action = BUY
           /\ order.price = s.ask /\ order.size = Lot(b, a, BID_THRESH)
        \/ /\ ~buys /\ Exceeds(a, b, ASK_THRESH, 1) /\ s.bid > 0
           /\ order.action = SELL
           /\ order.price = s.bid /\ order.size = Lot(a, b, ASK_THRESH)

(* An order that leaves is the one called for by the snapshot of three     *)
(* edges ago, which was tradable and followed a valid one, and it carries  *)
(* that snapshot's symbol: the registers of the four blocks are aligned.   *)
OrderFollowsSnapshot ==
    risk.valid => /\ Tradable(seen[3]) /\ seen[4].book_valid
                  /\ Calls(seen[3], risk)
                  /\ tag.out = seen[3].sym

(* The exposure limit holds for the orders that really leave: position is  *)
(* what was sent and what is in the output register, and within the limit. *)
ExposureBounded ==
    /\ position = sent + InFlight
    /\ abs(position) <= MAX_POSITION
    /\ abs(sent) <= MAX_POSITION

(* A proposal of the strategy is refused for two reasons only: the kill    *)
(* switch was on at that edge, or the order would widen an exposure that   *)
(* is already long (short).  The size guard and the collar never refuse    *)
(* one, the collar because the spread guard bounds the distance of the     *)
(* touch from the mid of the same snapshot.                                *)
RejectsJustified ==
    /\ risk.reject =>
          \/ risk.reason = "HALT" /\ halted
          \/ /\ risk.reason = "POSITION" /\ ~halted
             /\ IF risk.action = BUY THEN position > 0 ELSE position < 0
             /\ abs(position + signed_qty(risk)) > MAX_POSITION
    /\ risk.valid => ~halted

(* What keeps the blocks aligned: each pipeline register is about the       *)
(* snapshot of its own age, and the cooldown counts the quiet edges.       *)
Aligned ==
    /\ stage1.prev_valid = seen[1].book_valid
    /\ stage1.elig => /\ Tradable(seen[1]) /\ seen[2].book_valid
                      /\ stage1.bid_p = seen[1].bid /\ stage1.ask_p = seen[1].ask
                      /\ stage1.w_bid = WeightedVolume(seen[1].bid_sizes)
                      /\ stage1.w_ask = WeightedVolume(seen[1].ask_sizes)
    /\ mid_r1 = mid(seen[1]) /\ mid_r2 = mid(seen[2])
    /\ tag.d1 = seen[1].sym /\ tag.d2 = seen[2].sym /\ tag.out = seen[3].sym
    /\ decision.valid => /\ Tradable(seen[2]) /\ seen[3].book_valid
                         /\ Calls(seen[2], decision)
    /\ cooldown_cnt = COOLDOWN_CYCLES - quiet

(* The inductive invariant. *)
IInv == TypeOK /\ Aligned /\ OrderFollowsSnapshot /\ ExposureBounded /\ RejectsJustified

(* After a decision the strategy is silent for COOLDOWN_CYCLES edges,      *)
(* whatever the books of all the symbols show meanwhile.                   *)
CooldownKept == [][decision'.valid => quiet >= COOLDOWN_CYCLES]_vars

(* The path does not lock up: while a book keeps calling for buys and the  *)
(* kill switch stays off, orders leave until the limit refuses the next.   *)
KeepsBuying ==
    \A s \in Snapshots :
        LET lot == Lot(WeightedVolume(s.bid_sizes), WeightedVolume(s.ask_sizes), BID_THRESH)
        IN  ( /\ Tradable(s)
              /\ Exceeds(WeightedVolume(s.bid_sizes), WeightedVolume(s.ask_sizes),
                         BID_THRESH, 1) )
            => (<>[](seen[1] = s /\ ~halted) => <>(sent + lot > MAX_POSITION))
=============================================================================
