-------------------------- MODULE OrderPathProofs --------------------------
(***************************************************************************)
(* The order path for every value of its parameters: alignment of the      *)
(* pipeline, the exposure limit, and why a proposal may be refused.        *)
(***************************************************************************)
EXTENDS OrderPath, TLAPS

(* A snapshot, or the empty book that the registers show after a reset. *)
Known == Snapshots \cup {Blank}

(* What the ports of a known snapshot hold. *)
LEMMA KnownPorts ==
    ASSUME NEW s \in Known
    PROVE  /\ s.sym \in Symbols /\ s.book_valid \in BOOLEAN
           /\ s.bid \in Nat /\ s.ask \in Nat /\ s.bid \in PriceWords /\ s.ask \in PriceWords
           /\ s.book_valid => s.bid + s.ask < PRICE_WORD
  <1>1. CASE s \in Snapshots
    <2>1. s \in Snapshot
      BY <1>1, SnapshotAssumption
    <2>2. s.sym \in Symbols /\ s.book_valid \in BOOLEAN /\ s.bid \in PriceWords /\ s.ask \in PriceWords
      BY <2>1 DEF Snapshot
    <2>3. s.book_valid => 2 * s.bid < PRICE_WORD /\ 2 * s.ask < PRICE_WORD
      BY <1>1, PriceAssumption
    <2>. QED
      BY <2>2, <2>3, ParameterAssumption DEF PriceWords
  <1>2. CASE s = Blank
    BY <1>2, ParameterAssumption DEF Blank, PriceWords, Symbols
  <1>. QED
    BY <1>1, <1>2 DEF Known

(* The 32-bit sum of a valid book does not wrap: the reference is its mid. *)
LEMMA MidPrice ==
    ASSUME NEW s \in Known
    PROVE  /\ mid(s) \in PriceWords
           /\ s.book_valid => mid(s) = (s.bid + s.ask) \div 2
  <1>1. /\ s.bid \in Nat /\ s.ask \in Nat
        /\ s.book_valid => s.bid + s.ask < PRICE_WORD
    BY KnownPorts
  <1>2. \A n \in Nat : n % PRICE_WORD \in PriceWords /\ (n < PRICE_WORD => n % PRICE_WORD = n)
    BY ParameterAssumption, SMT DEF PriceWords
  <1>3. \A n \in PriceWords : n \div 2 \in PriceWords
    BY ParameterAssumption, SMT DEF PriceWords
  <1>4. s.bid + s.ask \in Nat
    BY <1>1
  <1>. QED
    BY <1>1, <1>2, <1>3, <1>4 DEF mid

(* The touch of a tradable book is within the collar around its mid. *)
LEMMA TouchInBand ==
    ASSUME NEW s \in Known, Tradable(s)
    PROVE  /\ abs(s.ask - mid(s)) <= MAX_PRICE_BAND
           /\ abs(s.bid - mid(s)) <= MAX_PRICE_BAND
  <1>1. s.bid \in Nat /\ s.ask \in Nat
    BY KnownPorts
  <1>2. mid(s) = (s.bid + s.ask) \div 2
    BY MidPrice DEF Tradable
  <1>. QED
    BY <1>1, <1>2, ParameterAssumption, LimitAssumption DEF Tradable, abs

(* A lot is at most MAX_LOT, whatever the volumes are. *)
LEMMA LotCapped ==
    ASSUME NEW w, NEW v, NEW thresh
    PROVE  Lot(w, v, thresh) \in 0..MAX_LOT
  <1>1. Tier(w, v, thresh) \in 1..3
    BY DEF Tier
  <1>. QED
    BY <1>1, ParameterAssumption, LimitAssumption DEF Lot

(* The reset values are of the registers' types, and aligned. *)
LEMMA ResetValues ==
    /\ Stage1Reset \in [prev_valid : BOOLEAN, bid_p : PriceWords, ask_p : PriceWords,
                        w_bid : Volumes, w_ask : Volumes, elig : BOOLEAN]
    /\ NoOrder \in [valid : BOOLEAN, action : BOOLEAN, price : PriceWords, size : 0..MAX_LOT]
    /\ NoRisk \in [valid : BOOLEAN, action : BOOLEAN, price : PriceWords, size : 0..MAX_LOT,
                   reject : BOOLEAN, reason : Reasons]
    /\ NoTag \in [d1 : Symbols, d2 : Symbols, out : Symbols]
    /\ Forgotten \in [1..4 -> Known]
    /\ 0 \in PriceWords /\ 0 \in 0..COOLDOWN_CYCLES /\ COOLDOWN_CYCLES \in 0..COOLDOWN_CYCLES
    /\ ~Stage1Reset.prev_valid /\ ~Stage1Reset.elig /\ ~NoOrder.valid
    /\ ~NoRisk.valid /\ ~NoRisk.reject
    /\ NoTag.d1 = 0 /\ NoTag.d2 = 0 /\ NoTag.out = 0
    /\ \A i \in 1..4 : Forgotten[i] = Blank
    /\ Blank.sym = 0 /\ Blank.book_valid = FALSE /\ mid(Blank) = 0
  <1>1. Blank \in Known /\ mid(Blank) = 0 /\ Blank.sym = 0 /\ Blank.book_valid = FALSE
    BY ParameterAssumption DEF Known, Blank, mid
  <1>2. 0 \in PriceWords /\ 0 \in Volumes /\ 0 \in Symbols /\ BUY \in BOOLEAN /\ "OK" \in Reasons
        /\ 0 \in 0..MAX_LOT
    BY ParameterAssumption DEF PriceWords, Volumes, Symbols, BUY, Reasons
  <1>. QED
    BY <1>1, <1>2, ParameterAssumption DEF Stage1Reset, NoOrder, NoRisk, NoTag, Forgotten

(* The initial state satisfies the invariant, and so does every reset. *)
LEMMA PathInit == Init => IInv
  <1> SUFFICES ASSUME Init PROVE IInv
    OBVIOUS
  <1>1. TypeOK
    <2>1. (position \in Int /\ sent \in Int)
      BY DEF Init
    <2>3. halted \in BOOLEAN
      BY Zenon DEF Init
    <2>2. Forgotten \in [1..4 -> Snapshots \cup {Blank}]
      BY ResetValues DEF Known
    <2>. QED
      BY <2>1, <2>2, <2>3, ResetValues, Zenon DEF Init, TypeOK
  <1>2. Aligned
    <2>1. (seen[1] = Blank /\ seen[2] = Blank /\ seen[3] = Blank)
      BY ResetValues DEF Init
    <2>2. 0 = COOLDOWN_CYCLES - COOLDOWN_CYCLES
      BY ParameterAssumption
    <2>. QED
      BY <2>1, <2>2, ResetValues, Zenon DEF Init, Aligned
  <1>3. OrderFollowsSnapshot /\ ExposureBounded /\ RejectsJustified
    BY ResetValues, ParameterAssumption
    DEF Init, OrderFollowsSnapshot, ExposureBounded, RejectsJustified, InFlight, abs
  <1>. QED
    BY <1>1, <1>2, <1>3 DEF IInv

LEMMA PathReset == Reset => IInv'
  <1> SUFFICES ASSUME Reset PROVE IInv'
    OBVIOUS
  <1>1. TypeOK'
    <2>1. (position \in Int /\ sent \in Int)'
      BY DEF Reset
    <2>3. halted' \in BOOLEAN
      BY Zenon DEF Reset
    <2>2. Forgotten \in [1..4 -> Snapshots \cup {Blank}]
      BY ResetValues DEF Known
    <2>. QED
      BY <2>1, <2>2, <2>3, ResetValues, Zenon DEF Reset, TypeOK
  <1>2. Aligned'
    <2>1. (seen[1] = Blank /\ seen[2] = Blank /\ seen[3] = Blank)'
      BY ResetValues DEF Reset
    <2>2. 0 = COOLDOWN_CYCLES - COOLDOWN_CYCLES
      BY ParameterAssumption
    <2>. QED
      BY <2>1, <2>2, ResetValues, Zenon DEF Reset, Aligned
  <1>3. (OrderFollowsSnapshot /\ ExposureBounded /\ RejectsJustified)'
    BY ResetValues, ParameterAssumption
    DEF Reset, OrderFollowsSnapshot, ExposureBounded, RejectsJustified, InFlight, abs
  <1>. QED
    BY <1>1, <1>2, <1>3 DEF IInv

(* The history shifts by one snapshot. *)
LEMMA HistoryShifts ==
    ASSUME TypeOK, NEW s \in Snapshots, NEW halt \in BOOLEAN, Clock(s, halt)
    PROVE  /\ seen' \in [1..4 -> Known]
           /\ seen'[1] = s /\ seen'[2] = seen[1] /\ seen'[3] = seen[2] /\ seen'[4] = seen[3]
           /\ seen[1] \in Known /\ seen[2] \in Known /\ seen[3] \in Known
           /\ s \in Known /\ halted' = halt
  BY DEF TypeOK, Clock, Remember, Known

LEMMA DecideType ==
    ASSUME TypeOK, NEW s \in Snapshots, NEW halt \in BOOLEAN, Clock(s, halt)
    PROVE  decision' \in [valid : BOOLEAN, action : BOOLEAN, price : PriceWords, size : 0..MAX_LOT]
  <1>0. /\ stage1.ask_p \in PriceWords /\ stage1.bid_p \in PriceWords
        /\ BUY \in BOOLEAN /\ SELL \in BOOLEAN
    BY DEF TypeOK, BUY, SELL
  <1>d. Decide
    BY DEF Clock, StrategyEdge
  <1>r. \A act \in BOOLEAN, p \in PriceWords, z \in 0..MAX_LOT :
            [valid |-> TRUE, action |-> act, price |-> p, size |-> z]
              \in [valid : BOOLEAN, action : BOOLEAN, price : PriceWords, size : 0..MAX_LOT]
    OBVIOUS
  <1>1. CASE ready /\ buy_cond
    <2>1. Lot(stage1.w_bid, stage1.w_ask, BID_THRESH) \in 0..MAX_LOT
      BY LotCapped
    <2>2. decision' = [valid |-> TRUE, action |-> BUY, price |-> stage1.ask_p,
                      size |-> Lot(stage1.w_bid, stage1.w_ask, BID_THRESH)]
      BY <1>1, <1>d DEF Decide
    <2>. QED
      BY <1>0, <1>r, <2>1, <2>2
  <1>2. CASE ready /\ ~buy_cond /\ sell_cond
    <2>1. Lot(stage1.w_ask, stage1.w_bid, ASK_THRESH) \in 0..MAX_LOT
      BY LotCapped
    <2>2. decision' = [valid |-> TRUE, action |-> SELL, price |-> stage1.bid_p,
                      size |-> Lot(stage1.w_ask, stage1.w_bid, ASK_THRESH)]
      BY <1>2, <1>d DEF Decide
    <2>. QED
      BY <1>0, <1>r, <2>1, <2>2
  <1>3. CASE ~(ready /\ (buy_cond \/ sell_cond))
    BY <1>0, <1>3, <1>d DEF TypeOK, Decide
  <1>. QED
    BY <1>1, <1>2, <1>3

(* Cooldown and history keep the same count. *)
LEMMA CooldownStep ==
    ASSUME TypeOK, cooldown_cnt = COOLDOWN_CYCLES - quiet,
           NEW s \in Snapshots, NEW halt \in BOOLEAN, Clock(s, halt)
    PROVE  /\ cooldown_cnt' \in 0..COOLDOWN_CYCLES /\ quiet' \in 0..COOLDOWN_CYCLES
           /\ cooldown_cnt' = COOLDOWN_CYCLES - quiet'
  BY ParameterAssumption DEF TypeOK, Clock, StrategyEdge, Cooldown, Remember

LEMMA ClockType ==
    ASSUME TypeOK, cooldown_cnt = COOLDOWN_CYCLES - quiet,
           NEW s \in Snapshots, NEW halt \in BOOLEAN, Clock(s, halt)
    PROVE  TypeOK'
  <1>1. s \in Known /\ s.book_valid \in BOOLEAN /\ s.bid \in PriceWords /\ s.ask \in PriceWords
        /\ s.sym \in Symbols /\ mid(s) \in PriceWords
    BY KnownPorts, MidPrice DEF Known
  <1>2. stage1' \in [prev_valid : BOOLEAN, bid_p : PriceWords, ask_p : PriceWords,
                     w_bid : Volumes, w_ask : Volumes, elig : BOOLEAN]
    <2>1. WeightedVolume(s.bid_sizes) \in Volumes /\ WeightedVolume(s.ask_sizes) \in Volumes
      BY DEF Volumes
    <2>2. (Tradable(s) /\ stage1.prev_valid) \in BOOLEAN
      BY <1>1 DEF TypeOK, Tradable
    <2>. QED
      BY <1>1, <2>1, <2>2 DEF Clock, StrategyEdge, Stage1
  <1>3. mid_r1' \in PriceWords /\ mid_r2' \in PriceWords
    BY <1>1 DEF TypeOK, Clock, MidEdge
  <1>4. /\ decision.valid \in BOOLEAN /\ decision.action \in BOOLEAN /\ decision.price \in PriceWords
        /\ decision.size \in 0..MAX_LOT /\ signed_qty(decision) \in Int /\ new_position \in Int
    BY ParameterAssumption DEF TypeOK, signed_qty, new_position
  <1>5. position' \in Int
    BY <1>4 DEF TypeOK, Clock, PositionEdge
  <1>6. risk' \in [valid : BOOLEAN, action : BOOLEAN, price : PriceWords, size : 0..MAX_LOT,
                   reject : BOOLEAN, reason : Reasons]
    <2>1. out_valid(halt) \in BOOLEAN
      BY <1>4 DEF out_valid, ok_size, ok_price, ok_position
    <2>2. reject_reason(halt) \in Reasons
      BY DEF reject_reason, Reasons
    <2>. QED
      BY <1>4, <2>1, <2>2 DEF Clock, OutputEdge
  <1>7. tag' \in [d1 : Symbols, d2 : Symbols, out : Symbols]
    BY <1>1 DEF TypeOK, Clock, TagEdge
  <1>8. sent' \in Int
    BY ParameterAssumption DEF TypeOK, Clock, Remember, InFlight, signed_qty
  <1>. QED
    BY <1>2, <1>3, <1>5, <1>6, <1>7, <1>8, DecideType, CooldownStep, HistoryShifts
    DEF TypeOK, Known

(* A decision is what the snapshot of stage 1 calls for. *)
LEMMA DecisionFollows ==
    ASSUME TypeOK, Aligned, NEW s \in Snapshots, NEW halt \in BOOLEAN, Clock(s, halt),
           decision'.valid
    PROVE  Tradable(seen[1]) /\ seen[2].book_valid /\ Calls(seen[1], decision')
  <1>1. Decide
    BY DEF Clock, StrategyEdge
  <1>2. ready /\ (buy_cond \/ sell_cond)
    <2>1. CASE ~(ready /\ (buy_cond \/ sell_cond))
      BY <1>1, <2>1 DEF Decide, TypeOK
    <2>. QED
      BY <2>1
  <1>3. /\ Tradable(seen[1]) /\ seen[2].book_valid
        /\ stage1.bid_p = seen[1].bid /\ stage1.ask_p = seen[1].ask
        /\ stage1.w_bid = WeightedVolume(seen[1].bid_sizes)
        /\ stage1.w_ask = WeightedVolume(seen[1].ask_sizes)
    BY <1>2 DEF ready, Aligned
  <1>4. CASE buy_cond
    <2>1. decision' = [valid |-> TRUE, action |-> BUY, price |-> stage1.ask_p,
                       size |-> Lot(stage1.w_bid, stage1.w_ask, BID_THRESH)]
      BY <1>1, <1>2, <1>4 DEF Decide
    <2>2. /\ decision'.action = BUY /\ decision'.price = seen[1].ask
          /\ decision'.size = Lot(WeightedVolume(seen[1].bid_sizes),
                                  WeightedVolume(seen[1].ask_sizes), BID_THRESH)
      BY <2>1, <1>3
    <2>. QED
      BY <1>3, <1>4, <2>2 DEF Calls, buy_cond
  <1>5. CASE ~buy_cond /\ sell_cond
    <2>1. decision' = [valid |-> TRUE, action |-> SELL, price |-> stage1.bid_p,
                       size |-> Lot(stage1.w_ask, stage1.w_bid, ASK_THRESH)]
      BY <1>1, <1>2, <1>5 DEF Decide
    <2>2. /\ decision'.action = SELL /\ decision'.price = seen[1].bid
          /\ decision'.size = Lot(WeightedVolume(seen[1].ask_sizes),
                                  WeightedVolume(seen[1].bid_sizes), ASK_THRESH)
      BY <2>1, <1>3
    <2>. QED
      BY <1>3, <1>5, <2>2 DEF Calls, buy_cond, sell_cond
  <1>. QED
    BY <1>2, <1>3, <1>4, <1>5

LEMMA ClockAligned ==
    ASSUME TypeOK, Aligned, NEW s \in Snapshots, NEW halt \in BOOLEAN, Clock(s, halt)
    PROVE  Aligned'
  <1>1. stage1' = Stage1(s) /\ mid_r1' = mid(s) /\ mid_r2' = mid_r1
        /\ tag' = [d1 |-> s.sym, d2 |-> tag.d1, out |-> tag.d2]
    BY DEF Clock, StrategyEdge, MidEdge, TagEdge
  <1>2. stage1'.prev_valid = seen'[1].book_valid
    BY <1>1, HistoryShifts DEF Stage1
  <1>3. stage1'.elig =>
            /\ Tradable(seen'[1]) /\ seen'[2].book_valid
            /\ stage1'.bid_p = seen'[1].bid /\ stage1'.ask_p = seen'[1].ask
            /\ stage1'.w_bid = WeightedVolume(seen'[1].bid_sizes)
            /\ stage1'.w_ask = WeightedVolume(seen'[1].ask_sizes)
    BY <1>1, HistoryShifts DEF Stage1, Aligned
  <1>4. /\ mid_r1' = mid(seen'[1]) /\ mid_r2' = mid(seen'[2])
        /\ tag'.d1 = seen'[1].sym /\ tag'.d2 = seen'[2].sym /\ tag'.out = seen'[3].sym
    BY <1>1, HistoryShifts DEF Aligned
  <1>5. decision'.valid => /\ Tradable(seen'[2]) /\ seen'[3].book_valid
                           /\ Calls(seen'[2], decision')
    BY DecisionFollows, HistoryShifts
  <1>6. cooldown_cnt' = COOLDOWN_CYCLES - quiet'
    BY CooldownStep DEF Aligned
  <1>. QED
    BY <1>2, <1>3, <1>4, <1>5, <1>6 DEF Aligned

LEMMA ClockFollows ==
    ASSUME TypeOK, Aligned, NEW s \in Snapshots, NEW halt \in BOOLEAN, Clock(s, halt)
    PROVE  OrderFollowsSnapshot'
  <1> SUFFICES ASSUME risk'.valid
               PROVE  /\ Tradable(seen'[3]) /\ seen'[4].book_valid
                      /\ Calls(seen'[3], risk') /\ tag'.out = seen'[3].sym
    BY DEF OrderFollowsSnapshot
  <1>1. decision.valid /\ risk'.action = decision.action /\ risk'.price = decision.price
        /\ risk'.size = decision.size
    BY DEF Clock, OutputEdge, out_valid
  <1>2. Tradable(seen[2]) /\ seen[3].book_valid /\ Calls(seen[2], decision)
    BY <1>1 DEF Aligned
  <1>3. Calls(seen[2], risk')
    BY <1>1, <1>2 DEF Calls
  <1>4. tag'.out = seen[2].sym
    BY DEF Clock, TagEdge, Aligned
  <1>. QED
    BY <1>2, <1>3, <1>4, HistoryShifts

LEMMA ClockExposure ==
    ASSUME TypeOK, ExposureBounded, NEW s \in Snapshots, NEW halt \in BOOLEAN, Clock(s, halt)
    PROVE  ExposureBounded'
  <1>1. /\ decision.size \in Nat /\ decision.action \in BOOLEAN /\ position \in Int
        /\ signed_qty(decision) \in Int /\ MAX_POSITION \in Nat
    BY ParameterAssumption DEF TypeOK, signed_qty
  <1>2. sent' = position
    BY DEF Clock, Remember, ExposureBounded
  <1>3. /\ risk'.valid = out_valid(halt)
        /\ signed_qty(risk)' = signed_qty(decision)
        /\ position' = IF out_valid(halt) THEN position + signed_qty(decision) ELSE position
    BY DEF Clock, OutputEdge, PositionEdge, signed_qty, new_position
  <1>4. CASE out_valid(halt)
    <2>1. abs(position + signed_qty(decision)) <= MAX_POSITION
      BY <1>4 DEF out_valid, ok_position, new_position
    <2>. QED
      BY <1>1, <1>2, <1>3, <1>4, <2>1 DEF ExposureBounded, InFlight
  <1>5. CASE ~out_valid(halt)
    BY <1>1, <1>2, <1>3, <1>5 DEF ExposureBounded, InFlight
  <1>. QED
    BY <1>4, <1>5

(* A proposal of the strategy passes the size guard and the collar. *)
LEMMA GuardsPass ==
    ASSUME TypeOK, Aligned, decision.valid
    PROVE  ok_size /\ ok_price
  <1>1. ok_size
    BY ParameterAssumption, LimitAssumption DEF TypeOK, ok_size
  <1>2. Tradable(seen[2]) /\ Calls(seen[2], decision) /\ mid_r2 = mid(seen[2])
    BY DEF Aligned
  <1>3. seen[2] \in Known
    BY DEF TypeOK, Known
  <1>4. decision.price = seen[2].ask \/ decision.price = seen[2].bid
    BY <1>2 DEF Calls
  <1>5. ok_price
    BY <1>2, <1>3, <1>4, TouchInBand DEF ok_price
  <1>. QED
    BY <1>1, <1>5

(* An order of at most MAX_LOT that breaks the limit widens an exposure. *)
LEMMA LimitWidens ==
    ASSUME NEW p \in Int, abs(p) <= MAX_POSITION, NEW n \in 0..MAX_LOT
    PROVE  /\ abs(p + n) > MAX_POSITION => p > 0
           /\ abs(p + (-n)) > MAX_POSITION => p < 0
  BY ParameterAssumption, LimitAssumption DEF abs

LEMMA ClockRejects ==
    ASSUME TypeOK, Aligned, ExposureBounded,
           NEW s \in Snapshots, NEW halt \in BOOLEAN, Clock(s, halt)
    PROVE  RejectsJustified'
  <1>1. /\ risk'.action = decision.action /\ risk'.valid = out_valid(halt)
        /\ risk'.reject = (decision.valid /\ ~out_valid(halt))
        /\ risk'.reason = reject_reason(halt)
        /\ signed_qty(risk)' = signed_qty(decision) /\ halted' = halt
    BY DEF Clock, OutputEdge, Remember, signed_qty
  <1>2. risk'.valid => ~halted'
    BY <1>1 DEF out_valid
  <1>3. ASSUME risk'.reject, ~halt
        PROVE  /\ risk'.reason = "POSITION"
               /\ IF risk'.action = BUY THEN position' > 0 ELSE position' < 0
               /\ abs(position' + signed_qty(risk)') > MAX_POSITION
    <2>1. decision.valid /\ ~out_valid(halt)
      BY <1>1, <1>3
    <2>2. ok_size /\ ok_price
      BY <2>1, GuardsPass
    <2>3. ~ok_position
      BY <1>3, <2>1, <2>2 DEF out_valid
    <2>4. risk'.reason = "POSITION"
      BY <1>1, <1>3, <2>1, <2>2 DEF reject_reason
    <2>5. position' = position
      BY <2>1 DEF Clock, PositionEdge
    <2>6. ~(abs(position + signed_qty(decision)) <= MAX_POSITION)
      BY <2>3 DEF ok_position, new_position
    <2>7. /\ position \in Int /\ decision.size \in 0..MAX_LOT /\ MAX_POSITION \in Int
          /\ decision.action \in BOOLEAN /\ signed_qty(decision) \in Int
          /\ abs(position) <= MAX_POSITION
      BY ParameterAssumption DEF TypeOK, ExposureBounded, signed_qty
    <2>8. abs(position + signed_qty(decision)) > MAX_POSITION
      BY <2>6, <2>7 DEF abs
    <2>9. IF decision.action = BUY THEN position > 0 ELSE position < 0
      <3>1. CASE decision.action = BUY
        <4>1. signed_qty(decision) = decision.size
          BY <3>1 DEF signed_qty, BUY, SELL
        <4>. QED
          BY <2>7, <2>8, <3>1, <4>1, LimitWidens
      <3>2. CASE decision.action = SELL
        <4>1. signed_qty(decision) = -decision.size /\ decision.action # BUY
          BY <3>2 DEF signed_qty, BUY, SELL
        <4>. QED
          BY <2>7, <2>8, <3>2, <4>1, LimitWidens
      <3>. QED
        BY <2>7, <3>1, <3>2 DEF BUY, SELL
    <2>. QED
      BY <1>1, <2>4, <2>5, <2>8, <2>9
  <1>4. ASSUME risk'.reject, halt
        PROVE  risk'.reason = "HALT" /\ halted'
    BY <1>1, <1>4 DEF reject_reason
  <1>. QED
    BY <1>1, <1>2, <1>3, <1>4 DEF RejectsJustified

(* The invariant is inductive, and holds of every behaviour. *)
THEOREM PathInvariant == Spec => []IInv
  <1>1. Init => IInv
    BY PathInit
  <1>2. IInv /\ [Next]_vars => IInv'
    <2> SUFFICES ASSUME IInv, [Next]_vars PROVE IInv'
      OBVIOUS
    <2>1. CASE Reset
      BY <2>1, PathReset
    <2>2. ASSUME NEW s \in Snapshots, NEW halt \in BOOLEAN, Clock(s, halt) PROVE IInv'
      <3>1. TypeOK /\ Aligned /\ ExposureBounded /\ cooldown_cnt = COOLDOWN_CYCLES - quiet
        BY DEF IInv, Aligned
      <3>. QED
        BY <2>2, <3>1, ClockType, ClockAligned, ClockFollows, ClockExposure, ClockRejects
        DEF IInv
    <2>3. CASE UNCHANGED vars
      BY <2>3 DEF vars, IInv, TypeOK, Aligned, Tradable, Calls, mid, OrderFollowsSnapshot,
                  ExposureBounded, InFlight, signed_qty, RejectsJustified
    <2>. QED
      BY <2>1, <2>2, <2>3 DEF Next
  <1>. QED
    BY <1>1, <1>2, PTL DEF Spec

(* Registers hold values of their types; a lot is never above MAX_LOT. *)
THEOREM PathTypeCorrect == Spec => []TypeOK
  BY PathInvariant, PTL DEF IInv

(* An order that leaves was called for by one tradable snapshot, of the    *)
(* symbol that it carries.                                                 *)
THEOREM OrdersFollowSnapshots == Spec => []OrderFollowsSnapshot
  BY PathInvariant, PTL DEF IInv

(* Net exposure of the orders sent stays within MAX_POSITION. *)
THEOREM ExposureWithinLimit == Spec => []ExposureBounded
  BY PathInvariant, PTL DEF IInv

(* Only the kill switch or a widened exposure refuses a proposal. *)
THEOREM OnlyJustifiedRejects == Spec => []RejectsJustified
  BY PathInvariant, PTL DEF IInv

(* Two decisions are more than COOLDOWN_CYCLES edges apart. *)
THEOREM SilentAfterDecision == Spec => CooldownKept
  <1>1. ASSUME IInv, [Next]_vars PROVE [decision'.valid => quiet >= COOLDOWN_CYCLES]_vars
    <2>1. CASE Reset
      BY <2>1, ResetValues DEF Reset
    <2>2. ASSUME NEW s \in Snapshots, NEW halt \in BOOLEAN, Clock(s, halt), decision'.valid
          PROVE  quiet >= COOLDOWN_CYCLES
      <3>1. TypeOK /\ cooldown_cnt = COOLDOWN_CYCLES - quiet
        BY <1>1 DEF IInv, Aligned
      <3>2. Decide
        BY <2>2 DEF Clock, StrategyEdge
      <3>3. cooldown_cnt = 0
        <4>1. CASE ~(ready /\ (buy_cond \/ sell_cond))
          BY <2>2, <3>1, <3>2, <4>1 DEF Decide, TypeOK
        <4>. QED
          BY <4>1 DEF ready
      <3>. QED
        BY <3>1, <3>3, ParameterAssumption DEF TypeOK
    <2>. QED
      BY <1>1, <2>1, <2>2 DEF Next
  <1>. QED
    BY <1>1, PathInvariant, PTL DEF Spec, CooldownKept
=============================================================================
