---------------------------- MODULE BacktestProofs ----------------------------
(***************************************************************************)
(* Proofs about Sizing and Backtest, for every market, calendar, set of    *)
(* tickers and setting of the rules.                                       *)
(***************************************************************************)
EXTENDS Backtest, Sums

-----------------------------------------------------------------------------
(* The rules of Sizing *)

(* A product of two naturals is one, and positive if they are. *)
LEMMA Products ==
    /\ \A x \in Nat, y \in Nat : x * y \in Nat
    /\ \A x \in Nat \ {0}, y \in Nat \ {0} : x * y \in Nat \ {0}
BY SMT

(* Division of a natural. *)
LEMMA Quotient == \A x \in Nat, y \in Nat \ {0} : x \div y \in Nat
BY SMT

(* Whatever was observed, and however good, the fractional Kelly size is   *)
(* between nothing and the cap on a position (risk/kelly.py).              *)
THEOREM KellyWithinCap ==
    ASSUME NEW wins \in Nat, NEW trades \in Nat, NEW payoff \in Nat
    PROVE  kelly_position_pct(wins, trades, payoff) \in 0..PositionCap
<1> DEFINE N == trades + PriorN
           P == 100 * wins + PriorN * PriorWin
           B == trades * payoff + PriorN * PriorPayoff
           edge == P * B - (100 * N - P) * 10 * N
<1>1. N \in Nat \ {0}
    BY KellyAssumption
<1>2. B \in Nat \ {0}
  <2>1. trades * payoff \in Nat
      BY Products
  <2>2. PriorN * PriorPayoff \in Nat \ {0}
      BY Products, KellyAssumption
  <2> QED BY <2>1, <2>2
<1>3. P \in Nat
  <2>1. PriorN * PriorWin \in Nat
      BY Products, KellyAssumption
  <2> QED BY <2>1
<1>4. edge \in Int
  <2> HIDE DEF N, P, B
  <2>1. P * B \in Int /\ (100 * N - P) \in Int
      BY <1>1, <1>2, <1>3
  <2>2. (100 * N - P) * 10 * N \in Int
      BY <1>1, <2>1
  <2> QED BY <2>1, <2>2
<1>5. 10 * N * B \in Nat \ {0}
  <2> HIDE DEF N, B
  <2>1. 10 * N \in Nat \ {0}
      BY <1>1
  <2> QED BY <2>1, <1>2, Products
<1>6. CASE edge <= 0
    BY <1>6, KellyAssumption DEF kelly_position_pct
<1>7. CASE edge > 0
  <2> DEFINE sized == (KellyFraction * edge) \div (10 * N * B)
  <2>1. sized \in Nat
    <3> HIDE DEF edge, N, B
    <3>1. KellyFraction * edge \in Nat
        BY <1>4, <1>7, KellyAssumption, Products
    <3> QED BY <3>1, <1>5, Quotient
  <2>2. kelly_position_pct(wins, trades, payoff) = Least(PositionCap, sized)
      BY <1>4, <1>7 DEF kelly_position_pct
  <2> QED BY <2>1, <2>2, KellyAssumption DEF Least
<1> QED BY <1>4, <1>6, <1>7

(* Slippage moves a price by less than itself. *)
LEMMA FillPrices ==
    ASSUME NEW price \in Nat, NEW open \in BOOLEAN
    PROVE  BuyFill(price, open) \in Nat /\ SellFill(price) \in Nat
BY DEF BuyFill, SellFill, Slippage

(* At least one share. *)
LEMMA EntryQtyType ==
    ASSUME NEW size \in Nat, NEW open \in Nat \ {0}
    PROVE  EntryQty(size, open) \in Nat \ {0}
BY Quotient DEF EntryQty, Greatest

-----------------------------------------------------------------------------
(* Types *)

LEMMA BarsType ==
    ASSUME TypeOK, NEW t \in Tickers
    PROVE  /\ bar[t] \in [open : Nat, low : Nat, close : Nat]
           /\ Traded(t) => bar[t] \in Bars
BY MarketAssumption DEF TypeOK, NoBar, Traded

LEMMA NothingType == NoLot \in Lot /\ NoPosition \in Position
BY DEF NoLot, Lot, NoPosition, Position, Scores

(* A fill adds to a lot. *)
LEMMA BoughtType ==
    ASSUME NEW lot \in Lot, NEW qty \in Nat \ {0}, NEW price \in Nat
    PROVE  Bought(lot, qty, price) \in Lot
<1>1. CASE lot = NoLot
    BY <1>1 DEF Bought, Lot
<1>2. CASE lot # NoLot
  <2>1. lot.qty \in Nat /\ lot.avg \in Nat
      BY DEF Lot
  <2>2. lot.qty + qty \in Nat \ {0}
      BY <2>1
  <2>3. lot.avg * lot.qty \in Nat /\ price * qty \in Nat
      BY <2>1, Products
  <2>4. (lot.avg * lot.qty + price * qty) \div (lot.qty + qty) \in Nat
    <3> DEFINE sum == lot.avg * lot.qty + price * qty
               n   == lot.qty + qty
    <3>1. sum \in Nat
        BY <2>3
    <3>2. n \in Nat \ {0}
        BY <2>2
    <3> HIDE DEF sum, n
    <3>3. sum \div n \in Nat
        BY <3>1, <3>2, Quotient
    <3> QED BY <3>3 DEF sum, n
  <2> QED BY <1>2, <2>2, <2>4 DEF Bought, Lot
<1> QED BY <1>1, <1>2

(* What an exit decision may say of a position. *)
LEMMA DecisionType ==
    ASSUME NEW p \in Position, NEW today \in [open : Nat, low : Nat, close : Nat]
    PROVE  LET d == decide_exit(p, today)
           IN  /\ d.action \in {"hold", "halve", "exit"}
               /\ d.qty \in 0..p.qty /\ d.fill \in Nat
               /\ d.peak \in Nat /\ d.halved \in BOOLEAN
               /\ d.action = "exit"  => d.qty = p.qty
               /\ d.action = "halve" => d.qty < p.qty
               /\ d.action = "hold"  => d.qty = 0
<1> DEFINE peak   == Greatest(p.peak, today.open)
           reason == evaluate_stops(p, peak, today.low)
           d      == decide_exit(p, today)
<1>1. p.qty \in Nat /\ p.peak \in Nat /\ p.halved \in BOOLEAN
    BY DEF Position
<1>2. today.open \in Nat /\ today.low \in Nat /\ today.close \in Nat
    OBVIOUS
<1>3. peak \in Nat
    BY <1>1, <1>2 DEF Greatest
<1>4. Greatest(peak, today.close) \in Nat
  <2> HIDE DEF peak
  <2> QED BY <1>3, <1>2 DEF Greatest
<1>5. reason \in {"hard_stop", "trailing_stop", "time_stop", "signal_decay_75",
                  "signal_decay_50", "hold"}
  <2> HIDE DEF peak
  <2> QED BY DEF evaluate_stops
<1>6. /\ d.action = CASE reason = "hold" -> "hold"
                      [] reason = "signal_decay_50" ->
                             IF p.qty \div 2 = 0 THEN "hold" ELSE "halve"
                      [] OTHER -> "exit"
      /\ d.qty = CASE reason = "hold" -> 0
                   [] reason = "signal_decay_50" -> p.qty \div 2
                   [] OTHER -> p.qty
      /\ d.fill = IF reason \in PriceTriggered THEN today.low ELSE today.close
      /\ d.peak = Greatest(peak, today.close)
      /\ d.halved = (p.halved \/ reason = "signal_decay_50")
    BY DEF decide_exit
<1>7. p.qty \div 2 \in 0..p.qty /\ (p.qty \div 2 # 0 => p.qty \div 2 < p.qty)
    BY <1>1
<1> HIDE DEF peak, reason, d
<1>8. d.fill \in Nat /\ d.peak \in Nat /\ d.halved \in BOOLEAN
    BY <1>1, <1>2, <1>4, <1>6
<1>9. /\ d.action \in {"hold", "halve", "exit"} /\ d.qty \in 0..p.qty
      /\ d.action = "exit"  => d.qty = p.qty
      /\ d.action = "halve" => d.qty < p.qty
      /\ d.action = "hold"  => d.qty = 0
    BY <1>1, <1>5, <1>6, <1>7
<1> QED BY <1>8, <1>9 DEF d

LEMMA AgedType ==
    ASSUME TypeOK, NEW t \in Tickers
    PROVE  /\ Aged(t) \in Position
           /\ Aged(t).qty = book[t].qty /\ Aged(t).entry = book[t].entry
<1>1. book[t] \in Position /\ bar[t] \in [open : Nat, low : Nat, close : Nat]
    BY BarsType DEF TypeOK
<1>2. book[t].bars + 1 \in Nat /\ bar[t].close \in Nat
    BY <1>1 DEF Position
<1> QED BY <1>1, <1>2 DEF Aged, Position

(* What is sold of a position, and at what price. *)
LEMMA SoldType ==
    ASSUME TypeOK, NEW t \in Tickers
    PROVE  /\ Decision(t).action \in {"hold", "halve", "exit"}
           /\ Decision(t).qty \in 0..book[t].qty
           /\ Decision(t).fill \in Nat /\ Decision(t).peak \in Nat
           /\ Decision(t).halved \in BOOLEAN
           /\ Decision(t).action = "exit"  => Decision(t).qty = book[t].qty
           /\ Decision(t).action = "halve" => Decision(t).qty < book[t].qty
           /\ Decision(t).action = "hold"  => Decision(t).qty = 0
           /\ book[t].qty \in Nat /\ lots[t].qty \in Nat
           /\ SoldQty(t) \in Nat /\ SoldQty(t) <= book[t].qty /\ SoldQty(t) <= lots[t].qty
<1>1. Aged(t) \in Position /\ Aged(t).qty = book[t].qty
    BY AgedType
<1>2. bar[t] \in [open : Nat, low : Nat, close : Nat]
    BY BarsType
<1>3. book[t].qty \in Nat /\ lots[t].qty \in Nat
    BY DEF TypeOK, Position, Lot
<1>4. /\ Decision(t).action \in {"hold", "halve", "exit"}
      /\ Decision(t).qty \in 0..book[t].qty
      /\ Decision(t).fill \in Nat /\ Decision(t).peak \in Nat
      /\ Decision(t).halved \in BOOLEAN
      /\ Decision(t).action = "exit"  => Decision(t).qty = book[t].qty
      /\ Decision(t).action = "halve" => Decision(t).qty < book[t].qty
      /\ Decision(t).action = "hold"  => Decision(t).qty = 0
    BY <1>1, <1>2, DecisionType, Zenon DEF Decision
<1>5. SoldQty(t) \in Nat /\ SoldQty(t) <= book[t].qty /\ SoldQty(t) <= lots[t].qty
    BY <1>3, <1>4 DEF SoldQty, Least
<1> QED BY <1>3, <1>4, <1>5

LEMMA AfterExitType ==
    ASSUME TypeOK, NEW t \in Tickers
    PROVE  AfterExit(t) \in Position
<1>1. Aged(t) \in Position /\ Aged(t).qty = book[t].qty
    BY AgedType
<1>2. Decision(t).peak \in Nat /\ Decision(t).halved \in BOOLEAN
    BY SoldType
<1>3. Aged(t).qty - SoldQty(t) \in Nat
    BY <1>1, SoldType
<1> QED BY <1>1, <1>2, <1>3, NothingType DEF AfterExit, Position

LEMMA RemainingType ==
    ASSUME TypeOK, NEW t \in Tickers
    PROVE  Remaining(t) \in Lot
<1>1. lots[t] \in Lot /\ lots[t].qty - SoldQty(t) \in Nat
    BY SoldType DEF TypeOK
<1> QED BY <1>1, NothingType DEF Remaining, Lot

(* Entries are counted. *)
LEMMA LogBought ==
    ASSUME log \in [bought : Nat, wins : Nat, losses : Nat, even : Nat, realized : Int],
           NEW n \in Nat
    PROVE  [log EXCEPT !.bought = @ + n]
              \in [bought : Nat, wins : Nat, losses : Nat, even : Nat, realized : Int]
<1>1. log.bought + n \in Nat
    OBVIOUS
<1> QED BY <1>1

LEMMA FinitePart == ASSUME NEW S \in SUBSET Tickers PROVE IsFiniteSet(S) /\ Cardinality(S) \in Nat
BY TickersAssumption, FS_Subset, FS_CardinalityType

(* On today's bars the queued entries `filled' are bought in these         *)
(* quantities at these prices.                                             *)
Fills(today, filled, qty, price) ==
    /\ kill.active => filled = {}
    /\ \A t \in filled : today[t] # NoBar
    /\ bar' = today
    /\ closes' = [t \in Tickers |-> IF today[t] = NoBar THEN closes[t]
                                    ELSE today[t].close]
    /\ cash' = cash - SumFunction([t \in filled |->
                          price[t] * qty[t] + Commission(qty[t])])
    /\ lots' = [t \in Tickers |-> IF t \in filled
                                  THEN Bought(lots[t], qty[t], price[t])
                                  ELSE lots[t]]
    /\ book' = [t \in Tickers |-> IF t \in filled
                                  THEN new_position_meta(qty[t], price[t])
                                  ELSE book[t]]
    /\ log' = [log EXCEPT !.bought = @ + Cardinality(filled)]

(* The open fills some of what is queued, and nothing of a killed account. *)
LEMMA OpenFills ==
    ASSUME TypeOK, Open
    PROVE  \E today \in [Tickers -> Bars \cup {NoBar}], filled \in SUBSET Queued :
           \E qty \in [filled -> Nat \ {0}], price \in [filled -> Nat] :
              Fills(today, filled, qty, price)
<1>0. PICK today \in [Tickers -> Bars \cup {NoBar}] :
          LET filled   == {t \in Tickers : Filling(t, today)}
              qty(t)   == EntryQty(pending[t], today[t].open)
              price(t) == BuyFill(today[t].open, TRUE)
              cost(t)  == price(t) * qty(t) + Commission(qty(t))
          IN  /\ bar' = today
              /\ closes' = [t \in Tickers |-> IF today[t] = NoBar THEN closes[t]
                                              ELSE today[t].close]
              /\ cash' = cash - SumFunction([t \in filled |-> cost(t)])
              /\ lots' = [t \in Tickers |-> IF t \in filled
                                            THEN Bought(lots[t], qty(t), price(t))
                                            ELSE lots[t]]
              /\ book' = [t \in Tickers |-> IF t \in filled
                                            THEN new_position_meta(qty(t), price(t))
                                            ELSE book[t]]
              /\ log' = [log EXCEPT !.bought = @ + Cardinality(filled)]
    BY DEF Open
<1> DEFINE filled == {t \in Tickers : Filling(t, today)}
           qty    == [t \in filled |-> EntryQty(pending[t], today[t].open)]
           price  == [t \in filled |-> BuyFill(today[t].open, TRUE)]
           cost   == [t \in filled |-> price[t] * qty[t] + Commission(qty[t])]
<1>1. /\ filled \in SUBSET Queued /\ (kill.active => filled = {})
      /\ \A t \in filled : today[t] # NoBar
    BY DEF Filling, Queued
<1>2. qty \in [filled -> Nat \ {0}] /\ price \in [filled -> Nat]
  <2> SUFFICES ASSUME NEW t \in filled
               PROVE  /\ EntryQty(pending[t], today[t].open) \in Nat \ {0}
                      /\ BuyFill(today[t].open, TRUE) \in Nat
      BY <1>0
  <2>1. today[t] \in Bars
      BY <1>0 DEF Filling
  <2>2. today[t].open \in Nat \ {0} /\ pending[t] \in Nat
      BY <2>1, MarketAssumption DEF TypeOK
  <2> QED BY <2>2, EntryQtyType, FillPrices
<1>3. /\ cash' = cash - SumFunction(cost)
      /\ lots' = [t \in Tickers |-> IF t \in filled THEN Bought(lots[t], qty[t], price[t])
                                    ELSE lots[t]]
      /\ book' = [t \in Tickers |-> IF t \in filled THEN new_position_meta(qty[t], price[t])
                                    ELSE book[t]]
      /\ log' = [log EXCEPT !.bought = @ + Cardinality(filled)]
    BY <1>0
<1>4. /\ bar' = today
      /\ closes' = [t \in Tickers |-> IF today[t] = NoBar THEN closes[t] ELSE today[t].close]
    BY <1>0
<1> HIDE DEF filled, qty, price
<1>5. Fills(today, filled, qty, price)
    BY <1>1, <1>3, <1>4 DEF Fills, cost
<1> QED BY <1>1, <1>2, <1>5, Zenon

(* Every phase keeps the types. *)
LEMMA OpenTypes == ASSUME TypeOK, Open PROVE TypeOK'
<1>0. PICK today \in [Tickers -> Bars \cup {NoBar}], filled \in SUBSET Queued :
           \E qty \in [filled -> Nat \ {0}], price \in [filled -> Nat] :
              Fills(today, filled, qty, price)
    BY OpenFills
<1>1. PICK qty \in [filled -> Nat \ {0}], price \in [filled -> Nat] :
           Fills(today, filled, qty, price)
    BY <1>0
<1>a. filled \subseteq Tickers
    BY DEF Queued
<1>2. lots' \in [Tickers -> Lot]
  <2>1. \A t \in filled : Bought(lots[t], qty[t], price[t]) \in Lot
      BY <1>a, BoughtType DEF TypeOK
  <2> QED BY <1>1, <2>1 DEF Fills, TypeOK
<1>3. book' \in [Tickers -> Position]
  <2>1. \A t \in filled : new_position_meta(qty[t], price[t]) \in Position
      BY DEF new_position_meta, Position, Scores
  <2> QED BY <1>1, <2>1 DEF Fills, TypeOK
<1>4. closes' \in [Tickers -> Nat]
  <2>1. \A t \in Tickers : today[t] # NoBar => today[t].close \in Nat
      BY MarketAssumption
  <2> QED BY <1>1, <2>1 DEF Fills, TypeOK
<1>5. log' \in [bought : Nat, wins : Nat, losses : Nat, even : Nat, realized : Int]
  <2>1. Cardinality(filled) \in Nat
      BY <1>a, FinitePart
  <2> QED BY <1>1, <2>1, LogBought, Zenon DEF Fills, TypeOK
<1>6. pending' \in [Tickers -> Nat]
    BY DEF Open, Cleared
<1>7. cash' \in Int
  <2> DEFINE cost == [t \in filled |-> price[t] * qty[t] + Commission(qty[t])]
  <2>1. cost \in [filled -> Int]
    <3>1. \A t \in filled : price[t] * qty[t] \in Nat
        BY Products
    <3> QED BY <3>1 DEF Commission
  <2> HIDE DEF cost
  <2>2. SumFunction(cost) \in Int
      BY <1>a, <2>1, FinitePart, TotalInt
  <2>3. cash' = cash - SumFunction(cost)
      BY <1>1 DEF Fills, cost
  <2> QED BY <2>2, <2>3 DEF TypeOK
<1>8. bar' \in [Tickers -> Bars \cup {NoBar}] /\ pc' = "scan"
    BY <1>1 DEF Fills, Open
<1>9. UNCHANGED <<session, equity, ranked, telemetry>>
    BY DEF Open
<1> QED BY <1>2, <1>3, <1>4, <1>5, <1>6, <1>7, <1>8, <1>9 DEF TypeOK, telemetry

LEMMA ScanTypes == ASSUME TypeOK, Scan PROVE TypeOK'
<1> PICK score \in [Held -> Scores] :
          book' = [t \in Tickers |-> IF t \in Held THEN [book[t] EXCEPT !.score = score[t]]
                                     ELSE book[t]]
    BY DEF Scan
<1>1. book' \in [Tickers -> Position]
  <2>1. \A t \in Held : [book[t] EXCEPT !.score = score[t]] \in Position
      BY DEF TypeOK, Position, Held
  <2> QED BY <2>1 DEF TypeOK
<1>2. ranked' \in SUBSET Tickers /\ pc' = "manage"
    BY DEF Scan
<1>3. UNCHANGED <<session, bar, account, pending, log, telemetry, closes>>
    BY DEF Scan
<1> QED BY <1>1, <1>2, <1>3 DEF TypeOK, account, telemetry

(* What is realized on a sale is a number. *)
LEMMA RealizedType == ASSUME TypeOK, NEW t \in Tickers PROVE Realized(t) \in Int
<1>1. /\ SoldQty(t) \in Nat /\ Decision(t).fill \in Nat
      /\ book[t].entry \in Nat
    BY SoldType DEF TypeOK, Position
<1>2. SellFill(Decision(t).fill) \in Nat
    BY <1>1, FillPrices
<1> DEFINE fill == SellFill(Decision(t).fill)
           qty  == SoldQty(t)
<1>3. Realized(t) = (fill - book[t].entry) * qty - 5 * qty - 5 * qty
    BY DEF Realized, realized_pnl, Commission
<1>4. fill \in Nat /\ qty \in Nat
    BY <1>1, <1>2
<1> HIDE DEF fill, qty
<1>5. (fill - book[t].entry) * qty \in Int
    BY <1>1, <1>4
<1> QED BY <1>3, <1>4, <1>5

LEMMA ProceedsType == ASSUME TypeOK, NEW t \in Tickers PROVE Proceeds(t) \in Int
<1>1. SoldQty(t) \in Nat /\ SellFill(Decision(t).fill) \in Nat
    BY SoldType, FillPrices
<1> DEFINE fill == SellFill(Decision(t).fill)
           qty  == SoldQty(t)
<1>2. Proceeds(t) = fill * qty - 5 * qty
    BY DEF Proceeds, Commission
<1> HIDE DEF fill, qty
<1>3. fill * qty \in Int
    BY <1>1, Products DEF fill, qty
<1>4. qty \in Int
    BY <1>1 DEF qty
<1> QED BY <1>2, <1>3, <1>4

LEMMA SellingPart == Selling \in SUBSET Tickers /\ Trades \in SUBSET Tickers
BY DEF Trades, Selling, Managed, Held

(* What is held is worth a number. *)
LEMMA WorthType ==
    ASSUME TypeOK
    PROVE  /\ \A t \in Tickers : MarkOf(t) \in Nat /\ Worth(t) \in Nat
           /\ Notional \in Int
<1>1. ASSUME NEW t \in Tickers PROVE MarkOf(t) \in Nat /\ Worth(t) \in Nat
  <2>1. /\ lots[t].qty \in Nat /\ lots[t].avg \in Nat
        /\ book[t].mark \in Nat
      BY DEF TypeOK, Lot, Position
  <2>2. MarkOf(t) \in Nat
      BY <2>1 DEF MarkOf
  <2>3. lots[t].qty * MarkOf(t) \in Nat
      BY <2>1, <2>2, Products
  <2> QED BY <2>2, <2>3 DEF Worth
<1>2. Owned \in SUBSET Tickers
    BY DEF Owned
<1>3. [t \in Owned |-> Worth(t)] \in [Owned -> Int]
    BY <1>1, <1>2
<1> QED BY <1>1, <1>2, <1>3, FinitePart, TotalInt DEF Notional

LEMMA ManageTypes == ASSUME TypeOK, Manage PROVE TypeOK'
<1>1. book' \in [Tickers -> Position]
    BY AfterExitType DEF Manage, TypeOK
<1>2. lots' \in [Tickers -> Lot]
    BY RemainingType DEF Manage, TypeOK
<1>3. log' \in [bought : Nat, wins : Nat, losses : Nat, even : Nat, realized : Int]
  <2> DEFINE won  == Cardinality({t \in Trades : Realized(t) > 0})
             lost == Cardinality({t \in Trades : Realized(t) < 0})
             even == Cardinality({t \in Trades : Realized(t) = 0})
             sum  == SumFunction([t \in Selling |-> Realized(t)])
  <2>1. Trades \subseteq Tickers
      BY DEF Trades, Selling, Managed, Held
  <2>2. won \in Nat /\ lost \in Nat /\ even \in Nat
      BY <2>1, FinitePart
  <2>3. log' = [log EXCEPT !.wins = @ + won, !.losses = @ + lost, !.even = @ + even,
                           !.realized = @ + sum]
      BY DEF Manage
  <2>4. sum \in Int
      BY SellingPart, RealizedType, FinitePart, TotalInt
  <2> HIDE DEF won, lost, even, sum
  <2>5. log \in [bought : Nat, wins : Nat, losses : Nat, even : Nat, realized : Int]
      BY DEF TypeOK
  <2>6. log.realized + sum \in Int
      BY <2>4, <2>5
  <2>7. log.wins + won \in Nat /\ log.losses + lost \in Nat /\ log.even + even \in Nat
      BY <2>2, <2>5
  <2> QED BY <2>3, <2>5, <2>6, <2>7
<1>4. cash' \in Int
  <2>1. SumFunction([t \in Selling |-> Proceeds(t)]) \in Int
      BY SellingPart, ProceedsType, FinitePart, TotalInt
  <2> QED BY <2>1 DEF TypeOK, Manage
<1>4a. gapped' \in BOOLEAN /\ pc' \in {"close", "mark"}
    BY DEF Manage
<1>5. UNCHANGED <<session, bar, equity, ranked, pending, curve, kill, closes>>
    BY DEF Manage
<1> QED BY <1>1, <1>2, <1>3, <1>4, <1>4a, <1>5 DEF TypeOK

LEMMA MarkTypes == ASSUME TypeOK, Mark PROVE TypeOK'
BY WorthType DEF TypeOK, Mark, mark_to_market, telemetry

LEMMA TargetType ==
    ASSUME TypeOK, NEW payoff \in ObservedPayoffs
    PROVE  TargetSize(payoff) \in Int
<1> DEFINE trades == log.wins + log.losses + log.even
           pct == kelly_position_pct(log.wins, trades, payoff)
<1>1. payoff \in Nat
    BY MarketAssumption, KellyAssumption DEF ObservedPayoffs
<1>2. log.wins \in Nat /\ trades \in Nat
    BY DEF TypeOK
<1>3. TargetSize(payoff) = (equity * pct) \div 1000
    BY DEF TargetSize
<1> HIDE DEF trades
<1>4. pct \in 0..PositionCap
    BY <1>1, <1>2, KellyWithinCap
<1> HIDE DEF pct
<1>5. pct \in Int
    BY <1>4, KellyAssumption
<1>6. equity * pct \in Int
    BY <1>5 DEF TypeOK
<1> QED BY <1>3, <1>6

LEMMA ProposeTypes == ASSUME TypeOK, Propose PROVE TypeOK'
<1> PICK t \in ranked, soon \in BOOLEAN, payoff \in ObservedPayoffs :
          LET target == TargetSize(payoff)
              size   == AdjustedSize(target, soon)
          IN  /\ ranked' = ranked \ {t}
              /\ pending' =
                   IF target > 0 /\ Affordable(t, size, equity, Notional + Reserved,
                                               Owned \cup Queued, Cardinality(Queued))
                   THEN [pending EXCEPT ![t] = size] ELSE pending
    BY DEF Propose
<1> DEFINE target == TargetSize(payoff)
           size   == AdjustedSize(target, soon)
<1>1. target \in Int
    BY TargetType
<1>2. target > 0 => size \in Nat \ {0}
  <2> HIDE DEF target
  <2> QED BY <1>1 DEF AdjustedSize
<1>3. pending' \in [Tickers -> Nat]
  <2> HIDE DEF target, size
  <2>1. pending \in [Tickers -> Nat] /\ t \in Tickers
      BY DEF TypeOK
  <2>2. pending' = pending \/ (target > 0 /\ pending' = [pending EXCEPT ![t] = size])
      BY DEF target, size
  <2> QED BY <1>2, <2>1, <2>2
<1>4. ranked' \in SUBSET Tickers
    BY DEF TypeOK
<1>5. pc' \in {"close", "propose"}
    BY DEF Propose
<1>6. UNCHANGED <<session, bar, account, book, log, telemetry, closes>>
    BY DEF Propose
<1> QED BY <1>3, <1>4, <1>5, <1>6 DEF TypeOK, account, telemetry

(* A day that was opened is one of the sessions. *)
Running == pc # "open" => session <= LastSession

LEMMA CloseTypes == ASSUME TypeOK, Running, Close PROVE TypeOK'
<1>1. session \in 1..LastSession
    BY CalendarAssumption DEF TypeOK, Running, Close
<1>2. equity' \in Int /\ curve' = Append(curve, equity')
    BY WorthType DEF TypeOK, Close, mark_to_market, record_equity
<1>3. session' = session + 1 /\ session' \in 1..(LastSession + 1)
    BY <1>1, CalendarAssumption DEF Close
<1>4. curve' \in Seq(Int) /\ Len(curve') = session' - 1
    BY <1>1, <1>2, <1>3 DEF TypeOK
<1>5. kill' \in [active : BOOLEAN, tripped : {NoTrip} \cup Nat]
  <2> DEFINE verdict == Verdict(curve')
             now     == CalendarDay[session]
  <2>1. now \in Nat
      BY <1>1, CalendarAssumption
  <2>2. kill' = advance_killswitch(kill, verdict, now)
      BY DEF Close
  <2>3. kill \in [active : BOOLEAN, tripped : {NoTrip} \cup Nat]
      BY DEF TypeOK
  <2> HIDE DEF verdict, now
  <2>4. [kill EXCEPT !.active = TRUE] \in [active : BOOLEAN, tripped : {NoTrip} \cup Nat]
      BY <2>3
  <2>5. (IF kill.active THEN kill.tripped ELSE now) \in {NoTrip} \cup Nat
      BY <2>1, <2>3
  <2>6. /\ \A x \in {NoTrip} \cup Nat : [active |-> TRUE, tripped |-> x]
                                            \in [active : BOOLEAN, tripped : {NoTrip} \cup Nat]
        /\ [active |-> FALSE, tripped |-> NoTrip]
              \in [active : BOOLEAN, tripped : {NoTrip} \cup Nat]
      OBVIOUS
  <2> QED BY <2>2, <2>4, <2>5, <2>6, Zenon DEF advance_killswitch
<1>6. gapped' \in BOOLEAN /\ pc' = "open"
    BY DEF Close
<1>7. bar' \in [Tickers -> Bars \cup {NoBar}]
    BY DEF Close
<1>8. closes' \in [Tickers -> Nat]
    BY DEF Close, TypeOK
<1>9. UNCHANGED <<cash, lots, book, ranked, pending, log>>
    BY DEF Close
<1> QED BY <1>2, <1>3, <1>4, <1>5, <1>6, <1>7, <1>8, <1>9 DEF TypeOK

LEMMA InitTypes == Init => TypeOK /\ Running
<1> SUFFICES ASSUME Init PROVE TypeOK /\ Running
    OBVIOUS
<1>1. lots \in [Tickers -> Lot] /\ book \in [Tickers -> Position]
    BY NothingType DEF Init
<1>2. cash \in Int /\ equity \in Int
    BY MarketAssumption DEF Init
<1>3. session \in 1..(LastSession + 1) /\ session = 1
    BY CalendarAssumption DEF Init
<1>4. curve \in Seq(Int) /\ Len(curve) = session - 1
    BY <1>3 DEF Init
<1>5. log \in [bought : Nat, wins : Nat, losses : Nat, even : Nat, realized : Int]
    BY DEF Init
<1>6. bar \in [Tickers -> Bars \cup {NoBar}] /\ pending \in [Tickers -> Nat]
      /\ closes \in [Tickers -> Nat]
    BY DEF Init
<1>7. kill \in [active : BOOLEAN, tripped : {NoTrip} \cup Nat]
    BY DEF Init
<1>8. pc = "open" /\ ranked \in SUBSET Tickers /\ gapped \in BOOLEAN
    BY DEF Init
<1> QED BY <1>1, <1>2, <1>3, <1>4, <1>5, <1>6, <1>7, <1>8 DEF TypeOK, Running

LEMMA NextTypes == ASSUME TypeOK, Running, [Next]_vars PROVE TypeOK' /\ Running'
<1>1. CASE Open
    BY <1>1, OpenTypes DEF Running, Open
<1>2. CASE Scan
    BY <1>2, ScanTypes DEF Running, Scan
<1>3. CASE Manage
    BY <1>3, ManageTypes DEF Running, Manage
<1>4. CASE Mark
    BY <1>4, MarkTypes DEF Running, Mark
<1>5. CASE Propose
    BY <1>5, ProposeTypes DEF Running, Propose
<1>6. CASE Close
    BY <1>6, CloseTypes DEF Running, Close
<1>7. CASE UNCHANGED vars
    BY <1>7 DEF vars, account, telemetry, TypeOK, Running
<1> QED BY <1>1, <1>2, <1>3, <1>4, <1>5, <1>6, <1>7 DEF Next

(* The account, the book, the queue and the log keep their types.  No      *)
(* quantity is ever negative: neither the broker nor the book is short.    *)
THEOREM TypeCorrect == Spec => []TypeOK
<1>1. Spec => [](TypeOK /\ Running)
    BY InitTypes, NextTypes, PTL DEF Spec
<1> QED BY <1>1, PTL

-----------------------------------------------------------------------------
(* The broker and the book *)

(* What is in the book is a position of at least a share. *)
Whole == \A t \in Held : book[t].qty > 0

(* A name is not queued while it is held. *)
Apart == Queued \cap Held = {}

LEMMA Consistent ==
    ASSUME TypeOK, BookMatchesBroker, Whole
    PROVE  Owned = Held
<1>1. \A t \in Tickers : lots[t].qty = book[t].qty
  <2> SUFFICES ASSUME NEW t \in Tickers PROVE lots[t].qty = book[t].qty
      OBVIOUS
  <2>1. lots[t] = [qty |-> book[t].qty, avg |-> book[t].entry]
      BY DEF BookMatchesBroker
  <2> QED BY <2>1
<1>2. \A t \in Tickers : book[t] = NoPosition => book[t].qty = 0
    BY DEF NoPosition
<1>3. \A t \in Held : lots[t].qty > 0
    BY <1>1 DEF Whole, Held
<1>4. \A t \in Owned : book[t] # NoPosition
    BY <1>1, <1>2 DEF Owned
<1> QED BY <1>3, <1>4 DEF Owned, Held

(* An exit takes the whole lot with it, a halve less. *)
LEMMA SaleAgrees ==
    ASSUME TypeOK, BookMatchesBroker, Whole, NEW t \in Managed
    PROVE  LET after == AfterExit(t)
               left  == IF t \in Selling THEN Remaining(t) ELSE lots[t]
           IN  /\ left = [qty |-> after.qty, avg |-> after.entry]
               /\ after = NoPosition <=> t \in Trades
               /\ t \notin Trades => after.qty > 0
               /\ left.qty <= lots[t].qty
<1> DEFINE after == AfterExit(t)
           left  == IF t \in Selling THEN Remaining(t) ELSE lots[t]
           sold  == SoldQty(t)
           d     == Decision(t)
<1>1. t \in Tickers /\ book[t] # NoPosition /\ book[t].qty \in Nat /\ book[t].qty > 0
    BY DEF Managed, Held, Whole, TypeOK, Position
<1>2. lots[t] = [qty |-> book[t].qty, avg |-> book[t].entry]
    BY <1>1 DEF BookMatchesBroker
<1>3. /\ sold = d.qty /\ sold \in 0..book[t].qty
      /\ d.action \in {"hold", "halve", "exit"}
      /\ d.action = "exit"  => sold = book[t].qty
      /\ d.action = "halve" => sold < book[t].qty
      /\ d.action = "hold"  => sold = 0
  <2>1. sold = Least(d.qty, lots[t].qty)
      BY DEF SoldQty
  <2>2. lots[t].qty = book[t].qty
      BY <1>2
  <2>3. d.qty \in 0..book[t].qty
      BY <1>1, SoldType
  <2>4. sold = d.qty
      BY <1>1, <2>1, <2>2, <2>3 DEF Least
  <2> QED BY <1>1, <2>3, <2>4, SoldType
<1>4. t \in Selling <=> sold > 0
    BY DEF Selling
<1>5. t \in Trades <=> d.action = "exit"
    BY <1>1, <1>3, <1>4 DEF Trades
<1>6. Aged(t) \in Position /\ Aged(t).qty = book[t].qty /\ Aged(t).entry = book[t].entry
    BY <1>1, AgedType
<1>7. CASE d.action = "exit"
  <2>1. after = NoPosition
      BY <1>5, <1>7 DEF AfterExit, Trades
  <2>2. left = NoLot
      BY <1>1, <1>2, <1>3, <1>4, <1>7 DEF Remaining
  <2> QED BY <1>1, <1>2, <1>5, <1>7, <2>1, <2>2 DEF NoPosition, NoLot
<1>8. CASE d.action # "exit"
  <2>1. after = [Aged(t) EXCEPT !.peak = d.peak, !.halved = d.halved, !.qty = @ - sold]
      BY <1>8 DEF AfterExit
  <2>2. after.qty = book[t].qty - sold /\ after.entry = book[t].entry
      BY <1>6, <2>1 DEF Position
  <2>3. sold < book[t].qty
      BY <1>1, <1>3, <1>8
  <2>4. left = [qty |-> book[t].qty - sold, avg |-> book[t].entry]
    <3>1. CASE t \in Selling
      <4>1. left = [lots[t] EXCEPT !.qty = @ - sold]
          BY <1>1, <1>2, <1>3, <2>3, <3>1 DEF Remaining
      <4> QED BY <1>2, <4>1
    <3>2. CASE t \notin Selling
      <4>1. sold = 0
          BY <1>3, <1>4, <3>2
      <4>2. book[t].qty - sold = book[t].qty
          BY <1>1, <4>1
      <4> QED BY <1>2, <3>2, <4>2
    <3> QED BY <3>1, <3>2
  <2>5. after.qty > 0 /\ after # NoPosition
      BY <1>1, <1>3, <2>2, <2>3 DEF NoPosition
  <2>6. left.qty <= lots[t].qty
      BY <1>1, <1>2, <1>3, <2>4
  <2> QED BY <1>5, <1>8, <2>2, <2>4, <2>5, <2>6
<1> QED BY <1>7, <1>8

(* Fills of queued names add positions on which the two records agree. *)
LEMMA FillsAgree ==
    ASSUME TypeOK, BookMatchesBroker, Whole, Apart,
           NEW filled \in SUBSET Queued,
           NEW qty \in [filled -> Nat \ {0}], NEW price \in [filled -> Nat],
           lots' = [t \in Tickers |-> IF t \in filled THEN Bought(lots[t], qty[t], price[t])
                                      ELSE lots[t]],
           book' = [t \in Tickers |-> IF t \in filled THEN new_position_meta(qty[t], price[t])
                                      ELSE book[t]]
    PROVE  /\ BookMatchesBroker' /\ Whole'
           /\ Held' = Held \cup filled
           /\ \A t \in Tickers \ filled : lots'[t] = lots[t]
<1>1. \A t \in filled : /\ lots'[t] = [qty |-> qty[t], avg |-> price[t]]
                        /\ book'[t].qty = qty[t] /\ book'[t].entry = price[t]
                        /\ book'[t] # NoPosition
  <2> SUFFICES ASSUME NEW t \in filled
               PROVE  /\ lots'[t] = [qty |-> qty[t], avg |-> price[t]]
                      /\ book'[t].qty = qty[t] /\ book'[t].entry = price[t]
                      /\ book'[t] # NoPosition
      OBVIOUS
  <2>1. t \in Tickers /\ book[t] = NoPosition
      BY DEF Apart, Queued, Held
  <2>2. lots[t] = [qty |-> book[t].qty, avg |-> book[t].entry]
      BY <2>1 DEF BookMatchesBroker
  <2>3. lots[t] = NoLot
      BY <2>1, <2>2 DEF NoPosition, NoLot
  <2>4. lots'[t] = Bought(lots[t], qty[t], price[t])
      BY <2>1
  <2>5. lots'[t] = [qty |-> qty[t], avg |-> price[t]]
      BY <2>3, <2>4 DEF Bought
  <2>6. book'[t] = new_position_meta(qty[t], price[t])
      BY <2>1
  <2>7. book'[t].qty = qty[t] /\ book'[t].entry = price[t]
      BY <2>6 DEF new_position_meta
  <2>8. qty[t] \in Nat \ {0}
      OBVIOUS
  <2>9. book'[t] # NoPosition
      BY <2>7, <2>8 DEF NoPosition
  <2> QED BY <2>5, <2>7, <2>9
<1>2. \A t \in Tickers \ filled : lots'[t] = lots[t] /\ book'[t] = book[t]
    OBVIOUS
<1>3. BookMatchesBroker'
  <2> SUFFICES ASSUME NEW t \in Tickers
               PROVE  lots'[t] = [qty |-> book'[t].qty, avg |-> book'[t].entry]
      BY DEF BookMatchesBroker
  <2>1. CASE t \in filled
      BY <1>1, <2>1
  <2>2. CASE t \notin filled
      BY <1>2, <2>2 DEF BookMatchesBroker
  <2> QED BY <2>1, <2>2
<1>4. Held' = Held \cup filled
    BY <1>1, <1>2 DEF Held, Queued
<1>5. Whole'
  <2> SUFFICES ASSUME NEW t \in Held' PROVE book'[t].qty > 0
      BY DEF Whole
  <2>1. CASE t \in filled
    <3>1. qty[t] > 0
        BY <2>1
    <3> QED BY <1>1, <2>1, <3>1
  <2>2. CASE t \notin filled
      BY <1>2, <1>4, <2>2 DEF Whole, Held
  <2> QED BY <2>1, <2>2
<1> QED BY <1>2, <1>3, <1>4, <1>5

LEMMA OpenAccount ==
    ASSUME TypeOK, BookMatchesBroker, Whole, Apart, Open
    PROVE  /\ BookMatchesBroker' /\ Whole' /\ Apart'
           /\ \E S \in SUBSET Queued :
                 /\ Held' = Held \cup S
                 /\ log' = [log EXCEPT !.bought = @ + Cardinality(S)]
                 /\ kill.active => S = {}
                 /\ \A t \in Tickers \ S : lots'[t] = lots[t]
<1>0. PICK today \in [Tickers -> Bars \cup {NoBar}], filled \in SUBSET Queued :
           \E qty \in [filled -> Nat \ {0}], price \in [filled -> Nat] :
              Fills(today, filled, qty, price)
    BY OpenFills
<1>1. PICK qty \in [filled -> Nat \ {0}], price \in [filled -> Nat] :
           Fills(today, filled, qty, price)
    BY <1>0
<1>2. /\ BookMatchesBroker' /\ Whole'
      /\ Held' = Held \cup filled
      /\ \A t \in Tickers \ filled : lots'[t] = lots[t]
    BY <1>1, FillsAgree DEF Fills
<1>3. Apart'
  <2>1. pending' = [t \in Tickers |-> 0]
      BY DEF Open, Cleared
  <2>2. Queued' = {}
      BY <2>1 DEF Queued
  <2> QED BY <2>2 DEF Apart
<1> QED BY <1>1, <1>2, <1>3 DEF Fills

LEMMA ScanAccount ==
    ASSUME TypeOK, BookMatchesBroker, Whole, Apart, Scan
    PROVE  BookMatchesBroker' /\ Whole' /\ Apart' /\ Held' = Held
<1> PICK score \in [Held -> Scores] :
          book' = [t \in Tickers |-> IF t \in Held THEN [book[t] EXCEPT !.score = score[t]]
                                     ELSE book[t]]
    BY DEF Scan
<1>1. \A t \in Tickers : book'[t].qty = book[t].qty /\ book'[t].entry = book[t].entry
  <2> SUFFICES ASSUME NEW t \in Tickers
               PROVE  book'[t].qty = book[t].qty /\ book'[t].entry = book[t].entry
      OBVIOUS
  <2>1. book[t] \in Position
      BY DEF TypeOK
  <2>2. book'[t] = book[t] \/ book'[t] = [book[t] EXCEPT !.score = score[t]]
      OBVIOUS
  <2> QED BY <2>1, <2>2 DEF Position
<1>2. \A t \in Tickers : book'[t] # NoPosition <=> book[t] # NoPosition
  <2> SUFFICES ASSUME NEW t \in Tickers
               PROVE  book'[t] # NoPosition <=> book[t] # NoPosition
      OBVIOUS
  <2>1. CASE t \in Held
      BY <1>1, <2>1 DEF Whole, Held, NoPosition
  <2>2. CASE t \notin Held
      BY <2>2
  <2> QED BY <2>1, <2>2
<1>3. Held' = Held
    BY <1>2 DEF Held
<1>4. lots' = lots /\ pending' = pending
    BY DEF Scan, account
<1>5. BookMatchesBroker'
    BY <1>1, <1>4 DEF BookMatchesBroker
<1>6. Whole' /\ Apart'
    BY <1>1, <1>3, <1>4 DEF Whole, Apart, Queued, Held
<1> QED BY <1>3, <1>5, <1>6

LEMMA ManageAccount ==
    ASSUME TypeOK, BookMatchesBroker, Whole, Apart, Manage
    PROVE  /\ BookMatchesBroker' /\ Whole' /\ Apart'
           /\ Held' = Held \ Trades
           /\ \A t \in Tickers : lots'[t].qty <= lots[t].qty
<1> DEFINE left(t) == IF t \in Selling THEN Remaining(t) ELSE lots[t]
<1>1. /\ book' = [t \in Tickers |-> IF t \in Managed THEN AfterExit(t) ELSE book[t]]
      /\ lots' = [t \in Tickers |-> left(t)]
      /\ pending' = pending
    BY DEF Manage
<1>2. Trades \subseteq Managed /\ Selling \subseteq Managed /\ Managed \subseteq Held
      /\ Held \subseteq Tickers
    BY DEF Trades, Selling, Managed, Held
<1>3. \A t \in Managed : /\ left(t) = [qty |-> AfterExit(t).qty, avg |-> AfterExit(t).entry]
                         /\ AfterExit(t) = NoPosition <=> t \in Trades
                         /\ t \notin Trades => AfterExit(t).qty > 0
                         /\ left(t).qty <= lots[t].qty
    BY SaleAgrees
<1>4. \A t \in Tickers \ Managed : left(t) = lots[t]
    BY <1>2
<1> HIDE DEF left
<1>5. BookMatchesBroker'
  <2> SUFFICES ASSUME NEW t \in Tickers
               PROVE  lots'[t] = [qty |-> book'[t].qty, avg |-> book'[t].entry]
      BY DEF BookMatchesBroker
  <2>1. CASE t \in Managed
      BY <1>1, <1>3, <2>1
  <2>2. CASE t \notin Managed
      BY <1>1, <1>4, <2>2 DEF BookMatchesBroker
  <2> QED BY <2>1, <2>2
<1>6. Held' = Held \ Trades
    BY <1>1, <1>2, <1>3 DEF Held
<1>7. Whole'
    BY <1>1, <1>2, <1>3, <1>6 DEF Whole, Held
<1>8. Apart'
    BY <1>1, <1>6 DEF Apart, Queued
<1>9. \A t \in Tickers : lots'[t].qty <= lots[t].qty
  <2>1. \A t \in Tickers : lots[t].qty \in Nat
      BY DEF TypeOK, Lot
  <2> QED BY <1>1, <1>3, <1>4, <2>1
<1> QED BY <1>5, <1>6, <1>7, <1>8, <1>9

LEMMA ProposeAccount ==
    ASSUME TypeOK, BookMatchesBroker, Whole, Apart, Propose
    PROVE  BookMatchesBroker' /\ Whole' /\ Apart' /\ Held' = Held
<1>1. UNCHANGED <<account, book>>
    BY DEF Propose
<1>2. Held' = Held /\ BookMatchesBroker' /\ Whole'
    BY <1>1 DEF account, Held, BookMatchesBroker, Whole
<1>3. Queued' = Queued \/ \E t \in Tickers : t \notin Owned /\ Queued' \subseteq Queued \cup {t}
    BY DEF Propose, Affordable, Queued, TypeOK
<1>4. Apart'
    BY <1>2, <1>3, Consistent DEF Apart
<1> QED BY <1>2, <1>4

(* The types, the agreement of the two records and what it rests on. *)
Account == TypeOK /\ Running /\ BookMatchesBroker /\ Whole /\ Apart

LEMMA InitAccount == Init => Account
<1> SUFFICES ASSUME Init PROVE Account
    OBVIOUS
<1>1. Held = {} /\ Queued = {}
    BY DEF Init, Held, Queued
<1>2. BookMatchesBroker
    BY DEF Init, BookMatchesBroker, NoLot, NoPosition
<1> QED BY <1>1, <1>2, InitTypes DEF Account, Whole, Apart

LEMMA NextAccount == ASSUME Account, [Next]_vars PROVE Account'
<1> USE DEF Account
<1>1. TypeOK' /\ Running'
    BY NextTypes
<1>2. CASE Open
    BY <1>1, <1>2, OpenAccount
<1>3. CASE Scan
    BY <1>1, <1>3, ScanAccount
<1>4. CASE Manage
    BY <1>1, <1>4, ManageAccount
<1>5. CASE Propose
    BY <1>1, <1>5, ProposeAccount
<1>6. CASE Mark \/ Close \/ UNCHANGED vars
  <2>1. UNCHANGED <<lots, book, pending>>
      BY <1>6 DEF Mark, Close, vars, account
  <2>2. Held' = Held /\ Queued' = Queued
      BY <2>1 DEF Held, Queued
  <2> QED BY <1>1, <2>1, <2>2 DEF BookMatchesBroker, Whole, Apart
<1> QED BY <1>2, <1>3, <1>4, <1>5, <1>6 DEF Next

LEMMA AccountAlways == Spec => []Account
BY InitAccount, NextAccount, PTL DEF Spec

(* The positions the runner manages and the lots of the broker are the     *)
(* same, share for share and price for price, in every run of the loop.    *)
THEOREM BookAgrees == Spec => []BookMatchesBroker
BY AccountAlways, PTL DEF Account

(* No fill is made, and no lot grows, while the killswitch is active. *)
THEOREM NoBuyWhileKilled == Spec => KilledNeverBuys
<1> DEFINE Step == kill.active => \A t \in Tickers : lots'[t].qty <= lots[t].qty
<1>1. ASSUME Account, [Next]_vars PROVE [Step]_vars
  <2> USE DEF Account
  <2>0. \A t \in Tickers : lots[t].qty <= lots[t].qty
      BY <1>1 DEF TypeOK, Lot
  <2>1. CASE Open
    <3>1. kill.active => \A t \in Tickers : lots'[t] = lots[t]
        BY <1>1, <2>1, OpenAccount
    <3> QED BY <2>0, <3>1
  <2>2. CASE Manage
      BY <1>1, <2>2, ManageAccount
  <2>3. CASE Scan \/ Propose \/ Mark \/ Close
    <3>1. lots' = lots
        BY <2>3 DEF Scan, Propose, Mark, Close, account
    <3> QED BY <2>0, <3>1
  <2>4. CASE UNCHANGED vars
      BY <2>4
  <2> QED BY <1>1, <2>1, <2>2, <2>3, <2>4 DEF Next
<1>2. Spec => [][Step]_vars
    BY <1>1, AccountAlways, PTL DEF Spec
<1> QED BY <1>2 DEF KilledNeverBuys

-----------------------------------------------------------------------------
(* Trades and entries *)

(* Every full exit is won, lost or even, and only one of them. *)
LEMMA TradesCounted ==
    ASSUME TypeOK
    PROVE  Cardinality(Trades) =   Cardinality({t \in Trades : Realized(t) > 0})
                                 + Cardinality({t \in Trades : Realized(t) < 0})
                                 + Cardinality({t \in Trades : Realized(t) = 0})
<1> DEFINE Won  == {t \in Trades : Realized(t) > 0}
           Lost == {t \in Trades : Realized(t) < 0}
           Even == {t \in Trades : Realized(t) = 0}
<1>1. Trades \subseteq Tickers
    BY DEF Trades, Selling, Managed, Held
<1>2. /\ Won \cap Lost = {} /\ (Won \cup Lost) \cap Even = {}
      /\ Trades = (Won \cup Lost) \cup Even
    BY <1>1, RealizedType
<1>3. /\ IsFiniteSet(Won) /\ Cardinality(Won) \in Nat
      /\ IsFiniteSet(Lost) /\ Cardinality(Lost) \in Nat
      /\ IsFiniteSet(Even) /\ Cardinality(Even) \in Nat
    BY <1>1, FinitePart
<1> HIDE DEF Won, Lost, Even
<1>4. /\ IsFiniteSet(Won \cup Lost)
      /\ Cardinality(Won \cup Lost) = Cardinality(Won) + Cardinality(Lost) - Cardinality({})
    BY <1>2, <1>3, FS_Union
<1>5. Cardinality(Trades) = Cardinality(Won \cup Lost) + Cardinality(Even) - Cardinality({})
    BY <1>2, <1>3, <1>4, FS_Union
<1>6. Cardinality({}) = 0
    BY FS_EmptySet
<1>7. Cardinality(Trades) = Cardinality(Won) + Cardinality(Lost) + Cardinality(Even)
    BY <1>3, <1>4, <1>5, <1>6
<1> QED BY <1>7 DEF Won, Lost, Even

LEMMA NextTrades ==
    ASSUME Account, OneTradePerEntry, [Next]_vars
    PROVE  OneTradePerEntry'
<1> USE DEF Account
<1>1. IsFiniteSet(Held) /\ Cardinality(Held) \in Nat
    BY FinitePart DEF Held
<1>2. log \in [bought : Nat, wins : Nat, losses : Nat, even : Nat, realized : Int]
    BY DEF TypeOK
<1>3. CASE Open
  <2>1. PICK S \in SUBSET Queued :
               /\ Held' = Held \cup S
               /\ log' = [log EXCEPT !.bought = @ + Cardinality(S)]
      BY <1>3, OpenAccount
  <2>2. S \cap Held = {} /\ S \subseteq Tickers
      BY DEF Apart, Queued
  <2>3. IsFiniteSet(S) /\ Cardinality(S) \in Nat
      BY <2>2, FinitePart
  <2>4. Held \cap S = {} /\ Cardinality({}) = 0
      BY <2>2, FS_EmptySet
  <2>a. Cardinality(Held \cup S) = Cardinality(Held) + Cardinality(S) - Cardinality(Held \cap S)
      BY <1>1, <2>3, FS_Union
  <2>d. Cardinality(Held \cap S) = 0
      BY <2>4, Zenon
  <2>b. Cardinality(Held \cup S) = Cardinality(Held) + Cardinality(S)
      BY <1>1, <2>3, <2>a, <2>d
  <2>c. Held' = Held \cup S
      BY <2>1
  <2>5. Cardinality(Held') = Cardinality(Held) + Cardinality(S)
      BY <2>b, <2>c
  <2>6. /\ log'.bought = log.bought + Cardinality(S) /\ log'.wins = log.wins
        /\ log'.losses = log.losses /\ log'.even = log.even
      BY <1>2, <2>1
  <2> QED BY <1>1, <1>2, <2>3, <2>5, <2>6 DEF OneTradePerEntry
<1>4. CASE Manage
  <2> DEFINE won  == Cardinality({t \in Trades : Realized(t) > 0})
             lost == Cardinality({t \in Trades : Realized(t) < 0})
             even == Cardinality({t \in Trades : Realized(t) = 0})
             sum  == SumFunction([t \in Selling |-> Realized(t)])
  <2>1. Trades \subseteq Held /\ Trades \subseteq Tickers
      BY DEF Trades, Selling, Managed, Held
  <2>2. won \in Nat /\ lost \in Nat /\ even \in Nat
      BY <2>1, FinitePart
  <2>3. Cardinality(Trades) = won + lost + even
      BY TradesCounted
  <2>4. log' = [log EXCEPT !.wins = @ + won, !.losses = @ + lost, !.even = @ + even,
                           !.realized = @ + sum]
      BY <1>4 DEF Manage
  <2> HIDE DEF won, lost, even, sum
  <2>5. /\ log'.bought = log.bought /\ log'.wins = log.wins + won
        /\ log'.losses = log.losses + lost /\ log'.even = log.even + even
      BY <1>2, <2>4
  <2>6. Held' = Held \ Trades
      BY <1>4, ManageAccount
  <2>7. Held \cap Trades = Trades
      BY <2>1
  <2>a. Cardinality(Held \ Trades) = Cardinality(Held) - Cardinality(Held \cap Trades)
      BY <1>1, FS_Difference
  <2>8. Cardinality(Held') = Cardinality(Held) - Cardinality(Trades)
      BY <2>6, <2>7, <2>a
  <2> QED BY <1>1, <1>2, <2>2, <2>3, <2>5, <2>8 DEF OneTradePerEntry
<1>5. CASE Scan \/ Propose \/ Mark \/ Close \/ UNCHANGED vars
  <2>1. log' = log
      BY <1>5 DEF Scan, Propose, Mark, Close, vars
  <2>2. Held' = Held
    <3>1. CASE Scan
        BY <3>1, ScanAccount
    <3>2. CASE Propose
        BY <3>2, ProposeAccount
    <3>3. CASE Mark \/ Close \/ UNCHANGED vars
        BY <3>3 DEF Mark, Close, vars, Held
    <3> QED BY <1>5, <3>1, <3>2, <3>3
  <2> QED BY <2>1, <2>2 DEF OneTradePerEntry
<1> QED BY <1>3, <1>4, <1>5 DEF Next

(* The trades of the log, on which Kelly sizes the next entries, are one   *)
(* for every entry whose position is gone.                                 *)
THEOREM OneTradeForEachEntry == Spec => []OneTradePerEntry
<1>1. Init => OneTradePerEntry
  <2> SUFFICES ASSUME Init PROVE OneTradePerEntry
      OBVIOUS
  <2>1. Held = {}
      BY DEF Init, Held
  <2>2. Cardinality(Held) = 0
      BY <2>1, FS_EmptySet
  <2> QED BY <2>2 DEF Init, OneTradePerEntry
<1> QED BY <1>1, NextTrades, AccountAlways, PTL DEF Spec

-----------------------------------------------------------------------------
(* The caps on names *)

(* The part of CapsHold that counts names. *)
NamesCapped ==
    /\ Cardinality(Held \cup Queued) <= MaxPositions
    /\ Cardinality(Queued) <= MaxNewPerDay

LEMMA NextNames ==
    ASSUME Account, NamesCapped, [Next]_vars
    PROVE  NamesCapped'
<1> USE DEF Account
<1>1. Held \cup Queued \subseteq Tickers /\ Queued \subseteq Tickers
    BY DEF Held, Queued
<1>2. /\ IsFiniteSet(Held \cup Queued) /\ Cardinality(Held \cup Queued) \in Nat
      /\ IsFiniteSet(Queued) /\ Cardinality(Queued) \in Nat
    BY <1>1, FinitePart
<1>3. ASSUME Held' \cup Queued' \subseteq Held \cup Queued, Queued' \subseteq Queued
      PROVE  NamesCapped'
  <2>1. Cardinality(Held' \cup Queued') <= Cardinality(Held \cup Queued)
      BY <1>2, <1>3, FS_Subset
  <2>2. Cardinality(Queued') <= Cardinality(Queued)
      BY <1>2, <1>3, FS_Subset
  <2>3. Cardinality(Held' \cup Queued') \in Nat /\ Cardinality(Queued') \in Nat
      BY <1>1, <1>3, FinitePart
  <2> QED BY <1>2, <2>1, <2>2, <2>3, CapsAssumption DEF NamesCapped
<1>4. CASE Open
  <2>1. PICK S \in SUBSET Queued : Held' = Held \cup S
      BY <1>4, OpenAccount
  <2>2. pending' = [t \in Tickers |-> 0]
      BY <1>4 DEF Open, Cleared
  <2>3. Queued' = {}
      BY <2>2 DEF Queued
  <2> QED BY <1>3, <2>1, <2>3
<1>5. CASE Manage
  <2>1. Held' \subseteq Held /\ Queued' = Queued
      BY <1>5, ManageAccount DEF Manage, Queued
  <2> QED BY <1>3, <2>1
<1>6. CASE Propose
  <2>1. Held' = Held
      BY <1>6, ProposeAccount
  <2>2. CASE pending' = pending
    <3>1. Queued' = Queued
        BY <2>2 DEF Queued
    <3> QED BY <1>3, <2>1, <3>1
  <2>3. CASE pending' # pending
    <3>1. PICK t \in Tickers :
                 /\ Queued' \subseteq Queued \cup {t}
                 /\ Cardinality(Owned \cup Queued) < MaxPositions
                 /\ Cardinality(Queued) < MaxNewPerDay
        BY <1>6, <2>3 DEF Propose, Affordable, Queued, TypeOK
    <3>2. Owned = Held
        BY Consistent
    <3>a. Cardinality(Held \cup Queued) < MaxPositions
        BY <3>1, <3>2
    <3>b. \/ Cardinality((Held \cup Queued) \cup {t}) = Cardinality(Held \cup Queued)
          \/ Cardinality((Held \cup Queued) \cup {t}) = Cardinality(Held \cup Queued) + 1
        BY <1>2, FS_AddElement
    <3>3. Cardinality((Held \cup Queued) \cup {t}) <= MaxPositions
        BY <1>2, <3>a, <3>b, CapsAssumption
    <3>4. Cardinality(Queued \cup {t}) <= MaxNewPerDay
        BY <1>2, <3>1, FS_AddElement, CapsAssumption
    <3>5. /\ IsFiniteSet((Held \cup Queued) \cup {t}) /\ IsFiniteSet(Queued \cup {t})
          /\ Cardinality((Held \cup Queued) \cup {t}) \in Nat
          /\ Cardinality(Queued \cup {t}) \in Nat
        BY <1>1, FinitePart
    <3>6. Held' \cup Queued' \subseteq (Held \cup Queued) \cup {t}
        BY <2>1, <3>1
    <3>7. /\ Cardinality(Held' \cup Queued') <= Cardinality((Held \cup Queued) \cup {t})
          /\ Cardinality(Queued') <= Cardinality(Queued \cup {t})
        BY <3>1, <3>5, <3>6, FS_Subset
    <3>8. Cardinality(Held' \cup Queued') \in Nat /\ Cardinality(Queued') \in Nat
        BY <1>1, <3>1, <3>6, FinitePart
    <3> QED BY <3>3, <3>4, <3>5, <3>7, <3>8, CapsAssumption DEF NamesCapped
  <2> QED BY <2>2, <2>3
<1>7. CASE Scan
  <2>1. Held' = Held /\ Queued' = Queued
      BY <1>7, ScanAccount DEF Scan, Queued
  <2> QED BY <1>3, <2>1
<1>8. CASE Mark \/ Close \/ UNCHANGED vars
  <2>1. Held' = Held /\ Queued' = Queued
      BY <1>8 DEF Mark, Close, vars, Held, Queued
  <2> QED BY <1>3, <2>1
<1> QED BY <1>4, <1>5, <1>6, <1>7, <1>8 DEF Next

(* However many candidates a scan brings and whatever is sold or fills in  *)
(* between, no more names are held or queued than max_positions, and no    *)
(* more queued than max_new_per_day.                                       *)
THEOREM NamesAreCapped == Spec => []NamesCapped
<1>1. Init => NamesCapped
  <2> SUFFICES ASSUME Init PROVE NamesCapped
      OBVIOUS
  <2>1. Held \cup Queued = {} /\ Queued = {}
      BY DEF Init, Held, Queued
  <2>2. Cardinality({}) = 0
      BY FS_EmptySet
  <2> QED BY <2>1, <2>2, CapsAssumption DEF NamesCapped
<1> QED BY <1>1, NextNames, AccountAlways, PTL DEF Spec
=============================================================================
