------------------------- MODULE BacktestMoneyProofs -------------------------
(***************************************************************************)
(* The money of the backtest, for every market and number of positions:    *)
(* the trade log accounts for the cash, the queue fits the exposure caps,  *)
(* the equity is marked at the last close, and a loss locks the entries.   *)
(*                                                                         *)
(* The sums run over the names that are held, owned or queued, which an    *)
(* action changes together with the terms; they are compared as sums over  *)
(* all tickers, where a name that is not in the set counts for nothing.    *)
(***************************************************************************)
EXTENDS BacktestProofs

-----------------------------------------------------------------------------
(* The ledger *)

(* What a position cost, with the commission its entry paid. *)
Cost(p) == p.entry * p.qty + Commission(p.qty)

Invested(b) == SumFunction([t \in Tickers |-> Cost(b[t])])

LEMMA CostType == ASSUME NEW p \in Position PROVE Cost(p) \in Int
<1>1. p.entry \in Nat /\ p.qty \in Nat
    BY DEF Position
<1>2. p.entry * p.qty \in Nat
    BY <1>1, Products
<1> QED BY <1>1, <1>2 DEF Cost, Commission

LEMMA CostOfNothing == Cost(NoPosition) = 0
BY DEF Cost, Commission, NoPosition

LEMMA InvestedHeld ==
    ASSUME NEW b \in [Tickers -> Position]
    PROVE  /\ Invested(b) \in Int
           /\ Invested(b) = SumFunction([t \in {u \in Tickers : b[u] # NoPosition} |->
                                          b[t].entry * b[t].qty + Commission(b[t].qty)])
<1> DEFINE H == {u \in Tickers : b[u] # NoPosition}
           f == [t \in Tickers |-> Cost(b[t])]
           g == [t \in H |-> b[t].entry * b[t].qty + Commission(b[t].qty)]
<1>1. H \in SUBSET Tickers
    OBVIOUS
<1>2. f \in [Tickers -> Int]
    BY CostType
<1>3. \A t \in H : g[t] = f[t]
    BY <1>1 DEF Cost
<1>4. g \in [H -> Int]
    BY <1>1, <1>2, <1>3
<1>5. \A t \in Tickers \ H : f[t] = 0
    BY CostOfNothing
<1> HIDE DEF f, g, H
<1>6. SumFunction(f) = SumFunction(g) /\ SumFunction(f) \in Int
    BY <1>1, <1>2, <1>3, <1>4, <1>5, TickersAssumption, TotalPart, TotalInt
<1> QED BY <1>6 DEF Invested, f, g, H

(* The ledger of a state, and of the next one. *)
Balances(c, l, b) == c = InitialCash + l.realized - Invested(b)

LEMMA LedgerOf ==
    ASSUME TypeOK, TypeOK'
    PROVE  /\ LedgerBalances <=> Balances(cash, log, book)
           /\ LedgerBalances' <=> Balances(cash', log', book')
BY InvestedHeld DEF TypeOK, LedgerBalances, Balances, Held

(* What changes hands is what the sum of the costs changes by. *)
LEMMA InvestedMoves ==
    ASSUME TypeOK, TypeOK', NEW S \in SUBSET Tickers, NEW moved \in [S -> Int],
           \A t \in Tickers : Cost(book'[t]) = Cost(book[t])
                                               + (IF t \in S THEN moved[t] ELSE 0)
    PROVE  /\ Invested(book') = Invested(book) + SumFunction(moved)
           /\ Invested(book) \in Int
<1> DEFINE f == [t \in Tickers |-> Cost(book[t])]
           g == [t \in Tickers |-> IF t \in S THEN moved[t] ELSE 0]
           h == [t \in Tickers |-> Cost(book'[t])]
<1>1. f \in [Tickers -> Int] /\ h \in [Tickers -> Int]
    BY CostType DEF TypeOK
<1>2. g \in [Tickers -> Int] /\ \A t \in S : moved[t] = g[t]
    OBVIOUS
<1>3. \A t \in Tickers \ S : g[t] = 0
    OBVIOUS
<1>4. \A t \in Tickers : h[t] = f[t] + g[t]
    OBVIOUS
<1>5. Invested(book) = SumFunction(f) /\ Invested(book') = SumFunction(h)
    BY DEF Invested
<1> HIDE DEF f, g, h
<1>6. SumFunction(g) = SumFunction(moved)
    BY <1>2, <1>3, TickersAssumption, TotalPart
<1>7. SumFunction(h) = SumFunction(f) + SumFunction(g)
    BY <1>1, <1>2, <1>4, TickersAssumption, TotalPlus
<1>8. SumFunction(f) \in Int
    BY <1>1, TickersAssumption, TotalInt
<1> QED BY <1>5, <1>6, <1>7, <1>8

LEMMA OpenLedger == ASSUME Account, LedgerBalances, Open PROVE LedgerBalances'
<1> USE DEF Account
<1>0. PICK today \in [Tickers -> Bars \cup {NoBar}], filled \in SUBSET Queued :
           \E qty \in [filled -> Nat \ {0}], price \in [filled -> Nat] :
              Fills(today, filled, qty, price)
    BY OpenFills
<1>1. PICK qty \in [filled -> Nat \ {0}], price \in [filled -> Nat] :
           Fills(today, filled, qty, price)
    BY <1>0
<1> DEFINE spent == [t \in filled |-> price[t] * qty[t] + Commission(qty[t])]
<1>2. filled \in SUBSET Tickers /\ \A t \in filled : book[t] = NoPosition
    BY DEF Queued, Apart, Held
<1>3. spent \in [filled -> Int]
  <2>1. \A t \in filled : price[t] * qty[t] \in Nat
      BY Products
  <2> QED BY <2>1 DEF Commission
<1>4. ASSUME NEW t \in Tickers
      PROVE  Cost(book'[t]) = Cost(book[t]) + (IF t \in filled THEN spent[t] ELSE 0)
  <2>1. CASE t \in filled
    <3>1. book'[t] = new_position_meta(qty[t], price[t])
        BY <1>1, <2>1 DEF Fills
    <3>2. Cost(book'[t]) = spent[t]
        BY <2>1, <3>1 DEF new_position_meta, Cost
    <3>3. Cost(book[t]) = 0 /\ spent[t] \in Int
        BY <1>2, <1>3, <2>1, CostOfNothing
    <3> HIDE DEF spent
    <3> QED BY <2>1, <3>2, <3>3
  <2>2. CASE t \notin filled
    <3>1. book'[t] = book[t] /\ Cost(book[t]) \in Int
        BY <1>1, <2>2, CostType DEF Fills, TypeOK
    <3> QED BY <2>2, <3>1
  <2> QED BY <2>1, <2>2
<1>5. TypeOK'
    BY OpenTypes
<1> HIDE DEF spent
<1>6. /\ Invested(book') = Invested(book) + SumFunction(spent)
      /\ Invested(book) \in Int
    BY <1>2, <1>3, <1>4, <1>5, InvestedMoves
<1>7. cash' = cash - SumFunction(spent) /\ log'.realized = log.realized
    BY <1>1 DEF Fills, TypeOK, spent
<1>8. SumFunction(spent) \in Int
    BY <1>2, <1>3, FinitePart, TotalInt
<1>9. InitialCash \in Int /\ log.realized \in Int /\ cash \in Int
    BY MarketAssumption DEF TypeOK
<1>10. cash = InitialCash + log.realized - Invested(book)
    BY <1>5, LedgerOf DEF Balances
<1>11. cash' = InitialCash + log'.realized - Invested(book')
    BY <1>6, <1>7, <1>8, <1>9, <1>10
<1> QED BY <1>5, <1>11, LedgerOf DEF Balances

(* A sale gives back the cost of the shares sold: what it brings in less   *)
(* what it realizes.                                                       *)
LEMMA SoldCost ==
    ASSUME TypeOK, BookMatchesBroker, NEW t \in Managed
    PROVE  Cost(AfterExit(t)) =
               Cost(book[t]) - (IF t \in Selling THEN Proceeds(t) - Realized(t) ELSE 0)
<1> DEFINE sold == SoldQty(t)
           e    == book[t].entry
           q    == book[t].qty
           fill == SellFill(Decision(t).fill)
           after == AfterExit(t)
<1>1. t \in Tickers /\ e \in Nat /\ q \in Nat
    BY DEF Managed, Held, TypeOK, Position
<1>2. /\ sold \in Nat /\ sold <= q /\ fill \in Nat
      /\ Decision(t).action = "exit" => Decision(t).qty = q
    BY <1>1, SoldType, FillPrices
<1>3. lots[t].qty = q
  <2>1. lots[t] = [qty |-> q, avg |-> e]
      BY <1>1 DEF BookMatchesBroker
  <2> HIDE DEF q, e
  <2> QED BY <2>1
<1>4. Aged(t) \in Position /\ Aged(t).qty = q /\ Aged(t).entry = e
    BY <1>1, AgedType
<1>5. Cost(after) = e * (q - sold) + 5 * (q - sold)
  <2>1. CASE t \in Selling /\ Decision(t).action = "exit"
    <3>1. sold = q
        BY <1>1, <1>2, <1>3, <2>1 DEF SoldQty, Least
    <3>2. after = NoPosition
        BY <2>1 DEF AfterExit
    <3>3. Cost(after) = 0 /\ q - sold = 0
        BY <1>1, <3>1, <3>2, CostOfNothing
    <3> HIDE DEF after
    <3> QED BY <1>1, <3>3
  <2>2. CASE ~(t \in Selling /\ Decision(t).action = "exit")
    <3>1. after = [Aged(t) EXCEPT !.peak = Decision(t).peak, !.halved = Decision(t).halved,
                                  !.qty = @ - sold]
        BY <2>2 DEF AfterExit
    <3>2. after.qty = q - sold /\ after.entry = e
        BY <1>4, <3>1 DEF Position
    <3> HIDE DEF after
    <3> QED BY <3>2 DEF Cost, Commission
  <2> QED BY <2>1, <2>2
<1>6. Cost(book[t]) = e * q + 5 * q
    BY DEF Cost, Commission
<1>7. t \in Selling => Proceeds(t) - Realized(t) = (fill * sold - 5 * sold)
                                         - ((fill - e) * sold - 5 * sold - 5 * sold)
    BY DEF Proceeds, Realized, realized_pnl, Commission
<1>8. t \notin Selling => sold = 0
    BY <1>2 DEF Selling
<1> HIDE DEF sold, e, q, fill, after
<1>9. e * (q - sold) = e * q - e * sold /\ (fill - e) * sold = fill * sold - e * sold
    BY <1>1, <1>2
<1>10. e * q \in Int /\ e * sold \in Int /\ fill * sold \in Int
    BY <1>1, <1>2
<1>11. CASE t \in Selling
    BY <1>1, <1>2, <1>5, <1>6, <1>7, <1>9, <1>10, <1>11 DEF after
<1>12. CASE t \notin Selling
    BY <1>1, <1>2, <1>5, <1>6, <1>8, <1>12 DEF after
<1> QED BY <1>11, <1>12

LEMMA ManageLedger == ASSUME Account, LedgerBalances, Manage PROVE LedgerBalances'
<1> USE DEF Account
<1> DEFINE in    == [t \in Selling |-> Proceeds(t)]
           won   == [t \in Selling |-> Realized(t)]
           moved == [t \in Selling |-> Realized(t) - Proceeds(t)]
<1>1. Selling \in SUBSET Tickers /\ Selling \subseteq Managed
    BY SellingPart DEF Selling
<1>2. in \in [Selling -> Int] /\ won \in [Selling -> Int] /\ moved \in [Selling -> Int]
      /\ \A t \in Selling : won[t] = in[t] + moved[t]
    BY <1>1, ProceedsType, RealizedType
<1>3. ASSUME NEW t \in Tickers
      PROVE  Cost(book'[t]) = Cost(book[t]) + (IF t \in Selling THEN moved[t] ELSE 0)
  <2>1. Cost(book[t]) \in Int
      BY CostType DEF TypeOK
  <2>2. CASE t \in Managed
    <3>1. book'[t] = AfterExit(t)
        BY <2>2 DEF Manage
    <3>2. Cost(book'[t]) =
               Cost(book[t]) - (IF t \in Selling THEN Proceeds(t) - Realized(t) ELSE 0)
        BY <2>2, <3>1, SoldCost
    <3>3. Proceeds(t) \in Int /\ Realized(t) \in Int
        BY ProceedsType, RealizedType
    <3> QED BY <2>1, <3>2, <3>3
  <2>3. CASE t \notin Managed
    <3>1. book'[t] = book[t] /\ t \notin Selling
        BY <1>1, <2>3 DEF Manage
    <3> QED BY <2>1, <3>1
  <2> QED BY <2>2, <2>3
<1>4. TypeOK'
    BY ManageTypes
<1>5. cash' = cash + SumFunction(in)
    BY DEF Manage
<1>6. log'.realized = log.realized + SumFunction(won)
  <2> DEFINE w == Cardinality({t \in Trades : Realized(t) > 0})
             l == Cardinality({t \in Trades : Realized(t) < 0})
             n == Cardinality({t \in Trades : Realized(t) = 0})
  <2>1. log' = [log EXCEPT !.wins = @ + w, !.losses = @ + l, !.even = @ + n,
                           !.realized = @ + SumFunction(won)]
      BY DEF Manage
  <2> HIDE DEF w, l, n, won
  <2> QED BY <2>1 DEF TypeOK
<1> HIDE DEF in, won, moved
<1>7. /\ Invested(book') = Invested(book) + SumFunction(moved)
      /\ Invested(book) \in Int
    BY <1>1, <1>2, <1>3, <1>4, InvestedMoves
<1>8. SumFunction(won) = SumFunction(in) + SumFunction(moved)
    BY <1>1, <1>2, FinitePart, TotalPlus
<1>9. SumFunction(in) \in Int /\ SumFunction(moved) \in Int /\ SumFunction(won) \in Int
    BY <1>1, <1>2, FinitePart, TotalInt
<1>10. InitialCash \in Int /\ log.realized \in Int /\ cash \in Int
    BY MarketAssumption DEF TypeOK
<1>11. cash = InitialCash + log.realized - Invested(book)
    BY <1>4, LedgerOf DEF Balances
<1>12. cash' = InitialCash + log'.realized - Invested(book')
    BY <1>5, <1>6, <1>7, <1>8, <1>9, <1>10, <1>11
<1> QED BY <1>4, <1>12, LedgerOf DEF Balances

(* What is not a fill or a sale leaves the costs as they are. *)
LEMMA SameLedger ==
    ASSUME TypeOK, TypeOK', LedgerBalances, cash' = cash, log' = log,
           \A t \in Tickers : book'[t].entry = book[t].entry /\ book'[t].qty = book[t].qty
    PROVE  LedgerBalances'
<1>1. [t \in Tickers |-> Cost(book'[t])] = [t \in Tickers |-> Cost(book[t])]
    BY DEF Cost
<1>2. Invested(book') = Invested(book)
    BY <1>1 DEF Invested
<1> QED BY <1>2, LedgerOf DEF Balances

(* LedgerAlways: the cash is the initial cash, plus what the log says was  *)
(* realized, less what the positions cost, through every mix of fills,     *)
(* halves and exits.                                                       *)
THEOREM LedgerAlways == Spec => []LedgerBalances
<1>1. ASSUME Init PROVE LedgerBalances
  <2>1. Held = {}
      BY <1>1 DEF Init, Held
  <2>2. SumFunction([t \in Held |-> book[t].entry * book[t].qty + Commission(book[t].qty)]) = 0
      BY <2>1, TotalEmpty
  <2> QED BY <1>1, <2>2, MarketAssumption DEF Init, LedgerBalances
<1>2. ASSUME Account, LedgerBalances, [Next]_vars PROVE LedgerBalances'
  <2>0. TypeOK /\ TypeOK'
      BY <1>2, NextTypes DEF Account
  <2>1. CASE Open
      BY <1>2, <2>1, OpenLedger
  <2>2. CASE Manage
      BY <1>2, <2>2, ManageLedger
  <2>3. CASE Scan
    <3>1. PICK score \in [Held -> Scores] :
              book' = [t \in Tickers |-> IF t \in Held THEN [book[t] EXCEPT !.score = score[t]]
                                         ELSE book[t]]
        BY <2>3 DEF Scan
    <3>2. \A t \in Tickers : book'[t].entry = book[t].entry /\ book'[t].qty = book[t].qty
      <4> SUFFICES ASSUME NEW t \in Tickers
                   PROVE  book'[t].entry = book[t].entry /\ book'[t].qty = book[t].qty
          OBVIOUS
      <4>1. book[t] \in Position
          BY <2>0 DEF TypeOK
      <4>2. book'[t] = book[t] \/ book'[t] = [book[t] EXCEPT !.score = score[t]]
          BY <3>1
      <4> QED BY <4>1, <4>2 DEF Position
    <3> QED BY <1>2, <2>0, <2>3, <3>2, SameLedger DEF Scan, account
  <2>4. CASE Mark \/ Propose \/ Close \/ UNCHANGED vars
    <3>1. UNCHANGED <<book, cash, log>>
        BY <2>4 DEF Mark, Propose, Close, vars, account
    <3> QED BY <1>2, <2>0, <3>1, SameLedger
  <2> QED BY <1>2, <2>1, <2>2, <2>3, <2>4 DEF Next
<1> QED BY <1>1, <1>2, AccountAlways, PTL DEF Spec

-----------------------------------------------------------------------------
(* The exposure caps *)

(* QueueFits: once the gates have been passed the account is as they saw   *)
(* it until the next open, and what is queued fits it.                     *)
QueueFits ==
    /\ pc = "propose" \/ Queued # {} => equity = cash + Notional
    /\ Queued # {} =>
         /\ pc \in {"propose", "close", "open"}
         /\ 100 * (Notional + Reserved) <= MaxGross * equity
         /\ \A t \in Queued : 1000 * pending[t] <= PositionCap * equity

LEMMA ReservedIs ==
    ASSUME NEW q \in [Tickers -> Nat]
    PROVE  SumFunction([t \in {u \in Tickers : q[u] > 0} |-> q[t]]) = SumFunction(q)
<1> DEFINE T == {u \in Tickers : q[u] > 0}
           g == [t \in T |-> q[t]]
<1>1. g \in [T -> Int] /\ T \in SUBSET Tickers /\ q \in [Tickers -> Int]
    OBVIOUS
<1>2. (\A t \in T : g[t] = q[t]) /\ \A t \in Tickers \ T : q[t] = 0
    OBVIOUS
<1> HIDE DEF g, T
<1>3. SumFunction(q) = SumFunction(g)
    BY <1>1, <1>2, TickersAssumption, TotalPart
<1> QED BY <1>3 DEF g, T

(* A candidate that is queued takes its size off what the caps leave. *)
LEMMA ProposeFits == ASSUME Account, QueueFits, Propose PROVE QueueFits'
<1> USE DEF Account
<1>0. PICK t \in ranked, soon \in BOOLEAN, payoff \in ObservedPayoffs :
          LET target == TargetSize(payoff)
              size   == AdjustedSize(target, soon)
          IN  pending' =
                   IF target > 0 /\ Affordable(t, size, equity, Notional + Reserved,
                                               Owned \cup Queued, Cardinality(Queued))
                   THEN [pending EXCEPT ![t] = size] ELSE pending
    BY DEF Propose
<1> DEFINE target == TargetSize(payoff)
           size   == AdjustedSize(target, soon)
<1>1. /\ UNCHANGED <<cash, equity, lots, book>>
      /\ pc = "propose" /\ pc' \in {"propose", "close"}
    BY DEF Propose, account
<1>2. Notional' = Notional /\ Notional \in Int
  <2>1. Owned' = Owned /\ \A u \in Tickers : Worth(u)' = Worth(u)
      BY <1>1 DEF Owned, Worth, MarkOf
  <2>2. Notional' = Notional
      BY <2>1 DEF Notional, Owned
  <2> QED BY <2>2, WorthType
<1>3. equity' = cash' + Notional'
    BY <1>1, <1>2 DEF QueueFits
<1>4. CASE pending' = pending
  <2>1. Queued' = Queued /\ Reserved' = Reserved
      BY <1>4 DEF Queued, Reserved
  <2> QED BY <1>1, <1>2, <1>3, <1>4, <2>1 DEF QueueFits
<1>5. CASE /\ Affordable(t, size, equity, Notional + Reserved,
                         Owned \cup Queued, Cardinality(Queued))
           /\ target > 0 /\ pending' = [pending EXCEPT ![t] = size]
  <2>1. target \in Int
      BY TargetType
  <2>2. size \in Nat
    <3> HIDE DEF target
    <3> QED BY <1>5, <2>1 DEF AdjustedSize
  <2>3. /\ t \in Tickers /\ pending \in [Tickers -> Nat] /\ pending[t] = 0
        /\ 1000 * size <= PositionCap * equity
        /\ 100 * (Notional + Reserved + size) <= MaxGross * equity
      BY <1>5 DEF Affordable, Queued, TypeOK
  <2> HIDE DEF size, target
  <2>4. pending' \in [Tickers -> Nat]
      BY <1>5, <2>2, <2>3
  <2>5. Reserved = SumFunction(pending) /\ Reserved' = SumFunction(pending')
      BY <2>3, <2>4, ReservedIs DEF Reserved, Queued
  <2>6. SumFunction(pending') = SumFunction(pending) - pending[t] + size
    <3>1. pending \in [Tickers -> Int] /\ size \in Int
        BY <2>2, <2>3
    <3> QED BY <1>5, <2>3, <3>1, TickersAssumption, TotalExcept
  <2>7. SumFunction(pending) \in Int
    <3>1. pending \in [Tickers -> Int]
        BY <2>3
    <3> QED BY <3>1, TickersAssumption, TotalInt
  <2>8. Reserved' = Reserved + size
      BY <2>2, <2>3, <2>5, <2>6, <2>7
  <2>9. 100 * (Notional' + Reserved') <= MaxGross * equity'
    <3>1. Notional' + Reserved' = Notional + Reserved + size
        BY <1>2, <2>2, <2>5, <2>7, <2>8
    <3> QED BY <1>1, <2>3, <3>1
  <2>10. \A u \in Queued' : 1000 * pending'[u] <= PositionCap * equity'
    <3> SUFFICES ASSUME NEW u \in Queued'
                 PROVE  1000 * pending'[u] <= PositionCap * equity'
        OBVIOUS
    <3>1. CASE u = t
        BY <1>1, <1>5, <2>3, <3>1
    <3>2. CASE u # t
      <4>1. pending'[u] = pending[u] /\ u \in Queued
          BY <1>5, <2>3, <3>2 DEF Queued
      <4> QED BY <1>1, <4>1 DEF QueueFits
    <3> QED BY <3>1, <3>2
  <2> QED BY <1>1, <1>3, <2>9, <2>10 DEF QueueFits
<1> QED BY <1>0, <1>4, <1>5

LEMMA NextFits == ASSUME Account, QueueFits, [Next]_vars PROVE QueueFits'
<1> USE DEF Account
<1>1. CASE Open
  <2>1. pending' = [t \in Tickers |-> 0] /\ pc' = "scan"
      BY <1>1 DEF Open, Cleared
  <2>2. Queued' = {}
      BY <2>1 DEF Queued
  <2> QED BY <2>1, <2>2 DEF QueueFits
<1>2. CASE Scan \/ Manage
  <2>1. Queued = {}
      BY <1>2 DEF QueueFits, Scan, Manage
  <2>2. pending' = pending /\ pc' # "propose"
      BY <1>2 DEF Scan, Manage
  <2>3. Queued' = {}
      BY <2>1, <2>2 DEF Queued
  <2> QED BY <2>2, <2>3 DEF QueueFits
<1>3. CASE Mark
  <2>1. Queued = {} /\ UNCHANGED <<cash, lots, book, pending>> /\ equity' = cash + Notional
      BY <1>3 DEF QueueFits, Mark, mark_to_market
  <2>2. Owned' = Owned /\ \A u \in Tickers : Worth(u)' = Worth(u)
      BY <2>1 DEF Owned, Worth, MarkOf
  <2>3. Notional' = Notional /\ Queued' = {}
      BY <2>1, <2>2 DEF Notional, Owned, Queued
  <2> QED BY <2>1, <2>3 DEF QueueFits
<1>4. CASE Propose
    BY <1>4, ProposeFits
<1>5. CASE Close
  <2>1. UNCHANGED <<cash, lots, book, pending>> /\ equity' = cash + Notional /\ pc' = "open"
      BY <1>5 DEF Close, mark_to_market
  <2>2. Owned' = Owned /\ \A u \in Tickers : Worth(u)' = Worth(u)
      BY <2>1 DEF Owned, Worth, MarkOf
  <2>3. Notional' = Notional /\ Queued' = Queued /\ Reserved' = Reserved
      BY <2>1, <2>2 DEF Notional, Owned, Queued, Reserved
  <2>4. Queued # {} => equity' = equity
      BY <2>1 DEF QueueFits
  <2> QED BY <2>1, <2>3, <2>4 DEF QueueFits
<1>6. CASE UNCHANGED vars
  <2>1. UNCHANGED <<cash, equity, lots, book, pending, pc>>
      BY <1>6 DEF vars, account
  <2>2. Owned' = Owned /\ \A u \in Tickers : Worth(u)' = Worth(u)
      BY <2>1 DEF Owned, Worth, MarkOf
  <2>3. Notional' = Notional /\ Queued' = Queued /\ Reserved' = Reserved
      BY <2>1, <2>2 DEF Notional, Owned, Queued, Reserved
  <2> QED BY <2>1, <2>3 DEF QueueFits
<1> QED BY <1>1, <1>2, <1>3, <1>4, <1>5, <1>6 DEF Next

LEMMA FitsAlways == Spec => [](Account /\ QueueFits)
<1>1. ASSUME Init PROVE QueueFits
  <2>1. Queued = {} /\ pc = "open"
      BY <1>1 DEF Init, Queued
  <2> QED BY <2>1 DEF QueueFits
<1> QED BY <1>1, NextFits, AccountAlways, PTL DEF Spec

(* CapsAlways: with the equity the gates saw, what is held and queued      *)
(* never exceeds the gross cap nor an entry its own, though candidates     *)
(* are accepted one at a time; the names are capped, and none is queued    *)
(* while it is held.                                                       *)
THEOREM CapsAlways == Spec => []CapsHold
<1>1. ASSUME Account, NamesCapped, QueueFits PROVE CapsHold
  <2>1. Owned = Held
      BY <1>1, Consistent DEF Account
  <2> QED BY <1>1, <2>1 DEF Account, NamesCapped, QueueFits, Apart, CapsHold
<1> QED BY <1>1, FitsAlways, NamesAreCapped, PTL

-----------------------------------------------------------------------------
(* The marks *)

(* Carried: a position is marked at the last close of its ticker, or will  *)
(* be when today's bar has been managed.                                   *)
Carried ==
    \A t \in Held : IF pc \in {"scan", "manage"} /\ Traded(t)
                    THEN closes[t] = bar[t].close ELSE book[t].mark = closes[t]

Valued == pc = "open" => equity = cash + Notional

LEMMA OpenCarries == ASSUME Account, Carried, Open PROVE Carried'
<1> USE DEF Account
<1>0. PICK today \in [Tickers -> Bars \cup {NoBar}], filled \in SUBSET Queued :
           \E qty \in [filled -> Nat \ {0}], price \in [filled -> Nat] :
              Fills(today, filled, qty, price)
    BY OpenFills
<1>1. PICK qty \in [filled -> Nat \ {0}], price \in [filled -> Nat] :
           Fills(today, filled, qty, price)
    BY <1>0
<1>2. pc = "open" /\ pc' = "scan"
    BY DEF Open
<1> SUFFICES ASSUME NEW t \in Tickers, book'[t] # NoPosition
             PROVE  IF bar'[t] # NoBar THEN closes'[t] = bar'[t].close
                                       ELSE book'[t].mark = closes'[t]
    BY <1>2 DEF Carried, Held, Traded
<1>3. CASE today[t] # NoBar
    BY <1>1, <1>3 DEF Fills
<1>4. CASE today[t] = NoBar
  <2>1. t \notin filled
      BY <1>1, <1>4 DEF Fills
  <2>2. book'[t] = book[t] /\ closes'[t] = closes[t] /\ bar'[t] = NoBar
      BY <1>1, <1>4, <2>1 DEF Fills
  <2> QED BY <1>2, <2>2 DEF Carried, Held
<1> QED BY <1>3, <1>4

LEMMA ManageCarries == ASSUME Account, Carried, Manage PROVE Carried'
<1> USE DEF Account
<1>1. UNCHANGED <<bar, closes>> /\ pc = "manage" /\ pc' \in {"close", "mark"}
    BY DEF Manage
<1>2. Held' = Held \ Trades
    BY ManageAccount
<1> SUFFICES ASSUME NEW t \in Held \ Trades PROVE book'[t].mark = closes[t]
    BY <1>1, <1>2 DEF Carried
<1>3. CASE Traded(t)
  <2>1. t \in Managed /\ t \in Tickers
      BY <1>3 DEF Managed, Held
  <2>2. book'[t] = AfterExit(t)
      BY <2>1 DEF Manage
  <2>3. AfterExit(t) = [Aged(t) EXCEPT !.peak = Decision(t).peak,
                                       !.halved = Decision(t).halved, !.qty = @ - SoldQty(t)]
      BY DEF AfterExit, Trades
  <2>4. Aged(t) \in Position
      BY <2>1, AgedType
  <2>5. AfterExit(t).mark = Aged(t).mark
      BY <2>3, <2>4 DEF Position
  <2>6. Aged(t).mark = bar[t].close
    <3>1. book[t] \in Position
        BY <2>1 DEF TypeOK
    <3> QED BY <3>1 DEF Aged, Position
  <2> QED BY <1>1, <1>3, <2>2, <2>5, <2>6 DEF Carried
<1>4. CASE ~Traded(t)
  <2>1. book'[t] = book[t]
      BY <1>4 DEF Manage, Managed, Held
  <2> QED BY <1>1, <1>4, <2>1 DEF Carried
<1> QED BY <1>3, <1>4

LEMMA NextCarries ==
    ASSUME Account, Carried, Valued, [Next]_vars
    PROVE  Carried' /\ Valued'
<1> USE DEF Account
<1>1. CASE Open
    BY <1>1, OpenCarries DEF Open, Valued
<1>2. CASE Scan
  <2>1. PICK score \in [Held -> Scores] :
            book' = [t \in Tickers |-> IF t \in Held THEN [book[t] EXCEPT !.score = score[t]]
                                       ELSE book[t]]
      BY <1>2 DEF Scan
  <2>2. \A t \in Tickers : book'[t].mark = book[t].mark
    <3> SUFFICES ASSUME NEW t \in Tickers PROVE book'[t].mark = book[t].mark
        OBVIOUS
    <3>1. book[t] \in Position
        BY DEF TypeOK
    <3>2. book'[t] = book[t] \/ book'[t] = [book[t] EXCEPT !.score = score[t]]
        BY <2>1
    <3> QED BY <3>1, <3>2 DEF Position
  <2>3. Held' = Held
      BY <1>2, ScanAccount
  <2>4. UNCHANGED <<bar, closes>> /\ pc = "scan" /\ pc' = "manage"
      BY <1>2 DEF Scan
  <2> QED BY <2>2, <2>3, <2>4 DEF Carried, Valued, Traded, Held
<1>3. CASE Manage
    BY <1>3, ManageCarries DEF Manage, Valued
<1>4. CASE Mark \/ Propose
  <2>1. /\ UNCHANGED <<bar, closes, book>>
        /\ pc \in {"mark", "propose"} /\ pc' \in {"propose", "close"}
      BY <1>4 DEF Mark, Propose
  <2> QED BY <2>1 DEF Carried, Valued, Held
<1>5. CASE Close
  <2>1. /\ UNCHANGED <<cash, lots, book>> /\ equity' = cash + Notional
        /\ closes' = [t \in Tickers |-> IF book[t] = NoPosition THEN 0 ELSE closes[t]]
        /\ pc = "close" /\ pc' = "open"
      BY <1>5 DEF Close, mark_to_market
  <2>2. Owned' = Owned /\ \A u \in Tickers : Worth(u)' = Worth(u)
      BY <2>1 DEF Owned, Worth, MarkOf
  <2>3. Notional' = Notional
      BY <2>1, <2>2 DEF Notional, Owned
  <2>4. Carried'
      BY <2>1 DEF Carried, Held
  <2> QED BY <2>1, <2>3, <2>4 DEF Valued
<1>6. CASE UNCHANGED vars
  <2>1. UNCHANGED <<bar, closes, book, lots, cash, equity, pc>>
      BY <1>6 DEF vars, account
  <2>2. Owned' = Owned /\ \A u \in Tickers : Worth(u)' = Worth(u)
      BY <2>1 DEF Owned, Worth, MarkOf
  <2>3. Notional' = Notional
      BY <2>1, <2>2 DEF Notional, Owned
  <2> QED BY <2>1, <2>3 DEF Carried, Valued, Held, Traded
<1> QED BY <1>1, <1>2, <1>3, <1>4, <1>5, <1>6 DEF Next

(* MarksAlways: the equity that is recorded at the end of a day values     *)
(* every lot at the last close its ticker had, however many days went by   *)
(* without a bar.                                                          *)
THEOREM MarksAlways == Spec => []MarkedAtLastClose
<1>1. ASSUME Account, Carried, Valued PROVE MarkedAtLastClose
  <2>1. Owned = Held
      BY <1>1, Consistent DEF Account
  <2>2. ASSUME pc = "open" PROVE \A t \in Owned : Worth(t) = lots[t].qty * closes[t]
      BY <1>1, <2>1, <2>2 DEF Carried, Worth, MarkOf, Held
  <2>3. ASSUME pc = "open"
        PROVE  [t \in Owned |-> Worth(t)] = [t \in Owned |-> lots[t].qty * closes[t]]
      BY <2>2, <2>3
  <2> QED BY <1>1, <2>3 DEF Valued, Notional, MarkedAtLastClose
<1>2. ASSUME Init PROVE Carried /\ Valued
  <2>1. Held = {} /\ Owned = {}
      BY <1>2 DEF Init, Held, Owned, NoLot
  <2>2. Notional = 0
      BY <2>1, TotalEmpty DEF Notional
  <2> QED BY <1>2, <2>1, <2>2, MarketAssumption DEF Init, Carried, Valued
<1> QED BY <1>1, <1>2, NextCarries, AccountAlways, PTL DEF Spec

-----------------------------------------------------------------------------
(* The killswitch of the backtest *)

(* The oldest index of a window of four weekdays that ends at now, when    *)
(* the third index before it is three weekdays earlier.                    *)
LEMMA OldestOf ==
    ASSUME NEW now \in Nat, NEW from \in Nat,
           now <= LastSession, from >= 1, now = from + 3, Weekday[from] + 3 = Weekday[now],
           NEW window, window = {s \in 1..now : Weekday[s] + 3 >= Weekday[now]}
    PROVE  from \in window /\ \A s \in window : s \in Nat /\ from <= s
<1>1. /\ from \in 1..LastSession /\ now \in 1..LastSession
      /\ Weekday[from] \in Nat /\ Weekday[now] \in Nat
    BY CalendarAssumption
<1>2. from \in window
    BY <1>1
<1>3. ASSUME NEW s \in window PROVE s \in Nat /\ from <= s
  <2>1. s \in 1..LastSession /\ Weekday[s] \in Nat /\ Weekday[s] >= Weekday[from]
      BY <1>1, CalendarAssumption
  <2> QED BY <1>1, <2>1, CalendarAssumption
<1> QED BY <1>2, <1>3

(* In a week without holidays the window opens at the close three sessions *)
(* earlier.                                                                *)
LEMMA WindowOf ==
    ASSUME NEW history \in Seq(Int), Len(history) \in 4..LastSession,
           Weekday[Len(history) - 3] + 3 = Weekday[Len(history)]
    PROVE  LostInThreeDays(history) <=> Loss(history, Len(history) - 3, ThreeDayLoss)
<1> DEFINE now    == Len(history)
           from   == now - 3
           window == {s \in DOMAIN history : Weekday[s] + 3 >= Weekday[now]}
<1>1. now \in Nat /\ now >= 4 /\ now <= LastSession /\ DOMAIN history = 1..now
    BY CalendarAssumption
<1>2. Weekday[from] + 3 = Weekday[now]
    OBVIOUS
<1> HIDE DEF now
<1>3. from \in Nat /\ from >= 1 /\ now = from + 3
    BY <1>1
<1>4. window = {s \in 1..now : Weekday[s] + 3 >= Weekday[now]}
    BY <1>1
<1>5. LostInThreeDays(history) <=>
         Loss(history, CHOOSE s \in window : \A other \in window : s <= other, ThreeDayLoss)
    BY DEF LostInThreeDays, now
<1> HIDE DEF from, window
<1>6. from \in window /\ \A s \in window : s \in Nat /\ from <= s
    BY <1>1, <1>2, <1>3, <1>4, OldestOf
<1>7. ASSUME NEW s \in window, \A other \in window : s <= other PROVE s = from
    BY <1>3, <1>6, <1>7
<1>8. (CHOOSE s \in window : \A other \in window : s <= other) = from
    BY <1>6, <1>7
<1> QED BY <1>5, <1>8 DEF from, now

(* LossLocks: whatever was tripped before, and whether or not a cooldown   *)
(* has just ended, a day that closes on a drawdown or on a three-day loss  *)
(* leaves the entries locked.                                              *)
THEOREM LossLocks == Spec => []LossLocksEntries
<1>1. ASSUME Init PROVE LossLocksEntries
    BY <1>1 DEF Init, LossLocksEntries
<1>2. ASSUME Account, LossLocksEntries, [Next]_vars PROVE LossLocksEntries'
  <2> USE DEF Account
  <2>1. CASE Close
    <3> DEFINE history == curve'
               now     == Len(history)
    <3>1. TypeOK'
        BY <1>2, NextTypes
    <3>2. history \in Seq(Int) /\ now = session /\ session \in 1..LastSession
      <4>1. now = session' - 1 /\ session' = session + 1 /\ pc # "open"
          BY <2>1, <3>1 DEF TypeOK, Close
      <4> QED BY <1>2, <3>1, <4>1, CalendarAssumption DEF TypeOK, Running
    <3>3. kill' = advance_killswitch(kill, Verdict(history), CalendarDay[session])
        BY <2>1 DEF Close
    <3>4. Verdict(history) => kill'.active
      <4> DEFINE verdict == Verdict(history)
      <4>1. kill \in [active : BOOLEAN, tripped : {NoTrip} \cup Nat]
          BY <1>2 DEF TypeOK
      <4> HIDE DEF verdict
      <4>2. [kill EXCEPT !.active = TRUE].active
          BY <4>1
      <4>3. verdict => advance_killswitch(kill, verdict, CalendarDay[session]).active
          BY <4>2 DEF advance_killswitch
      <4> QED BY <3>3, <4>3 DEF verdict
    <3> HIDE DEF history
    <3>5. ASSUME NEW s \in 1..now, CalendarDay[s] + 30 >= CalendarDay[now],
                 Loss(history, s, Drawdown)
          PROVE  kill'.active
      <4>1. DrawnDown(history)
          BY <3>2, <3>5 DEF DrawnDown
      <4> QED BY <3>4, <4>1 DEF Verdict
    <3>6. ASSUME now > 3, Weekday[now - 3] + 3 = Weekday[now],
                 Loss(history, now - 3, ThreeDayLoss)
          PROVE  kill'.active
      <4>1. Len(history) \in 4..LastSession
          BY <3>2, <3>6, CalendarAssumption
      <4>2. LostInThreeDays(history)
          BY <3>2, <3>6, <4>1, WindowOf
      <4> QED BY <3>4, <4>2 DEF Verdict
    <3> QED BY <3>5, <3>6 DEF LossLocksEntries, history
  <2>2. CASE Open \/ Scan \/ Manage \/ Mark \/ Propose
    <3>1. pc' # "open"
        BY <2>2 DEF Open, Scan, Manage, Mark, Propose
    <3> QED BY <3>1 DEF LossLocksEntries
  <2>3. CASE UNCHANGED vars
      BY <1>2, <2>3 DEF LossLocksEntries, Loss, vars, telemetry
  <2> QED BY <1>2, <2>1, <2>2, <2>3 DEF Next
<1> QED BY <1>1, <1>2, AccountAlways, PTL DEF Spec
=============================================================================
