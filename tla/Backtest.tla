------------------------------- MODULE Backtest -------------------------------
(***************************************************************************)
(* The backtest: the day loop of backtest/runner.py over the simulated     *)
(* broker, the shared exit and entry rules of execution/decisions.py, the  *)
(* gates and the Kelly sizing, the equity and gap telemetry and the        *)
(* killswitch.                                                             *)
(*                                                                         *)
(* A session goes through the phases of the loop: entries queued the day   *)
(* before fill at the open, the scan ranks the tickers, the positions are  *)
(* managed on the day's bar, entries are proposed one candidate at a time, *)
(* and the day is closed.  The bars and the scores are whatever the market *)
(* and the factors make of them.  Money is in mills; a score is as good as *)
(* at the entry, decayed by a half, or by more than the exit allows; the   *)
(* setups are one.                                                         *)
(***************************************************************************)
EXTENDS Sizing, FiniteSetsExt, Sequences

CONSTANTS
    Tickers,
    Bars,           \* the bars a session may bring: [open, low, close]
    Payoffs,        \* average payoffs observed, in tenths
    LastSession,    \* sessions are 1..LastSession
    Weekday,        \* session -> its number among the weekdays
    CalendarDay,    \* session -> its number among the days
    InitialCash,
    HardStop, Trailing,          \* percent
    TimeStop,                    \* bars
    Drawdown, ThreeDayLoss, GapThrough,   \* arms of the killswitch, percent
    Cooldown                     \* days

ASSUME CalendarAssumption ==
    /\ LastSession \in Nat
    /\ Weekday \in [1..LastSession -> Nat] /\ CalendarDay \in [1..LastSession -> Nat]
    /\ \A s, r \in 1..LastSession : s < r => Weekday[s] < Weekday[r]
ASSUME MarketAssumption ==
    /\ Bars \subseteq [open : Nat \ {0}, low : Nat \ {0}, close : Nat \ {0}]
    /\ Payoffs \subseteq Nat \ {0} /\ InitialCash \in Nat \ {0}
ASSUME TickersAssumption == IsFiniteSet(Tickers)
ASSUME StopsAssumption   ==
    /\ HardStop \in Nat /\ Trailing \in Nat /\ TimeStop \in Nat
    /\ Drawdown \in Nat \ {0} /\ ThreeDayLoss \in Nat \ {0} /\ GapThrough \in Nat \ {0}
    /\ Cooldown \in Nat

VARIABLES
    session, pc,
    bar,        \* today's bar of each ticker
    cash, equity, lots,     \* SimulatorBroker
    book,       \* positions the runner manages
    ranked,     \* today's candidates that are still to be proposed
    pending,    \* pending_entries: the size accepted, 0 for none
    log,        \* what is summed over trade_log
    curve,      \* telemetry.equity_history
    gapped,     \* a position mark of today is beyond the gap arm
    kill,       \* KillswitchState
    closes      \* last close of each ticker that is held (history)

account   == <<cash, equity, lots>>
telemetry == <<curve, gapped, kill>>
vars == <<session, pc, bar, account, book, ranked, pending, log, telemetry, closes>>

NoBar == [open |-> 0, low |-> 0, close |-> 0]
NoLot == [qty |-> 0, avg |-> 0]
NoPosition == [qty |-> 0, entry |-> 0, peak |-> 0, mark |-> 0, bars |-> 0,
               score |-> "full", halved |-> FALSE]
NoTrip == -1

Scores   == {"full", "half", "gone"}
Lot      == [qty : Nat, avg : Nat]
Position == [qty : Nat, entry : Nat, peak : Nat, mark : Nat, bars : Nat,
             score : Scores, halved : BOOLEAN]

Held   == {t \in Tickers : book[t] # NoPosition}
Queued == {t \in Tickers : pending[t] > 0}
Traded(t) == bar[t] # NoBar

TypeOK ==
    /\ session \in 1..(LastSession + 1)
    /\ pc \in {"open", "scan", "manage", "mark", "propose", "close"}
    /\ bar \in [Tickers -> Bars \cup {NoBar}]
    /\ cash \in Int /\ equity \in Int
    /\ lots \in [Tickers -> Lot]
    /\ book \in [Tickers -> Position]
    /\ ranked \in SUBSET Tickers
    /\ pending \in [Tickers -> Nat]
    /\ log \in [bought : Nat, wins : Nat, losses : Nat, even : Nat, realized : Int]
    /\ curve \in Seq(Int) /\ Len(curve) = session - 1
    /\ gapped \in BOOLEAN
    /\ kill \in [active : BOOLEAN, tripped : {NoTrip} \cup Nat]
    /\ closes \in [Tickers -> Nat]

Init ==
    /\ session = 1 /\ pc = "open"
    /\ bar = [t \in Tickers |-> NoBar]
    /\ cash = InitialCash /\ equity = InitialCash /\ lots = [t \in Tickers |-> NoLot]
    /\ book = [t \in Tickers |-> NoPosition]
    /\ ranked = {} /\ pending = [t \in Tickers |-> 0]
    /\ log = [bought |-> 0, wins |-> 0, losses |-> 0, even |-> 0, realized |-> 0]
    /\ curve = <<>> /\ gapped = FALSE
    /\ kill = [active |-> FALSE, tripped |-> NoTrip]
    /\ closes = [t \in Tickers |-> 0]

-----------------------------------------------------------------------------
(* The open: the market brings a bar or none, queued entries fill once *)

(* Mutant of Filling: the entries of a killed account fill as well. *)
FillingAnyway(t, today) == pending[t] > 0 /\ today[t] # NoBar

Filling(t, today) == pending[t] > 0 /\ today[t] # NoBar /\ ~kill.active

(* Whole shares, and at least one. *)
EntryQty(size, open) == Greatest(1, size \div open)

(* submit_buy: what is added to a lot is averaged with it. *)
Bought(lot, qty, price) ==
    IF lot = NoLot THEN [qty |-> qty, avg |-> price]
    ELSE [qty |-> lot.qty + qty,
          avg |-> (lot.avg * lot.qty + price * qty) \div (lot.qty + qty)]

new_position_meta(qty, price) ==
    [qty |-> qty, entry |-> price, peak |-> price, mark |-> price, bars |-> 0,
     score |-> "full", halved |-> FALSE]

(* Mutant of Cleared: an entry that was not filled is tried again. *)
ClearedNever == pending

(* Queued entries are good for one attempt. *)
Cleared == [t \in Tickers |-> 0]

Open ==
    /\ pc = "open" /\ session <= LastSession
    /\ \E today \in [Tickers -> Bars \cup {NoBar}] :
          LET filled   == {t \in Tickers : Filling(t, today)}
              qty(t)   == EntryQty(pending[t], today[t].open)
              price(t) == BuyFill(today[t].open, TRUE)
              cost(t)  == price(t) * qty(t) + Commission(qty(t))
          IN  /\ bar' = today
              /\ closes' = [t \in Tickers |-> IF today[t] = NoBar THEN closes[t]
                                              ELSE today[t].close]
              /\ cash' = cash - SumFunction([t \in filled |-> cost(t)])
              /\ lots' = [t \in Tickers |-> IF t \in filled
                                            THEN Bought(lots[t], qty(t), price(t))
                                            ELSE lots[t]]
              /\ book' = [t \in Tickers |-> IF t \in filled
                                            THEN new_position_meta(qty(t), price(t))
                                            ELSE book[t]]
              /\ log' = [log EXCEPT !.bought = @ + Cardinality(filled)]
    /\ pending' = Cleared
    /\ pc' = "scan"
    /\ UNCHANGED <<session, equity, ranked, telemetry>>

-----------------------------------------------------------------------------
(* run_scan.  The candidates are the tickers of today's ranking that pass  *)
(* every gate that does not look at the account: the threshold, which a    *)
(* decayed score fails, Weak, a bar of today, price, liquidity.  A ticker  *)
(* without factors is not in the ranking, and keeps its score in the book. *)
Scan ==
    /\ pc = "scan"
    /\ ranked' \in SUBSET {t \in Tickers : Traded(t)}
    /\ \E score \in [Held -> Scores] :
          /\ \A t \in Held : t \in ranked' => score[t] = "full"
          /\ book' = [t \in Tickers |-> IF t \in Held THEN [book[t] EXCEPT !.score = score[t]]
                                        ELSE book[t]]
    /\ pc' = "manage"
    /\ UNCHANGED <<session, bar, account, pending, log, telemetry, closes>>

-----------------------------------------------------------------------------
(* Exits: evaluate_stops and decide_exit on a daily bar.  The open comes   *)
(* before the low, at which the price stops are tested and fill; the close *)
(* counts for the next day's peak, and is where the other exits fill.      *)

PriceTriggered == {"hard_stop", "trailing_stop"}

evaluate_stops(p, peak, price) ==
    IF 100 * (p.entry - price) >= HardStop * p.entry THEN "hard_stop"
    ELSE IF peak > p.entry /\ 100 * (peak - price) >= Trailing * peak THEN "trailing_stop"
    ELSE IF p.bars >= TimeStop THEN "time_stop"
    ELSE IF p.score = "gone" THEN "signal_decay_75"
    ELSE IF p.score = "half" /\ ~p.halved THEN "signal_decay_50"
    ELSE "hold"

(* What the decision asks for, and what it leaves in the book; a share     *)
(* cannot be halved, but the halve is done all the same.                   *)
decide_exit(p, today) ==
    LET peak   == Greatest(p.peak, today.open)
        reason == evaluate_stops(p, peak, today.low)
    IN  [action |-> CASE reason = "hold" -> "hold"
                      [] reason = "signal_decay_50" ->
                             IF p.qty \div 2 = 0 THEN "hold" ELSE "halve"
                      [] OTHER -> "exit",
         qty    |-> CASE reason = "hold" -> 0
                      [] reason = "signal_decay_50" -> p.qty \div 2
                      [] OTHER -> p.qty,
         fill   |-> IF reason \in PriceTriggered THEN today.low ELSE today.close,
         peak   |-> Greatest(peak, today.close),
         halved |-> p.halved \/ reason = "signal_decay_50"]

(* A position after its bar: marked, a bar older, trimmed or gone. *)
Aged(t) == [book[t] EXCEPT !.bars = @ + 1, !.mark = bar[t].close]

Decision(t) == decide_exit(Aged(t), bar[t])
SoldQty(t)  == Least(Decision(t).qty, lots[t].qty)

Managed == {t \in Held : Traded(t)}
Selling == {t \in Managed : SoldQty(t) > 0}

(* Mutant of AfterExit: the book forgets that a halve was sold. *)
AfterExitUntrimmed(t) ==
    LET d == Decision(t)
    IN  IF t \in Selling /\ d.action = "exit" THEN NoPosition
        ELSE [Aged(t) EXCEPT !.peak = d.peak, !.halved = d.halved]

AfterExit(t) ==
    LET d == Decision(t)
    IN  IF t \in Selling /\ d.action = "exit" THEN NoPosition
        ELSE [Aged(t) EXCEPT !.peak = d.peak, !.halved = d.halved,
                             !.qty = @ - SoldQty(t)]

(* submit_sell *)
Remaining(t) ==
    IF lots[t].qty = SoldQty(t) THEN NoLot ELSE [lots[t] EXCEPT !.qty = @ - SoldQty(t)]

Proceeds(t) == SellFill(Decision(t).fill) * SoldQty(t) - Commission(SoldQty(t))

Realized(t) ==
    realized_pnl(book[t].entry, book[t].qty, SoldQty(t), SellFill(Decision(t).fill))

(* Mutant of Trades: a halve counts as a trade. *)
TradesWithHalves == Selling

(* The trades Kelly learns from are the full exits. *)
Trades == {t \in Selling : Decision(t).action = "exit"}

Manage ==
    /\ pc = "manage"
    /\ book' = [t \in Tickers |-> IF t \in Managed THEN AfterExit(t) ELSE book[t]]
    /\ lots' = [t \in Tickers |-> IF t \in Selling THEN Remaining(t) ELSE lots[t]]
    /\ cash' = cash + SumFunction([t \in Selling |-> Proceeds(t)])
    /\ log' = [log EXCEPT
                  !.wins     = @ + Cardinality({t \in Trades : Realized(t) > 0}),
                  !.losses   = @ + Cardinality({t \in Trades : Realized(t) < 0}),
                  !.even     = @ + Cardinality({t \in Trades : Realized(t) = 0}),
                  !.realized = @ + SumFunction([t \in Selling |-> Realized(t)])]
    /\ gapped' = \E t \in Managed :
                    100 * (book[t].entry - bar[t].low) >= GapThrough * book[t].entry
    /\ pc' = IF kill.active \/ ranked = {} THEN "close" ELSE "mark"
    /\ UNCHANGED <<session, bar, equity, ranked, pending, curve, kill, closes>>

-----------------------------------------------------------------------------
(* Entries for the next session, and the end of the day *)

(* Mutant of MarkOf: a position without a bar today is worth its cost. *)
MarkOrCost(t) == IF Traded(t) THEN book[t].mark ELSE lots[t].avg

(* A position without a bar today keeps its last mark. *)
MarkOf(t) == IF book[t] = NoPosition THEN lots[t].avg ELSE book[t].mark

Owned      == {t \in Tickers : lots[t].qty > 0}
Worth(t)   == lots[t].qty * MarkOf(t)
Notional   == SumFunction([t \in Owned |-> Worth(t)])
Reserved   == SumFunction([t \in Queued |-> pending[t]])

mark_to_market == equity' = cash + Notional

(* The account the gates see. *)
Mark ==
    /\ pc = "mark" /\ pc' = "propose"
    /\ mark_to_market
    /\ UNCHANGED <<session, bar, cash, lots, book, ranked, pending, log, telemetry, closes>>

(* setup_stats_from_trades: there is a payoff once both outcomes were seen. *)
ObservedPayoffs == IF log.wins > 0 /\ log.losses > 0 THEN Payoffs ELSE {PriorPayoff}

TargetSize(payoff) ==
    (equity * kelly_position_pct(log.wins, log.wins + log.losses + log.even, payoff)) \div 1000

(* propose_entries, one candidate in the order of the scores: sized, and   *)
(* queued if the account can afford it with what is queued before it.      *)
Propose ==
    /\ pc = "propose"
    /\ \E t \in ranked, soon \in BOOLEAN, payoff \in ObservedPayoffs :
          LET target == TargetSize(payoff)
              size   == AdjustedSize(target, soon)
          IN  /\ ranked' = ranked \ {t}
              /\ pending' =
                   IF target > 0 /\ Affordable(t, size, equity, Notional + Reserved,
                                               Owned \cup Queued, Cardinality(Queued))
                   THEN [pending EXCEPT ![t] = size] ELSE pending
    /\ pc' = IF ranked' = {} THEN "close" ELSE "propose"
    /\ UNCHANGED <<session, bar, account, book, log, telemetry, closes>>

(* The equity arms of telemetry.py, over the sessions of the curve. *)
Loss(history, from, percent) ==
    LET now == Len(history)
    IN  history[from] > 0 /\ 100 * (history[from] - history[now]) >= percent * history[from]

(* rolling_30d_max_drawdown: from the best of the last thirty days. *)
DrawnDown(history) ==
    \E s \in DOMAIN history : /\ CalendarDay[s] + 30 >= CalendarDay[Len(history)]
                              /\ Loss(history, s, Drawdown)

(* Mutant of LostInThreeDays: the window is a weekday short. *)
LostInTwoDays(history) ==
    LET window == {s \in DOMAIN history : Weekday[s] + 2 >= Weekday[Len(history)]}
    IN  Loss(history, CHOOSE s \in window : \A other \in window : s <= other, ThreeDayLoss)

(* last_3_days_cumulative_pnl_pct: from the oldest session of the last     *)
(* four weekdays.                                                          *)
LostInThreeDays(history) ==
    LET window == {s \in DOMAIN history : Weekday[s] + 3 >= Weekday[Len(history)]}
    IN  Loss(history, CHOOSE s \in window : \A other \in window : s <= other, ThreeDayLoss)

Verdict(history) == DrawnDown(history) \/ LostInThreeDays(history) \/ gapped

(* The sticky cooldown of risk/killswitch.py, in days. *)
advance_killswitch(state, tripped, now) ==
    IF state.tripped # NoTrip /\ now < state.tripped + Cooldown
    THEN [state EXCEPT !.active = TRUE]
    ELSE IF tripped
         THEN [active |-> TRUE, tripped |-> IF state.active THEN state.tripped ELSE now]
    ELSE [active |-> FALSE, tripped |-> NoTrip]

(* Mutant of record_equity: a killed account is not followed. *)
RecordUnlessKilled(history, value) == IF kill.active THEN history ELSE Append(history, value)

record_equity(history, value) == Append(history, value)

(* End of the day: the equity curve and the killswitch; gap marks are of a day. *)
Close ==
    /\ pc = "close"
    /\ mark_to_market
    /\ curve' = record_equity(curve, equity')
    /\ kill' = advance_killswitch(kill, Verdict(curve'), CalendarDay[session])
    /\ gapped' = FALSE
    /\ bar' = [t \in Tickers |-> NoBar]
    /\ closes' = [t \in Tickers |-> IF book[t] = NoPosition THEN 0 ELSE closes[t]]
    /\ session' = session + 1 /\ pc' = "open"
    /\ UNCHANGED <<cash, lots, book, ranked, pending, log>>

Next == Open \/ Scan \/ Manage \/ Mark \/ Propose \/ Close

Spec == Init /\ [][Next]_vars

-----------------------------------------------------------------------------
(* Properties *)

(* The runner's book and the broker's lots are two records of one account, *)
(* kept by different code: after fills, halves and exits they agree on     *)
(* every quantity and on every entry price (runner.py, simulator.py).      *)
BookMatchesBroker ==
    \A t \in Tickers : lots[t] = [qty |-> book[t].qty, avg |-> book[t].entry]

(* The cash of the broker is what the trade log accounts for: what was     *)
(* realized, less the cost of what is held, each share having paid its     *)
(* entry commission once however it was sold (realized_pnl in book.py).    *)
LedgerBalances ==
    cash = InitialCash + log.realized
           - SumFunction([t \in Held |-> book[t].entry * book[t].qty + Commission(book[t].qty)])

(* Entries are sized on the marks of one close and paid at the next open,  *)
(* with slippage and commissions; the cash is there all the same.          *)
CashCoversEntries == cash >= 0

(* What is queued for the next open fits the caps of config.py together    *)
(* with what is held, though it was accepted one candidate at a time, and  *)
(* the number of positions never exceeds its cap (propose_entries).        *)
CapsHold ==
    /\ Cardinality(Owned \cup Queued) <= MaxPositions
    /\ Queued # {} =>
         /\ Queued \cap Owned = {}
         /\ Cardinality(Queued) <= MaxNewPerDay
         /\ 100 * (Notional + Reserved) <= MaxGross * equity
         /\ \A t \in Queued : 1000 * pending[t] <= PositionCap * equity

(* The equity of the curve, on which the drawdown arms act, values every   *)
(* position at the last price its market made, also when a day or more     *)
(* went by without a bar (mark_to_market, the carried marks of runner.py). *)
MarkedAtLastClose ==
    pc = "open" =>
        equity = cash + SumFunction([t \in Owned |-> lots[t].qty * closes[t]])

(* Kelly learns from one trade per entry: halves are not trades, and no    *)
(* exit is counted twice or missed (R7.C3).                                *)
OneTradePerEntry == log.bought = log.wins + log.losses + log.even + Cardinality(Held)

(* However the window moved and whether or not a cooldown has just ended,  *)
(* a day that closes on a drawdown, or on a loss against the close three   *)
(* sessions earlier in a week without holidays, leaves entries locked.     *)
LossLocksEntries ==
    LET now == Len(curve)
    IN  pc = "open" /\ now > 0 =>
          /\ \A s \in 1..now : /\ CalendarDay[s] + 30 >= CalendarDay[now]
                               /\ Loss(curve, s, Drawdown)
                               => kill.active
          /\ /\ now > 3 /\ Weekday[now - 3] + 3 = Weekday[now]
             /\ Loss(curve, now - 3, ThreeDayLoss)
             => kill.active

(* No position is opened and none grows while the switch is active,        *)
(* whatever was queued before it tripped (R7.C2).                          *)
KilledNeverBuys == [][kill.active => \A t \in Tickers : lots'[t].qty <= lots[t].qty]_vars
=============================================================================
