------------------------------ MODULE MCBacktest ------------------------------
(* The backtest on a small market.  A session is a gain, a calm day at a   *)
(* low price, or a crash past every stop, for each ticker on its own; both *)
(* classes of slippage occur, and none is rounded.  A weekend comes after  *)
(* the second session.  Tickers are interchangeable.                       *)
EXTENDS Backtest, TLC

Gain  == [open |-> 12000, low |-> 12000, close |-> 16000]
Calm  == [open |-> 8000,  low |-> 8000,  close |-> 8000]
Crash == [open |-> 12000, low |-> 6000,  close |-> 6000]
MCBars == {Gain, Calm, Crash}

MCWeekday     == [s \in 1..LastSession |-> s]
MCCalendarDay == [s \in 1..LastSession |-> IF s > 2 THEN s + 2 ELSE s]

TickerSymmetry == Permutations(Tickers)
=============================================================================
