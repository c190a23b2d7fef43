------------------------------ MODULE MCPipeline ------------------------------
(* The pipeline in a week with a holiday on Monday and one on Friday.      *)
EXTENDS Pipeline, TLC

Week           == 1..5
WeekOfHolidays == {2, 3, 4}

Automatic ==
    [auto_enter : {TRUE}, require_fresh : BOOLEAN] \cup
    [auto_enter : {FALSE}, require_fresh : {TRUE}]

TickerSymmetry == Permutations(Tickers)
=============================================================================
