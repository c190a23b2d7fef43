----------------------------- MODULE MCKillswitch -----------------------------
(* The killswitch on small instances; the tickers are interchangeable. *)
EXTENDS Killswitch, TLC

TickerSymmetry == Permutations(Tickers)
=============================================================================
