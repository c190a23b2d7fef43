-------------------------------- MODULE Sizing --------------------------------
(***************************************************************************)
(* The pure rules between a candidate and an order, shared by the backtest *)
(* and the premarket job: risk/kelly.py, risk/gates.py, the cost model of  *)
(* the simulator and realized_pnl.  Money is in mills (1/1000 dollar),     *)
(* a Kelly size in thousandths of equity, a payoff in tenths; the float    *)
(* tolerances of the code have no counterpart here.                        *)
(***************************************************************************)
EXTENDS Integers, FiniteSets

CONSTANTS
    KellyFraction,    \* risk.kelly_fraction, percent
    PositionCap,      \* risk.position_cap, thousandths of equity
    PriorN,           \* risk.bayes_prior_n
    PriorWin,         \* win_rate of the setup's prior, percent
    PriorPayoff,      \* payoff of the setup's prior, tenths
    MaxGross,         \* risk.max_gross_exposure, percent of equity
    MaxPositions,     \* risk.max_positions
    MaxNewPerDay      \* risk.max_new_per_day

ASSUME KellyAssumption ==
    /\ KellyFraction \in Nat /\ PositionCap \in 0..1000
    /\ PriorN \in Nat \ {0} /\ PriorWin \in 0..100 /\ PriorPayoff \in Nat \ {0}
ASSUME CapsAssumption ==
    MaxGross \in Nat /\ MaxPositions \in Nat /\ MaxNewPerDay \in Nat

Least(a, b)    == IF a <= b THEN a ELSE b
Greatest(a, b) == IF a >= b THEN a ELSE b

-----------------------------------------------------------------------------
(* risk/kelly.py *)

(* Fractional Kelly on a win rate p and a payoff b that are shrunk towards *)
(* the prior with weight PriorN: p = P / 100N, b = B / 10N, and the raw    *)
(* Kelly (p * b - (1 - p)) / b is edge / 100NB.                            *)
kelly_position_pct(wins, trades, payoff) ==
    LET N == trades + PriorN
        P == 100 * wins + PriorN * PriorWin
        B == trades * payoff + PriorN * PriorPayoff
        edge == P * B - (100 * N - P) * 10 * N
    IN  IF edge <= 0 THEN 0
        ELSE Least(PositionCap, (KellyFraction * edge) \div (10 * N * B))

-----------------------------------------------------------------------------
(* risk/gates.py: the account the gates look at (PortfolioState) is its    *)
(* equity, the exposure with what is reserved so far, the names held or    *)
(* reserved, and how many were accepted today.                             *)

(* Mutant of Affordable: today's reservations do not count towards the gross cap. *)
AffordableUnreserved(t, size, equity, exposure, names, opened) ==
    /\ equity > 0
    /\ opened < MaxNewPerDay
    /\ Cardinality(names) < MaxPositions
    /\ t \notin names
    /\ 1000 * size <= PositionCap * equity
    /\ 100 * size <= MaxGross * equity

(* The gates that depend on the account.  A size is what is left of the    *)
(* target after the earnings gate.                                         *)
Affordable(t, size, equity, exposure, names, opened) ==
    /\ equity > 0
    /\ opened < MaxNewPerDay
    /\ Cardinality(names) < MaxPositions
    /\ t \notin names
    /\ 1000 * size <= PositionCap * equity
    /\ 100 * (exposure + size) <= MaxGross * equity

(* The earnings gate halves a size; what is left is never nothing. *)
AdjustedSize(target, soon) == IF soon THEN (target + 1) \div 2 ELSE target

-----------------------------------------------------------------------------
(* backtest/cost_model.py: basis points of slippage by price class, more   *)
(* in the opening window, and half a cent a share of commission.           *)

Slippage(price, open) ==
    (price * ((IF price >= 10000 THEN 5 ELSE 15) + (IF open THEN 10 ELSE 0))) \div 10000

BuyFill(price, open) == price + Slippage(price, open)
SellFill(price)      == price - Slippage(price, FALSE)
Commission(qty)      == 5 * qty

(* Mutant of realized_pnl: a partial sale is charged the whole entry       *)
(* commission of the position.                                             *)
RealizedChargingAll(entry, held, qty, fill) ==
    (fill - entry) * qty - Commission(held) - Commission(qty)

(* realized_pnl in execution/book.py: each share sold pays its part of the *)
(* entry commission, once, and the commission of the sale.                 *)
realized_pnl(entry, held, qty, fill) ==
    (fill - entry) * qty - Commission(qty) - Commission(qty)
=============================================================================
