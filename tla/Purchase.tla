------------------------------ MODULE Purchase ------------------------------
(***************************************************************************)
(* What a buyer may rely on when an order is worked in lots, whatever the  *)
(* broker does: a lot is never bought beyond what was asked for, each slot *)
(* is reported once, and its report is never ahead of what was bought.     *)
(* Shares may still arrive after the report: that is the part it leaves    *)
(* out.  A slot may turn out to share the lot of an earlier slot of the    *)
(* same size; it then buys nothing of its own and reports that lot again,  *)
(* so only the reports of slots with a lot of their own add up to shares   *)
(* that are there.                                                         *)
(***************************************************************************)
EXTENDS Integers

CONSTANT Lots

VARIABLES
    asked,      \* shares asked for in each slot
    lot,        \* the lot each slot stands for
    bought,     \* shares bought in each lot
    reported    \* shares reported for each slot, or Unreported

vars == <<asked, lot, bought, reported>>

Unreported == -1

Init ==
    /\ asked \in [Lots -> Nat]
    /\ lot = [s \in Lots |-> s]
    /\ bought = [s \in Lots |-> 0]
    /\ reported = [s \in Lots |-> Unreported]

Buy(s, n) ==
    /\ lot[s] = s
    /\ bought[s] + n <= asked[s]
    /\ bought' = [bought EXCEPT ![s] = @ + n]
    /\ UNCHANGED <<asked, lot, reported>>

Reports(s, n, sofar) ==
    /\ reported[s] = Unreported
    /\ n <= sofar[lot[s]]
    /\ reported' = [reported EXCEPT ![s] = n]

(* A report of what was bought some time ago, or of a lot bought at once. *)
Report(s, n) == Reports(s, n, bought) /\ UNCHANGED <<asked, lot, bought>>

BuyAndReport(s) ==
    /\ lot[s] = s /\ bought[s] = 0
    /\ bought' = [bought EXCEPT ![s] = asked[s]]
    /\ Reports(s, asked[s], bought')
    /\ UNCHANGED <<asked, lot>>

(* Slot s gets the lot that slot p has reported. *)
ShareLot(s, p) ==
    /\ lot[s] = s /\ bought[s] = 0 /\ reported[s] = Unreported
    /\ reported[p] # Unreported /\ asked[p] = asked[s]
    /\ lot' = [lot EXCEPT ![s] = lot[p]]
    /\ UNCHANGED <<asked, bought, reported>>

Next ==
    \E s \in Lots :
        \/ \E n \in 1..asked[s] : Buy(s, n)
        \/ \E n \in 0..asked[s] : Report(s, n)
        \/ BuyAndReport(s)
        \/ \E p \in Lots : ShareLot(s, p)

Spec == Init /\ [][Next]_vars
=============================================================================
