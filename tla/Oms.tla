--------------------------------- MODULE Oms ---------------------------------
(***************************************************************************)
(* The TWAP order manager: the plan of execution/slicing.py                *)
(* (build_twap_plan, escalate_aggression) and its execution slice by slice *)
(* in execution/oms.py (execute, _await_terminal), against a broker that   *)
(* fills, ends, rejects and loses orders at any await.  Order s is the one *)
(* placed for slice s; a slice submitted in the same second as the one     *)
(* before it, for the same quantity, is given that one's order instead     *)
(* (_place in broker/ibkr.py).  Prices are left out but for the choice     *)
(* between the scheduled and the marketable aggression; so is the wall     *)
(* clock: how often an order is polled before the budget is spent, and     *)
(* whether two slices fall in one second, are free choices.                *)
(***************************************************************************)
EXTENDS Integers, Sequences, FiniteSets, FiniteSetsExt

CONSTANTS
    MaxTotal,    \* shares asked for, at most
    MaxSlices    \* n_slices, at most

ASSUME MaxAssumption == MaxTotal \in Nat /\ MaxSlices \in Nat \ {0}

VARIABLES
    simulated,      \* the broker is SimulatorBroker, not IBKRBroker
    total,          \* shares asked for
    plan,           \* qty of each slice
    i,              \* slice in hand
    pc,             \* where execute is suspended
    handle,         \* the order each slice was given
    latest,         \* last answer about the order in hand
    slices_filled,  \* slices reported filled whole
    cumulative,     \* cumulative_qty
    result,         \* result.orders, with the filled qty it counted
    aggression,     \* of the last slice placed
    orders,         \* the orders at the broker
    outage,         \* broker calls may fail
    uncancelled     \* orders whose cancel call failed (history)

asked_for == <<simulated, total, plan>>
oms_vars == <<i, pc, handle, latest, slices_filled, cumulative, result, aggression,
              uncancelled>>
vars == <<asked_for, oms_vars, orders, outage>>

Lots     == 1..MaxSlices
TERMINAL == {"filled", "cancelled", "rejected"}
Statuses == TERMINAL \cup {"open", "partial"}
Answer   == [status : Statuses, filled : 0..MaxTotal]
NoAnswer == [status |-> "open", filled |-> 0]
Order    == [filled : 0..MaxTotal,
             st : {"none", "working", "cancelling", "done", "rejected"}]

TypeOK ==
    /\ simulated \in BOOLEAN
    /\ total \in 0..MaxTotal
    /\ plan \in Seq(1..total) /\ Len(plan) <= MaxSlices
    /\ i \in 1..MaxSlices + 1
    /\ pc \in {"slice", "poll", "cancel", "confirm", "done", "failed"}
    /\ handle \in [Lots -> Lots] /\ \A s \in Lots : handle[s] <= s
    /\ latest \in Answer
    /\ slices_filled \in 0..MaxSlices
    /\ cumulative \in 0..total
    /\ result \in Seq(Answer) /\ Len(result) = i - 1
    /\ aggression \in {"none", "scheduled", "marketable"}
    /\ orders \in [Lots -> Order]
    /\ outage \in BOOLEAN
    /\ uncancelled \in SUBSET Lots

-----------------------------------------------------------------------------
(* slicing.py *)

(* Mutants of build_twap_plan: the remainder is lost; every slice gets it. *)
PlanWithoutRemainder(qty, n) ==
    LET k == IF n < qty THEN n ELSE qty IN [s \in 1..k |-> qty \div k]

PlanRemainderTwice(qty, n) ==
    LET k == IF n < qty THEN n ELSE qty IN [s \in 1..k |-> (qty \div k) + (qty % k)]

(* Equal slices of at least one share, the last one takes the remainder. *)
build_twap_plan(qty, n) ==
    LET k == IF n < qty THEN n ELSE qty
    IN  [s \in 1..k |-> (qty \div k) + IF s = k THEN qty % k ELSE 0]

(* Four fifths or more of the slices so far were not filled whole. *)
escalate_aggression(submitted, filled) ==
    IF submitted > 0 /\ 5 * (submitted - filled) >= 4 * submitted
    THEN "marketable" ELSE "scheduled"

Init ==
    /\ simulated \in BOOLEAN
    /\ total \in 0..MaxTotal
    /\ \E n \in Lots : plan = build_twap_plan(total, n)
    /\ i = 1
    /\ pc = IF plan = <<>> THEN "done" ELSE "slice"
    /\ handle = [s \in Lots |-> s]
    /\ latest = NoAnswer /\ slices_filled = 0 /\ cumulative = 0 /\ result = <<>>
    /\ aggression = "none"
    /\ orders = [s \in Lots |-> [filled |-> 0, st |-> "none"]]
    /\ outage = FALSE
    /\ uncancelled = {}

-----------------------------------------------------------------------------
(* The broker *)

Live(s) == orders[s].st \in {"working", "cancelling"}

(* get_order *)
Asked(s) ==
    [filled |-> orders[s].filled,
     status |-> CASE orders[s].st = "rejected"                         -> "rejected"
                  [] orders[s].st = "done" /\ orders[s].filled = plan[s] -> "filled"
                  [] orders[s].st = "done" /\ orders[s].filled < plan[s] -> "cancelled"
                  [] Live(s) /\ orders[s].filled > 0                   -> "partial"
                  [] OTHER                                             -> "open"]

Fill(s, n) ==
    /\ Live(s) /\ orders[s].filled + n <= plan[s]
    /\ orders' = [orders EXCEPT
           ![s] = [filled |-> @.filled + n,
                   st |-> IF @.filled + n = plan[s] THEN "done" ELSE @.st]]
    /\ UNCHANGED <<asked_for, oms_vars, outage>>

Ends(s) ==
    /\ Live(s)
    /\ \E st \in {"done", "rejected"} : orders' = [orders EXCEPT ![s].st = st]
    /\ UNCHANGED <<asked_for, oms_vars, outage>>

OutageToggles == ~simulated /\ outage' = ~outage /\ UNCHANGED <<asked_for, oms_vars, orders>>

-----------------------------------------------------------------------------
(* oms.py *)

(* Mutant of Filled: every closed order counts as bought whole. *)
FilledWhenClosed(answer, qty) ==
    IF answer.status \in TERMINAL THEN qty ELSE answer.filled

(* The shares an answer stands for: a fill may come without its quantity. *)
Filled(answer, qty) ==
    IF answer.filled > 0 THEN answer.filled
    ELSE IF answer.status = "filled" THEN qty ELSE 0

(* Mutants of Conclude: a partial fill counts as a filled slice, or its    *)
(* shares do not count at all.                                             *)
ConcludeCountsPartials(answer) ==
    LET n == Filled(answer, plan[i]) IN
    /\ result' = Append(result, [answer EXCEPT !.filled = n])
    /\ cumulative' = cumulative + n
    /\ slices_filled' = slices_filled + IF n > 0 THEN 1 ELSE 0
    /\ i' = i + 1
    /\ pc' = IF i = Len(plan) THEN "done" ELSE "slice"
    /\ latest' = NoAnswer

ConcludeWholeOnly(answer) ==
    LET n == IF answer.status = "filled" THEN Filled(answer, plan[i]) ELSE 0 IN
    /\ result' = Append(result, [answer EXCEPT !.filled = n])
    /\ cumulative' = cumulative + n
    /\ slices_filled' = slices_filled + IF n > 0 THEN 1 ELSE 0
    /\ i' = i + 1
    /\ pc' = IF i = Len(plan) THEN "done" ELSE "slice"
    /\ latest' = NoAnswer

(* _await_terminal returns: the slice is booked and the next one is due. *)
Conclude(answer) ==
    LET n == Filled(answer, plan[i]) IN
    /\ result' = Append(result, [answer EXCEPT !.filled = n])
    /\ cumulative' = cumulative + n
    /\ slices_filled' = slices_filled + IF answer.status = "filled" THEN 1 ELSE 0
    /\ i' = i + 1
    /\ pc' = IF i = Len(plan) THEN "done" ELSE "slice"
    /\ latest' = NoAnswer

Booked == <<slices_filled, cumulative, result, i>>

(* The quote (a failed one falls back to the planned price) and the submit *)
(* of slice i: the order works, is filled at once, is refused, or the call *)
(* raises and with it execute.  The simulator always settles it at once;   *)
(* the answer of IBKRBroker carries no filled quantity.                    *)
Placing ==
    /\ pc = "slice"
    /\ aggression' = escalate_aggression(i - 1, slices_filled)
    /\ UNCHANGED <<asked_for, outage, uncancelled>>

PlacingAnew == Placing /\ UNCHANGED handle

(* The client reference names side, quantity and second: the order of the  *)
(* slice before is handed out again, as it stands while it is open and as  *)
(* pending once it is over.                                                *)
SubmitDeduped ==
    /\ Placing /\ ~simulated
    /\ i > 1 /\ plan[i] = plan[i - 1]
    /\ handle' = [handle EXCEPT ![i] = handle[i - 1]]
    /\ latest' = IF Live(handle[i - 1]) THEN Asked(handle[i - 1]) ELSE NoAnswer
    /\ pc' = "poll"
    /\ UNCHANGED <<orders, Booked>>

SubmitWorking ==
    /\ PlacingAnew /\ ~simulated
    /\ orders' = [orders EXCEPT ![i] = [filled |-> 0, st |-> "working"]]
    /\ pc' = "poll" /\ latest' = NoAnswer
    /\ UNCHANGED Booked

SubmitFilled ==
    /\ PlacingAnew
    /\ orders' = [orders EXCEPT ![i] = [filled |-> plan[i], st |-> "done"]]
    /\ Conclude([status |-> "filled", filled |-> IF simulated THEN plan[i] ELSE 0])

SubmitDead ==
    /\ PlacingAnew /\ ~simulated
    /\ orders' = [orders EXCEPT ![i] = [filled |-> 0, st |-> "rejected"]]
    /\ Conclude([status |-> "rejected", filled |-> 0])

SubmitRaises ==
    /\ pc = "slice" /\ outage
    /\ pc' = "failed"
    /\ UNCHANGED <<asked_for, handle, latest, Booked, aggression, orders, outage, uncancelled>>

(* One get_order of the first loop, or of the one after the cancel. *)
Poll ==
    /\ pc \in {"poll", "confirm"}
    /\ IF Asked(handle[i]).status \in TERMINAL
       THEN Conclude(Asked(handle[i]))
       ELSE latest' = Asked(handle[i]) /\ UNCHANGED <<pc, Booked>>
    /\ UNCHANGED <<asked_for, handle, aggression, orders, outage, uncancelled>>

(* Mutant of StopWaiting: the order is left as it is. *)
StopWaitingUncancelled ==
    /\ pc = "poll"
    /\ Conclude(latest)
    /\ UNCHANGED <<asked_for, handle, aggression, orders, outage, uncancelled>>

(* The budget is spent, the broker does not answer or knows nothing. *)
StopWaiting ==
    /\ pc = "poll" /\ pc' = "cancel"
    /\ UNCHANGED <<asked_for, handle, latest, Booked, aggression, orders, outage, uncancelled>>

(* cancel_order: ignored when the order is over, otherwise granted at once *)
(* or pending.                                                             *)
Cancel ==
    /\ pc = "cancel" /\ pc' = "confirm"
    /\ IF Live(handle[i])
       THEN \E st \in {"done", "cancelling"} : orders' = [orders EXCEPT ![handle[i]].st = st]
       ELSE UNCHANGED orders
    /\ UNCHANGED <<asked_for, handle, latest, Booked, aggression, outage, uncancelled>>

CancelFails ==
    /\ pc = "cancel" /\ outage
    /\ Conclude(latest)
    /\ uncancelled' = uncancelled \cup {handle[i]}
    /\ UNCHANGED <<asked_for, handle, aggression, orders, outage>>

(* Mutant of GiveUp: the loop after the cancel only ends with the order. *)
GiveUpNever ==
    /\ pc = "confirm" /\ outage
    /\ Conclude(latest)
    /\ UNCHANGED <<asked_for, handle, aggression, orders, outage, uncancelled>>

(* Twenty polls later the order is still open, or a poll failed. *)
GiveUp ==
    /\ pc = "confirm"
    /\ \/ outage /\ Conclude(latest)
       \/ Live(handle[i]) /\ Conclude(Asked(handle[i]))
    /\ UNCHANGED <<asked_for, handle, aggression, orders, outage, uncancelled>>

-----------------------------------------------------------------------------

Execute ==
    \/ SubmitWorking \/ SubmitFilled \/ SubmitDead \/ SubmitDeduped \/ SubmitRaises
    \/ Poll \/ StopWaiting
    \/ Cancel \/ CancelFails \/ GiveUp

Broker ==
    \/ \E s \in Lots : Ends(s) \/ \E n \in 1..MaxTotal : Fill(s, n)
    \/ OutageToggles

Next == Execute \/ Broker

Spec == Init /\ [][Next]_vars

(* asyncio resumes every await, and both polling loops are bounded. *)
FairSpec == Spec /\ WF_vars(Execute)

-----------------------------------------------------------------------------
(* Properties *)

(* PlanCoversTotal: for every quantity and slice count the slices add up   *)
(* to what was asked for and none is empty (slicing.py 89-117).            *)
PlanCoversTotal ==
    /\ SumFunction(plan) = total
    /\ \A s \in DOMAIN plan : plan[s] > 0

(* ResultExact: filled_qty adds up the slices, and each slice reports what *)
(* its order bought, unless it gave up on an order that was still open     *)
(* (oms.py 119-159, 184-207).                                              *)
ResultExact ==
    /\ cumulative = SumFunction([s \in 1..i - 1 |-> result[s].filled])
    /\ \A s \in 1..i - 1 :
          result[s].filled # orders[handle[s]].filled => result[s].status \notin TERMINAL

(* LeftWorkingOnlyByOutage: when a slice is placed, every earlier one has  *)
(* ended or been cancelled, unless the cancel call itself failed: slices   *)
(* do not pile up in the market (oms.py 106-119, 184-188).                 *)
LeftWorkingOnlyByOutage ==
    \A s \in 1..i - 1 : orders[s].st = "working" => s \in uncancelled

(* EscalatesWhenLagging: a slice placed when at most a fifth of those      *)
(* before it were filled whole is marketable; partial fills are not        *)
(* success (oms.py 126-132, slicing.py 52-56).                             *)
EscalatesWhenLagging ==
    [][pc = "slice" /\ i > 1 /\ <<pc', i'>> # <<pc, i>> /\ pc' # "failed"
       /\ 5 * Cardinality({s \in 1..i - 1 : result[s].filled = plan[s]}) <= i - 1
            => aggression' = "marketable"]_vars

(* ExecuteEnds: execute returns or raises, whatever the broker does        *)
(* (oms.py 169-207).                                                       *)
ExecuteEnds == <>(pc \in {"done", "failed"})

(* Buys: the abstract purchase.  Each slice reports what _await_terminal   *)
(* gave back for it, and stands for the order it was handed, so a slice    *)
(* that was handed an earlier order reports that order once more.          *)
Buys == INSTANCE Purchase WITH
    asked    <- [s \in Lots |-> IF s \in DOMAIN plan THEN plan[s] ELSE 0],
    lot      <- handle,
    bought   <- [s \in Lots |-> orders[s].filled],
    reported <- [s \in Lots |-> IF s < i THEN result[s].filled ELSE -1]

(* ImplementsPurchase: no slice is overbought, none reports shares its     *)
(* order has not bought, and an order is reported by a second slice only   *)
(* when that slice has the same quantity and has placed no order of its    *)
(* own (oms.py 39-159, ibkr.py 331-346).                                   *)
ImplementsPurchase == Buys!Spec
=============================================================================
