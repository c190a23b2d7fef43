------------------------------ MODULE OmsProofs ------------------------------
(***************************************************************************)
(* For every order and every number of slices: the order manager's state   *)
(* is well typed, the plan adds up to the order, slices do not pile up,    *)
(* what is reported is what was bought, a lagging execution escalates, and *)
(* the whole implements the abstract purchase.                             *)
(***************************************************************************)
EXTENDS Oms, Sums, SequenceTheorems

Active == {"poll", "cancel", "confirm"}

Unplaced == [filled |-> 0, st |-> "none"]

(* The plan is equal slices with the remainder in the last one. *)
Shape ==
    /\ Len(plan) <= total /\ (Len(plan) = 0 => total = 0)
    /\ \A s \in 1..Len(plan) :
          plan[s] = (total \div Len(plan)) + IF s = Len(plan) THEN total % Len(plan) ELSE 0

(* What is booked fits into the slices that are over. *)
BookedFits ==
    IF Len(plan) = 0 THEN cumulative = 0
    ELSE cumulative <= (i - 1) * (total \div Len(plan))
                       + IF i > Len(plan) THEN total % Len(plan) ELSE 0

InPlan ==
    /\ i <= Len(plan) + 1
    /\ pc \in {"slice"} \cup Active => i <= Len(plan)
    /\ slices_filled < i

(* Nothing is placed ahead of the slice in hand. *)
Fresh ==
    \A s \in Lots : s > i \/ (s = i /\ pc \notin Active) =>
        orders[s] = Unplaced /\ handle[s] = s

Handles == \A s \in 1..Len(plan) : handle[s] \in 1..s /\ plan[handle[s]] = plan[s]

(* No order is overfilled. *)
Capped ==
    \A s \in Lots : IF s \in DOMAIN plan THEN orders[s].filled <= plan[s]
                                         ELSE orders[s].filled = 0

(* The last answer about the order in hand was true and not final. *)
Past ==
    pc \in Active => /\ latest.filled <= orders[handle[i]].filled
                     /\ latest.status \notin TERMINAL

IInv == TypeOK /\ Shape /\ BookedFits /\ InPlan /\ Fresh /\ Handles /\ Capped /\ Past

-----------------------------------------------------------------------------

(* Quotient and remainder, as the plan uses them. *)
LEMMA Division ==
    ASSUME NEW q \in Nat, NEW k \in 1..q
    PROVE  /\ q \div k \in 1..q /\ q % k \in 0..k-1
           /\ k * (q \div k) + (q % k) = q
           /\ (q \div k) + (q % k) \in 1..q
<1> DEFINE d == q \div k
           r == q % k
<1>1. d \in Int /\ r \in 0..k-1 /\ k * d + r = q
    OBVIOUS
<1>2. d >= 1
    <2>1. SUFFICES ASSUME d <= 0 PROVE FALSE
        BY <1>1
    <2>2. k * d <= 0
        BY <1>1, <2>1
    <2> QED BY <1>1, <2>2
<1>3. k * d >= d
    BY <1>1, <1>2
<1> HIDE DEF d, r
<1>4. d \in 1..q /\ d + r \in 1..q
    BY <1>1, <1>2, <1>3
<1> QED BY <1>1, <1>4 DEF d, r

(* The first slices of a plan of equal ones. *)
LEMMA Multiples ==
    ASSUME NEW k \in Nat, NEW j \in 1..k, NEW d \in Nat
    PROVE  /\ (j - 1) * d \in Int /\ j * d \in Int /\ k * d \in Int
           /\ (j - 1) * d + d = j * d /\ j * d <= k * d
<1>1. (j - 1) * d \in Int /\ j * d \in Int /\ k * d \in Int
    OBVIOUS
<1>2. (j - 1) * d + d = j * d
    OBVIOUS
<1>3. j * d <= k * d
    OBVIOUS
<1> QED BY <1>1, <1>2, <1>3

(* The plan is a sequence of positive quantities, in equal slices. *)
LEMMA PlanType ==
    ASSUME NEW q \in Nat, NEW n \in Nat \ {0}
    PROVE  LET p == build_twap_plan(q, n)
               k == IF n < q THEN n ELSE q
           IN  /\ p \in Seq(1..q) /\ Len(p) = k /\ (p = <<>> <=> q = 0)
               /\ \A s \in 1..k : p[s] = (q \div k) + IF s = k THEN q % k ELSE 0
<1> DEFINE k == IF n < q THEN n ELSE q
           p == build_twap_plan(q, n)
<1>1. k \in 0..q /\ (k = 0 <=> q = 0)
    OBVIOUS
<1>2. p = [s \in 1..k |-> (q \div k) + IF s = k THEN q % k ELSE 0]
    BY DEF build_twap_plan
<1> HIDE DEF k, p
<1>3. ASSUME NEW s \in 1..k PROVE p[s] \in 1..q
    <2>1. k \in 1..q
        BY <1>1, <1>3
    <2>2. (q \div k) \in 1..q /\ (q \div k) + (q % k) \in 1..q
        BY <2>1, Division
    <2>3. CASE s = k
        BY <1>2, <2>2, <2>3
    <2>4. CASE s # k
        BY <1>2, <2>2, <2>4
    <2> QED BY <2>3, <2>4
<1>4. p \in [1..k -> 1..q]
    BY <1>2, <1>3
<1>5. p \in Seq(1..q)
    BY <1>1, <1>4, SeqDef
<1>6. Len(p) = k
    BY <1>1, <1>4, <1>5, LenProperties
<1>7. p = <<>> <=> q = 0
    BY <1>1, <1>5, <1>6, EmptySeq
<1> QED BY <1>2, <1>5, <1>6, <1>7 DEF k, p

LEMMA InitInv == Init => IInv
<1> SUFFICES ASSUME Init PROVE IInv
    OBVIOUS
<1> USE MaxAssumption
<1>1. total \in Nat /\ total \in 0..MaxTotal
    BY DEF Init
<1>2. PICK n \in Lots : plan = build_twap_plan(total, n)
    BY DEF Init
<1> DEFINE k == IF n < total THEN n ELSE total
<1>3. n \in Nat \ {0} /\ n <= MaxSlices /\ k \in Nat /\ k <= MaxSlices /\ k <= total
    BY <1>1, <1>2 DEF Lots
<1>4. /\ plan \in Seq(1..total) /\ Len(plan) = k /\ (plan = <<>> <=> total = 0)
      /\ \A s \in 1..k : plan[s] = (total \div k) + IF s = k THEN total % k ELSE 0
    BY <1>1, <1>2, <1>3, PlanType
<1> HIDE DEF k
<1>5. TypeOK
    <2>1. NoAnswer \in Answer /\ <<>> \in Seq(Answer) /\ Len(<<>>) = 0
        BY EmptySeq DEF NoAnswer, Answer, Statuses, TERMINAL
    <2>2. orders \in [Lots -> Order]
        BY DEF Init, Order
    <2>3. handle \in [Lots -> Lots] /\ \A s \in Lots : handle[s] <= s
        BY DEF Init, Lots
    <2>4. pc \in {"done", "slice"} /\ i \in 1..MaxSlices + 1
        BY DEF Init
    <2>5. /\ latest \in Answer /\ slices_filled \in 0..MaxSlices /\ cumulative \in 0..total
          /\ result \in Seq(Answer) /\ Len(result) = i - 1
        BY <1>1, <2>1 DEF Init
    <2>6. simulated \in BOOLEAN /\ outage \in BOOLEAN /\ uncancelled \in SUBSET Lots
        BY DEF Init
    <2>7. aggression \in {"none", "scheduled", "marketable"}
        BY DEF Init
    <2> QED BY <1>1, <1>3, <1>4, <2>2, <2>3, <2>4, <2>5, <2>6, <2>7 DEF TypeOK
<1>6. Shape
    BY <1>3, <1>4 DEF Shape
<1>7. BookedFits
    <2>1. CASE k = 0
        BY <1>4, <2>1 DEF Init, BookedFits
    <2>2. CASE k # 0
        <3>1. total \div k \in Nat
            BY <1>1, <1>3, <2>2, Division
        <3> QED BY <1>3, <1>4, <2>2, <3>1 DEF Init, BookedFits
    <2> QED BY <2>1, <2>2
<1>8. InPlan
    BY <1>1, <1>3, <1>4 DEF Init, InPlan, Active, k
<1>9. Fresh /\ Handles /\ Capped /\ Past
    <2>1. DOMAIN plan = 1..k /\ \A s \in 1..k : plan[s] \in 1..total
        BY <1>4, LenProperties, ElementOfSeq
    <2> QED BY <1>1, <1>3, <1>4, <2>1
            DEF Init, Fresh, Handles, Capped, Past, Unplaced, Active, Lots
<1> QED BY <1>5, <1>6, <1>7, <1>8, <1>9 DEF IInv

-----------------------------------------------------------------------------
(* What the steps have in common *)

LEMMA PlanFacts ==
    ASSUME TypeOK
    PROVE  /\ MaxTotal \in Nat /\ MaxSlices \in Nat \ {0}
           /\ total \in Nat /\ total <= MaxTotal
           /\ Len(plan) \in Nat /\ Len(plan) <= MaxSlices
           /\ DOMAIN plan = 1..Len(plan) /\ 1..Len(plan) \subseteq Lots
           /\ \A s \in 1..Len(plan) : plan[s] \in 1..total
           /\ i \in Nat /\ i >= 1
<1> USE MaxAssumption
<1>1. /\ MaxTotal \in Nat /\ MaxSlices \in Nat \ {0}
      /\ total \in Nat /\ total <= MaxTotal /\ Len(plan) <= MaxSlices
      /\ i \in Nat /\ i >= 1 /\ plan \in Seq(1..total)
    BY DEF TypeOK
<1>2. Len(plan) \in Nat /\ DOMAIN plan = 1..Len(plan)
    BY <1>1, LenProperties
<1>3. \A s \in 1..Len(plan) : plan[s] \in 1..total
    BY <1>1, ElementOfSeq
<1> QED BY <1>1, <1>2, <1>3 DEF Lots

(* The broker answers with what the order has bought. *)
LEMMA AskedFacts ==
    ASSUME TypeOK, Capped, NEW s \in 1..Len(plan)
    PROVE  /\ Asked(s) \in Answer
           /\ Asked(s).filled = orders[s].filled
           /\ Asked(s).filled \in 0..plan[s]
           /\ Asked(s).status = "filled" => Asked(s).filled = plan[s]
           /\ Live(s) => Asked(s).status \notin TERMINAL
<1>1. s \in Lots /\ s \in DOMAIN plan /\ plan[s] \in Nat
    BY PlanFacts
<1>2. orders[s] \in Order /\ orders[s].filled <= plan[s]
    BY <1>1 DEF TypeOK, Capped
<1>3. orders[s].filled \in 0..MaxTotal /\ orders[s].filled \in 0..plan[s]
    BY <1>1, <1>2, PlanFacts DEF Order
<1>4. Asked(s).status \in Statuses
    BY DEF Asked, Statuses, TERMINAL
<1>5. Asked(s).filled = orders[s].filled
    BY DEF Asked
<1>6. Asked(s) \in Answer
    BY <1>3, <1>4, <1>5 DEF Asked, Answer
<1>7. Asked(s).status = "filled" => Asked(s).filled = plan[s]
    BY <1>5 DEF Asked
<1>8. Live(s) => Asked(s).status \notin TERMINAL
    BY DEF Live, Asked, TERMINAL
<1> QED BY <1>3, <1>5, <1>6, <1>7, <1>8

(* An answer never stands for more than the slice. *)
LEMMA FilledBounds ==
    ASSUME NEW answer \in Answer, NEW q \in Nat, answer.filled <= q
    PROVE  /\ Filled(answer, q) \in 0..q
           /\ answer.status # "filled" => Filled(answer, q) = answer.filled
           /\ answer.filled = q => Filled(answer, q) = q
<1>1. answer.filled \in Nat
    BY MaxAssumption DEF Answer
<1> QED BY <1>1 DEF Filled

(* Booking a slice keeps the result within the plan. *)
LEMMA BookingFits ==
    ASSUME TypeOK, Shape, BookedFits, i <= Len(plan), NEW n \in 0..plan[i]
    PROVE  LET k == Len(plan) IN
           /\ cumulative + n <= i * (total \div k) + IF i + 1 > k THEN total % k ELSE 0
           /\ cumulative + n \in 0..total
<1> DEFINE k == Len(plan)
           d == total \div k
           r == total % k
<1>1. k \in 1..total /\ i \in 1..k /\ total \in Nat /\ plan[i] \in 1..total
    <2>1. total \in Nat /\ k \in Nat /\ i \in Nat /\ i >= 1 /\ i <= k /\ k <= total
        BY PlanFacts DEF Shape
    <2>2. i \in 1..k /\ k \in 1..total
        BY <2>1
    <2> QED BY <2>1, <2>2, PlanFacts
<1> HIDE DEF k
<1>2. d \in Nat /\ r \in Nat /\ k * d + r = total
    <2>1. /\ total \div k \in 1..total /\ total % k \in 0..k-1
          /\ k * (total \div k) + (total % k) = total
        BY <1>1, Division
    <2> QED BY <1>1, <2>1
<1>3. plan[i] = d + IF i = k THEN r ELSE 0
    BY <1>1 DEF Shape, k
<1>4. cumulative \in Nat /\ cumulative <= (i - 1) * d
    BY <1>1, <1>2 DEF BookedFits, TypeOK, k
<1>5. /\ (i - 1) * d \in Int /\ i * d \in Int /\ k * d \in Int
      /\ (i - 1) * d + d = i * d /\ i * d <= k * d
    <2> HIDE DEF d
    <2> QED BY <1>1, <1>2, Multiples
<1> DEFINE x == (i - 1) * d
           y == i * d
           z == k * d
<1>6. /\ x \in Int /\ y \in Int /\ z \in Int /\ x + d = y /\ y <= z /\ z + r = total
      /\ i = k => y = z
    BY <1>2, <1>5
<1>7. cumulative \in Nat /\ cumulative <= x
    BY <1>4
<1> HIDE DEF d, r, x, y, z, k
<1>8. /\ cumulative + n <= y + IF i + 1 > k THEN r ELSE 0
      /\ cumulative + n \in 0..total
    <2>1. n \in Nat /\ n <= d + IF i = k THEN r ELSE 0
        BY <1>1, <1>2, <1>3
    <2>2. CASE i = k
        BY <1>1, <1>2, <1>6, <1>7, <2>1, <2>2
    <2>3. CASE i < k
        BY <1>1, <1>2, <1>6, <1>7, <2>1, <2>3
    <2> QED BY <1>1, <2>2, <2>3
<1> QED BY <1>8 DEF y, r, d, k

(* The order in hand belongs to a slice of the same size. *)
LEMMA InHand ==
    ASSUME IInv, pc \in Active
    PROVE  /\ i \in 1..Len(plan) /\ handle[i] \in 1..Len(plan) /\ handle[i] \in Lots
           /\ plan[handle[i]] = plan[i] /\ plan[i] \in Nat
           /\ orders[handle[i]].filled <= plan[i]
           /\ latest \in Answer /\ latest.filled <= orders[handle[i]].filled
           /\ latest.filled <= plan[i]
           /\ latest.status \notin TERMINAL
<1>1. i \in 1..Len(plan)
    BY PlanFacts DEF IInv, InPlan
<1>2. handle[i] \in 1..i /\ plan[handle[i]] = plan[i]
    BY <1>1 DEF IInv, Handles
<1>3. handle[i] \in 1..Len(plan) /\ handle[i] \in Lots /\ plan[i] \in Nat
    BY <1>1, <1>2, PlanFacts DEF IInv
<1>4. orders[handle[i]].filled <= plan[i]
    BY <1>2, <1>3, PlanFacts DEF IInv, Capped
<1>5. /\ latest \in Answer /\ latest.filled <= orders[handle[i]].filled
      /\ latest.status \notin TERMINAL
    BY DEF IInv, TypeOK, Past
<1>6. latest.filled \in Int /\ orders[handle[i]].filled \in Int
    BY <1>3, <1>5, PlanFacts DEF IInv, TypeOK, Answer, Order
<1> QED BY <1>1, <1>2, <1>3, <1>4, <1>5, <1>6

(* A slice that is booked leaves everything in order. *)
LEMMA ConcludeInv ==
    ASSUME IInv, i <= Len(plan),
           NEW answer \in Answer, answer.filled <= plan[i], Conclude(answer),
           UNCHANGED <<asked_for, handle>>,
           aggression' \in {"none", "scheduled", "marketable"},
           outage' \in BOOLEAN, uncancelled' \in SUBSET Lots,
           orders' \in [Lots -> Order], orders'[i].filled <= plan[i],
           \A s \in Lots \ {i} : orders'[s] = orders[s]
    PROVE  IInv'
<1> DEFINE n == Filled(answer, plan[i])
<1>1. TypeOK /\ UNCHANGED <<simulated, total, plan>>
    BY DEF IInv, asked_for
<1>2. /\ MaxTotal \in Nat /\ MaxSlices \in Nat \ {0} /\ total \in Nat /\ total <= MaxTotal
      /\ Len(plan) \in Nat /\ Len(plan) <= MaxSlices /\ i \in Nat /\ i >= 1
    BY <1>1, PlanFacts
<1>3. i \in 1..Len(plan) /\ plan[i] \in Nat /\ plan[i] <= MaxTotal
    BY <1>1, <1>2, PlanFacts
<1>4. n \in 0..plan[i]
    BY <1>3, FilledBounds
<1>5. i' = i + 1
    BY DEF Conclude
<1>6. pc' = IF i = Len(plan) THEN "done" ELSE "slice"
    BY DEF Conclude
<1>7. cumulative' = cumulative + n
    BY DEF Conclude
<1>8. latest' = NoAnswer
    BY DEF Conclude
<1>9. result' = Append(result, [answer EXCEPT !.filled = n])
    BY DEF Conclude
<1>10. slices_filled' = slices_filled \/ slices_filled' = slices_filled + 1
    <2>1. slices_filled \in Int
        BY <1>1, <1>2 DEF TypeOK
    <2> QED BY <2>1 DEF Conclude
<1> HIDE DEF n
<1>11. /\ cumulative' <= i * (total \div Len(plan))
                         + IF i + 1 > Len(plan) THEN total % Len(plan) ELSE 0
       /\ cumulative' \in 0..total
    BY <1>1, <1>4, <1>7, BookingFits DEF IInv
<1>12. slices_filled' < i' /\ slices_filled' \in 0..MaxSlices /\ i' \in 1..MaxSlices + 1
    <2>1. slices_filled \in Nat /\ slices_filled < i
        BY <1>1, <1>2 DEF IInv, TypeOK, InPlan
    <2> QED BY <1>2, <1>3, <1>5, <1>10, <2>1
<1>13. TypeOK'
    <2>1. [answer EXCEPT !.filled = n] \in Answer
        BY <1>2, <1>3, <1>4 DEF Answer
    <2>2. result' \in Seq(Answer) /\ Len(result') = i' - 1
        <3>1. result \in Seq(Answer) /\ Len(result) = i - 1
            BY <1>1 DEF TypeOK
        <3> QED BY <1>2, <1>5, <1>9, <2>1, <3>1, AppendProperties
    <2>3. latest' \in Answer
        BY <1>2, <1>8 DEF NoAnswer, Answer, Statuses, TERMINAL
    <2>4. pc' \in {"slice", "poll", "cancel", "confirm", "done", "failed"}
        BY <1>6
    <2> QED BY <1>1, <1>11, <1>12, <2>2, <2>3, <2>4 DEF TypeOK
<1>14. Shape'
    BY <1>1 DEF IInv, Shape
<1>15. BookedFits'
    <2>1. Len(plan) # 0 /\ i' - 1 = i
        BY <1>2, <1>3, <1>5
    <2> QED BY <1>1, <1>5, <1>11, <2>1 DEF BookedFits
<1>16. InPlan'
    <2>1. i' <= Len(plan) + 1 /\ (pc' # "done" => i' <= Len(plan))
        BY <1>2, <1>3, <1>5, <1>6
    <2> QED BY <1>1, <1>6, <1>12, <2>1 DEF InPlan, Active
<1>17. Fresh'
    <2> SUFFICES ASSUME NEW s \in Lots, s >= i'
                 PROVE  orders'[s] = Unplaced /\ handle'[s] = s
        BY <1>2, <1>3, <1>5 DEF Fresh, Lots
    <2>1. s > i /\ s # i
        BY <1>2, <1>3, <1>5 DEF Lots
    <2> QED BY <2>1 DEF IInv, Fresh
<1>18. Handles'
    BY <1>1 DEF IInv, Handles
<1>19. Capped'
    BY <1>1, <1>3 DEF IInv, Capped
<1>20. Past'
    BY <1>6 DEF Past, Active
<1> QED BY <1>13, <1>14, <1>15, <1>16, <1>17, <1>18, <1>19, <1>20 DEF IInv

-----------------------------------------------------------------------------
(* The steps *)

(* A fill never takes an order beyond its slice. *)
LEMMA FillInv ==
    ASSUME IInv, NEW s \in Lots, NEW n \in 1..MaxTotal, Fill(s, n)
    PROVE  IInv'
<1>1. /\ TypeOK /\ UNCHANGED <<simulated, total, plan, outage>>
      /\ UNCHANGED <<i, pc, handle, latest, slices_filled, cumulative, result,
                     aggression, uncancelled>>
    BY DEF IInv, Fill, asked_for, oms_vars
<1>2. orders[s] \in Order /\ orders[s].filled \in Nat /\ n \in Nat /\ MaxTotal \in Nat
    BY <1>1, PlanFacts DEF TypeOK, Order
<1>3. orders[s].st # "none" /\ orders[s].filled + n <= plan[s]
    BY DEF Fill, Live
<1>4. s \in 1..Len(plan) /\ (s < i \/ (s = i /\ pc \in Active))
    <2>1. ~(s > i) /\ ~(s = i /\ pc \notin Active)
        BY <1>3 DEF IInv, Fresh, Unplaced
    <2>2. s \in Nat /\ s >= 1 /\ i \in Nat /\ Len(plan) \in Nat
        BY <1>1, PlanFacts DEF Lots
    <2>3. i <= Len(plan) + 1 /\ (pc \in Active => i <= Len(plan))
        BY DEF IInv, InPlan
    <2> QED BY <2>1, <2>2, <2>3
<1>5. plan[s] \in Nat /\ plan[s] <= MaxTotal
    BY <1>1, <1>4, PlanFacts
<1>6. /\ orders'[s].filled = orders[s].filled + n
      /\ orders'[s].st \in {"working", "cancelling", "done"}
      /\ orders' \in [Lots -> Order]
      /\ \A r \in Lots \ {s} : orders'[r] = orders[r]
    <2>1. orders' = [orders EXCEPT
              ![s] = [filled |-> orders[s].filled + n,
                      st |-> IF orders[s].filled + n = plan[s] THEN "done" ELSE orders[s].st]]
        BY DEF Fill
    <2>2. [filled |-> orders[s].filled + n,
           st |-> IF orders[s].filled + n = plan[s] THEN "done" ELSE orders[s].st] \in Order
        BY <1>2, <1>3, <1>5 DEF Order
    <2>3. orders[s].st \in {"working", "cancelling"} /\ orders \in [Lots -> Order]
        BY <1>1 DEF TypeOK, Fill, Live
    <2> QED BY <2>1, <2>2, <2>3
<1>7. TypeOK'
    BY <1>1, <1>6 DEF TypeOK
<1>8. Shape' /\ BookedFits' /\ InPlan' /\ Handles'
    BY <1>1 DEF IInv, Shape, BookedFits, InPlan, Handles
<1>9. Fresh'
    <2>1. \A r \in Lots : (r > i \/ (r = i /\ pc \notin Active)) => r # s
        BY <1>1, <1>4, PlanFacts DEF Lots
    <2> QED BY <1>1, <1>6, <2>1 DEF IInv, Fresh
<1>10. Capped'
    BY <1>1, <1>3, <1>4, <1>6, PlanFacts DEF IInv, Capped
<1>11. Past'
    <2> SUFFICES ASSUME pc \in Active PROVE latest.filled <= orders'[handle[i]].filled
        BY <1>1 DEF IInv, Past
    <2>1. /\ handle[i] \in Lots /\ latest.filled <= orders[handle[i]].filled
          /\ latest.filled \in Int
        BY <1>1, InHand, PlanFacts DEF Answer
    <2> QED BY <1>2, <1>6, <2>1
<1> QED BY <1>7, <1>8, <1>9, <1>10, <1>11 DEF IInv

(* A step that books nothing, places nothing and fills nothing. *)
LEMMA StandingInv ==
    ASSUME IInv, TypeOK',
           UNCHANGED <<asked_for, i, handle, latest, slices_filled, cumulative>>,
           pc' = pc \/ (pc \in Active /\ pc' \in Active) \/ (pc = "slice" /\ pc' = "failed"),
           \A s \in Lots : /\ orders'[s].filled = orders[s].filled
                           /\ orders[s] = Unplaced => orders'[s] = Unplaced
    PROVE  IInv'
<1>1. UNCHANGED <<simulated, total, plan>> /\ (pc' \in Active <=> pc \in Active)
    BY DEF asked_for, Active
<1>2. Shape' /\ BookedFits' /\ Handles'
    BY <1>1 DEF IInv, Shape, BookedFits, Handles
<1>3. InPlan'
    BY <1>1 DEF IInv, InPlan, Active
<1>4. Fresh'
    BY <1>1 DEF IInv, Fresh
<1>5. Capped'
    BY <1>1 DEF IInv, Capped
<1>6. Past'
    <2>1. pc \in Active => handle[i] \in Lots
        BY InHand
    <2> QED BY <1>1, <2>1 DEF IInv, Past
<1> QED BY <1>2, <1>3, <1>4, <1>5, <1>6 DEF IInv

LEMMA BrokerInv == ASSUME IInv, Broker PROVE IInv'
<1>1. ASSUME NEW s \in Lots, Ends(s) PROVE IInv'
    <2>1. PICK st \in {"done", "rejected"} : orders' = [orders EXCEPT ![s].st = st]
        BY <1>1 DEF Ends
    <2>2. /\ TypeOK /\ orders[s].st # "none"
          /\ UNCHANGED <<simulated, total, plan, outage, i, pc, handle, latest, slices_filled,
                         cumulative, result, aggression, uncancelled>>
        BY <1>1 DEF IInv, Ends, Live, asked_for, oms_vars
    <2>3. /\ orders' \in [Lots -> Order]
          /\ \A r \in Lots : /\ orders'[r].filled = orders[r].filled
                             /\ orders[r] = Unplaced => orders'[r] = Unplaced
        <3>1. orders \in [Lots -> Order] /\ orders[s].st # "none"
            BY <2>2 DEF TypeOK
        <3> QED BY <2>1, <3>1 DEF Order, Unplaced
    <2>4. TypeOK'
        BY <2>2, <2>3 DEF TypeOK
    <2> QED BY <2>2, <2>3, <2>4, StandingInv DEF asked_for
<1>2. ASSUME OutageToggles PROVE IInv'
    <2>1. TypeOK /\ outage' \in BOOLEAN
          /\ UNCHANGED <<simulated, total, plan, orders, i, pc, handle, latest, slices_filled,
                         cumulative, result, aggression, uncancelled>>
        BY <1>2 DEF IInv, OutageToggles, TypeOK, asked_for, oms_vars
    <2>2. TypeOK'
        BY <2>1 DEF TypeOK
    <2> QED BY <2>1, <2>2, StandingInv DEF asked_for
<1> QED BY <1>1, <1>2, FillInv DEF Broker

(* Waiting ends, a cancel is sent, a submit raises: nothing is booked. *)
LEMMA WaitingInv == ASSUME IInv, StopWaiting \/ Cancel \/ SubmitRaises PROVE IInv'
<1>1. ASSUME /\ UNCHANGED <<asked_for, handle, latest, Booked, aggression, orders, outage,
                              uncancelled>>
             /\ (pc \in Active /\ pc' \in Active) \/ (pc = "slice" /\ pc' = "failed")
      PROVE  IInv'
    <2>1. /\ TypeOK
          /\ UNCHANGED <<simulated, total, plan, outage, i, handle, latest, slices_filled,
                         cumulative, result, aggression, uncancelled, orders>>
          /\ pc' \in {"poll", "cancel", "confirm", "failed"}
        BY <1>1 DEF IInv, asked_for, Booked, Active
    <2>2. TypeOK'
        BY <2>1 DEF TypeOK
    <2> QED BY <1>1, <2>1, <2>2, StandingInv DEF asked_for
<1>2. CASE Cancel
    <2>1. /\ TypeOK /\ pc = "cancel" /\ pc' = "confirm"
          /\ UNCHANGED <<simulated, total, plan, outage, i, handle, latest, slices_filled,
                         cumulative, result, aggression, uncancelled>>
        BY <1>2 DEF IInv, Cancel, asked_for, Booked
    <2>2. handle[i] \in Lots
        BY <2>1, InHand DEF Active
    <2>3. /\ orders' \in [Lots -> Order]
          /\ \A r \in Lots : /\ orders'[r].filled = orders[r].filled
                             /\ orders[r] = Unplaced => orders'[r] = Unplaced
        <3>1. CASE Live(handle[i])
            <4>1. PICK st \in {"done", "cancelling"} :
                      orders' = [orders EXCEPT ![handle[i]].st = st]
                BY <1>2, <3>1 DEF Cancel
            <4>2. orders[handle[i]].st # "none"
                BY <3>1 DEF Live
            <4> DEFINE h == handle[i]
            <4>3. h \in Lots /\ orders[h] \in Order /\ orders \in [Lots -> Order]
                BY <2>1, <2>2 DEF TypeOK
            <4>4. orders' = [orders EXCEPT ![h].st = st] /\ orders[h].st # "none"
                BY <4>1, <4>2
            <4> HIDE DEF h
            <4> QED BY <4>3, <4>4 DEF Order, Unplaced
        <3>2. CASE ~Live(handle[i])
            BY <1>2, <2>1, <3>2 DEF Cancel, TypeOK
        <3> QED BY <3>1, <3>2
    <2>4. TypeOK'
        BY <2>1, <2>3 DEF TypeOK
    <2> QED BY <2>1, <2>3, <2>4, StandingInv DEF asked_for, Active
<1>3. CASE StopWaiting
    BY <1>1, <1>3 DEF StopWaiting, Active
<1>4. CASE SubmitRaises
    BY <1>1, <1>4 DEF SubmitRaises
<1> QED BY <1>2, <1>3, <1>4

(* A poll or the end of the wait books what is known of the order. *)
LEMMA PollInv == ASSUME IInv, Poll \/ CancelFails \/ GiveUp PROVE IInv'
<1>1. /\ TypeOK /\ Capped /\ pc \in Active
      /\ UNCHANGED <<simulated, total, plan, outage, handle, aggression, orders>>
    BY DEF IInv, Poll, CancelFails, GiveUp, Active, asked_for
<1>2. /\ i \in 1..Len(plan) /\ handle[i] \in 1..Len(plan) /\ handle[i] \in Lots
      /\ plan[handle[i]] = plan[i] /\ orders[handle[i]].filled <= plan[i]
      /\ latest \in Answer /\ latest.filled <= plan[i] /\ plan[i] \in Nat
    BY <1>1, InHand
<1>3. /\ Asked(handle[i]) \in Answer /\ Asked(handle[i]).filled <= plan[i]
      /\ Asked(handle[i]).filled = orders[handle[i]].filled
    BY <1>1, <1>2, AskedFacts
<1>4. i \in Lots /\ orders[i].filled <= plan[i]
    BY <1>1, <1>2, PlanFacts DEF Capped
<1>5. uncancelled' \in SUBSET Lots
    BY <1>1, <1>2 DEF Poll, CancelFails, GiveUp, TypeOK
<1>6. ASSUME NEW answer \in {latest, Asked(handle[i])}, Conclude(answer) PROVE IInv'
    <2>1. /\ aggression' \in {"none", "scheduled", "marketable"}
          /\ outage' \in BOOLEAN /\ orders' \in [Lots -> Order]
          /\ \A s \in Lots \ {i} : orders'[s] = orders[s]
        BY <1>1 DEF TypeOK
    <2>2. /\ answer \in Answer /\ answer.filled <= plan[i] /\ i <= Len(plan)
          /\ orders'[i].filled <= plan[i]
        BY <1>1, <1>2, <1>3, <1>4, <1>6, PlanFacts
    <2>3. UNCHANGED <<asked_for, handle>>
        BY <1>1 DEF asked_for
    <2> QED BY <1>5, <1>6, <2>1, <2>2, <2>3, ConcludeInv
<1>7. CASE \E answer \in {latest, Asked(handle[i])} : Conclude(answer)
    BY <1>6, <1>7
<1>8. CASE ~ \E answer \in {latest, Asked(handle[i])} : Conclude(answer)
    <2>1. /\ Asked(handle[i]).status \notin TERMINAL /\ latest' = Asked(handle[i])
          /\ UNCHANGED <<pc, slices_filled, cumulative, result, i, uncancelled>>
        BY <1>8 DEF Poll, CancelFails, GiveUp, Booked
    <2>2. TypeOK'
        BY <1>1, <1>3, <2>1 DEF TypeOK
    <2>3. Past'
        <3>1. orders[handle[i]].filled \in Int
            BY <1>1, <1>2, PlanFacts DEF TypeOK, Order
        <3> QED BY <1>1, <1>3, <2>1, <3>1 DEF Past
    <2> QED BY <1>1, <2>1, <2>2, <2>3
            DEF IInv, Shape, BookedFits, InPlan, Fresh, Handles, Capped
<1> QED BY <1>7, <1>8

(* An order that is over at once is booked at once. *)
LEMMA SettledInv == ASSUME IInv, SubmitFilled \/ SubmitDead PROVE IInv'
<1>1. /\ TypeOK /\ pc = "slice"
      /\ UNCHANGED <<simulated, total, plan, outage, handle, uncancelled>>
      /\ aggression' \in {"none", "scheduled", "marketable"}
    BY DEF IInv, SubmitFilled, SubmitDead, PlacingAnew, Placing, escalate_aggression, asked_for
<1>2. /\ i \in 1..Len(plan) /\ i \in Lots /\ i <= Len(plan)
      /\ plan[i] \in Nat /\ plan[i] <= MaxTotal /\ MaxTotal \in Nat
    BY <1>1, PlanFacts DEF IInv, InPlan
<1>3. orders[i] = Unplaced
    BY <1>1, <1>2 DEF IInv, Fresh, Active
<1>4. ASSUME NEW order \in Order, order.filled <= plan[i], orders' = [orders EXCEPT ![i] = order],
             NEW answer \in Answer, answer.filled <= plan[i], Conclude(answer)
      PROVE  IInv'
    <2>1. /\ orders' \in [Lots -> Order] /\ orders'[i].filled <= plan[i]
          /\ \A s \in Lots \ {i} : orders'[s] = orders[s]
        BY <1>1, <1>2, <1>4 DEF TypeOK
    <2>2. UNCHANGED <<asked_for, handle>> /\ outage' \in BOOLEAN /\ uncancelled' \in SUBSET Lots
        BY <1>1 DEF asked_for, TypeOK
    <2> QED BY <1>1, <1>2, <1>4, <2>1, <2>2, ConcludeInv
<1>5. CASE SubmitFilled
    <2>1. PICK told \in {0, plan[i]} : Conclude([status |-> "filled", filled |-> told])
        BY <1>5 DEF SubmitFilled
    <2>2. /\ [status |-> "filled", filled |-> told] \in Answer /\ told <= plan[i]
          /\ [filled |-> plan[i], st |-> "done"] \in Order /\ plan[i] <= plan[i]
        BY <1>2 DEF Answer, Order, Statuses, TERMINAL
    <2>3. orders' = [orders EXCEPT ![i] = [filled |-> plan[i], st |-> "done"]]
        BY <1>5 DEF SubmitFilled
    <2> QED BY <2>1, <2>2, <2>3, <1>4
<1>6. CASE SubmitDead
    <2>1. /\ [status |-> "rejected", filled |-> 0] \in Answer /\ 0 <= plan[i]
          /\ [filled |-> 0, st |-> "rejected"] \in Order
        BY <1>2 DEF Answer, Order, Statuses, TERMINAL
    <2>2. orders' = [orders EXCEPT ![i] = [filled |-> 0, st |-> "rejected"]]
        BY <1>6 DEF SubmitDead
    <2>3. Conclude([status |-> "rejected", filled |-> 0])
        BY <1>6 DEF SubmitDead
    <2> QED BY <2>1, <2>2, <2>3, <1>4
<1> QED BY <1>5, <1>6

(* A new order starts empty; a repeated one is as it was. *)
LEMMA PlacedInv == ASSUME IInv, SubmitWorking \/ SubmitDeduped PROVE IInv'
<1>1. /\ TypeOK /\ Capped /\ pc = "slice" /\ pc' = "poll"
      /\ UNCHANGED <<simulated, total, plan, outage, uncancelled, slices_filled, cumulative,
                     result, i>>
      /\ aggression' \in {"none", "scheduled", "marketable"}
    BY DEF IInv, SubmitWorking, SubmitDeduped, PlacingAnew, Placing, Booked,
           escalate_aggression, asked_for
<1>2. i \in 1..Len(plan) /\ i \in Lots /\ i \in Nat /\ Len(plan) \in Nat
    BY <1>1, PlanFacts DEF IInv, InPlan
<1>3. orders[i] = Unplaced /\ handle[i] = i
    BY <1>1, <1>2 DEF IInv, Fresh, Active
<1>4. NoAnswer \in Answer /\ NoAnswer.filled = 0 /\ NoAnswer.status \notin TERMINAL
    BY MaxAssumption, <1>1, PlanFacts DEF NoAnswer, Answer, Statuses, TERMINAL
<1>5. Shape' /\ BookedFits' /\ InPlan'
    BY <1>1, <1>2 DEF IInv, Shape, BookedFits, InPlan, Active
<1>6. CASE SubmitWorking
    <2>1. orders' = [orders EXCEPT ![i] = [filled |-> 0, st |-> "working"]]
        BY <1>6 DEF SubmitWorking
    <2>2. UNCHANGED handle /\ latest' = NoAnswer
        BY <1>6 DEF SubmitWorking, PlacingAnew
    <2>3. [filled |-> 0, st |-> "working"] \in Order
        BY <1>1, PlanFacts DEF Order
    <2>4. TypeOK'
        BY <1>1, <1>2, <1>4, <2>1, <2>2, <2>3 DEF TypeOK
    <2>5. Fresh' /\ Handles'
        BY <1>1, <1>2, <2>1, <2>2 DEF IInv, Fresh, Handles, Active
    <2>6. Capped'
        BY <1>1, <1>2, <2>1, PlanFacts DEF Capped, TypeOK
    <2>7. Past'
        BY <1>1, <1>2, <1>3, <1>4, <2>1, <2>2 DEF Past, TypeOK
    <2> QED BY <1>5, <2>4, <2>5, <2>6, <2>7 DEF IInv
<1>7. CASE SubmitDeduped
    <2> DEFINE h == handle[i - 1]
    <2>1. /\ i > 1 /\ plan[i] = plan[i - 1] /\ UNCHANGED orders
          /\ handle' = [handle EXCEPT ![i] = h]
          /\ latest' = IF Live(h) THEN Asked(h) ELSE NoAnswer
        BY <1>7 DEF SubmitDeduped
    <2>2. i - 1 \in 1..Len(plan) /\ i - 1 \in Lots
        BY <1>1, <1>2, <2>1, PlanFacts
    <2>3. h \in 1..(i - 1) /\ plan[h] = plan[i]
        BY <2>1, <2>2 DEF IInv, Handles
    <2>4. h \in 1..Len(plan) /\ h \in Lots /\ h \in 1..i /\ h <= i
        BY <1>1, <1>2, <2>3, PlanFacts
    <2> HIDE DEF h
    <2>5. /\ Asked(h) \in Answer /\ Asked(h).filled = orders[h].filled
          /\ Live(h) => Asked(h).status \notin TERMINAL
        BY <1>1, <2>4, AskedFacts
    <2>6. latest' \in Answer /\ latest'.status \notin TERMINAL
        BY <1>4, <2>1, <2>5
    <2>7. latest'.filled <= orders[h].filled
        <3>1. orders[h].filled \in Nat
            BY <1>1, <2>4, PlanFacts DEF TypeOK, Order
        <3> QED BY <1>4, <2>1, <2>5, <3>1
    <2>8. TypeOK'
        BY <1>1, <1>2, <2>1, <2>4, <2>6 DEF TypeOK
    <2>9. Fresh' /\ Handles' /\ Capped'
        <3>1. \A s \in Lots : handle'[s] = IF s = i THEN h ELSE handle[s]
            BY <1>1, <1>2, <2>1 DEF TypeOK
        <3>2. Fresh'
            BY <1>1, <1>2, <2>1, <3>1 DEF IInv, Fresh, Active
        <3>3. Handles'
            BY <1>1, <2>3, <2>4, <3>1, PlanFacts DEF IInv, Handles
        <3>4. Capped'
            BY <1>1, <2>1 DEF Capped
        <3> QED BY <3>2, <3>3, <3>4
    <2>10. Past'
        BY <1>1, <1>2, <2>1, <2>6, <2>7 DEF Past, TypeOK
    <2> QED BY <1>5, <2>8, <2>9, <2>10 DEF IInv
<1> QED BY <1>6, <1>7

LEMMA NextInv == IInv /\ [Next]_vars => IInv'
<1> SUFFICES ASSUME IInv, [Next]_vars PROVE IInv'
    OBVIOUS
<1>1. CASE Execute
    BY <1>1, PlacedInv, SettledInv, PollInv, WaitingInv DEF Execute
<1>2. CASE Broker
    BY <1>2, BrokerInv
<1>3. CASE UNCHANGED vars
    BY <1>3 DEF vars, asked_for, oms_vars, IInv, TypeOK, Shape, BookedFits, InPlan, Fresh,
                Handles, Capped, Past
<1> QED BY <1>1, <1>2, <1>3 DEF Next

(* What the order manager knows, and what it has booked, is well typed; in *)
(* particular filled_qty never exceeds the order (oms.py 39-159).          *)
THEOREM TypeCorrect == Spec => []TypeOK
<1>1. Spec => []IInv
    BY InitInv, NextInv, PTL DEF Spec
<1>2. IInv => TypeOK
    BY DEF IInv
<1> QED BY <1>1, <1>2, PTL

-----------------------------------------------------------------------------
(* The refinement *)

AskedFor == [s \in Lots |-> IF s \in DOMAIN plan THEN plan[s] ELSE 0]
Bought   == [s \in Lots |-> orders[s].filled]
Reported == [s \in Lots |-> IF s < i THEN result[s].filled ELSE -1]

(* A slice that was given an earlier order has placed none. *)
Own == \A s \in Lots : handle[s] = s \/ orders[s].st = "none"

LEMMA OwnInit == Init => Own
BY DEF Init, Own

LEMMA OwnNext == IInv /\ Own /\ [Next]_vars => Own'
<1> SUFFICES ASSUME IInv, Own, [Next]_vars PROVE Own'
    OBVIOUS
<1>1. TypeOK
    BY DEF IInv
<1>2. CASE SubmitWorking \/ SubmitFilled \/ SubmitDead \/ SubmitDeduped
  <2>1. pc = "slice" /\ i \in Lots
      BY <1>1, <1>2, PlanFacts
      DEF IInv, InPlan, SubmitWorking, SubmitFilled, SubmitDead, SubmitDeduped, PlacingAnew,
          Placing, Lots
  <2>2. orders[i] = Unplaced /\ handle[i] = i
      BY <2>1 DEF IInv, Fresh, Active
  <2>3. CASE SubmitDeduped
      BY <1>1, <2>1, <2>2, <2>3 DEF SubmitDeduped, Own, TypeOK, Unplaced
  <2>4. CASE SubmitWorking \/ SubmitFilled \/ SubmitDead
    <3>1. UNCHANGED handle /\ \A s \in Lots \ {i} : orders'[s] = orders[s]
        BY <1>1, <2>4 DEF SubmitWorking, SubmitFilled, SubmitDead, PlacingAnew, TypeOK
    <3> QED BY <2>2, <3>1 DEF Own
  <2> QED BY <1>2, <2>3, <2>4
<1>3. CASE Cancel
  <2> DEFINE h == handle[i]
  <2>1. h \in Lots /\ UNCHANGED handle
      BY <1>1, <1>3, InHand DEF Cancel, Active
  <2>2. \/ UNCHANGED orders
        \/ \E st \in {"done", "cancelling"} :
              orders' = [orders EXCEPT ![h].st = st] /\ orders[h].st # "none"
      BY <1>3 DEF Cancel, Live
  <2> HIDE DEF h
  <2>3. \A s \in Lots : orders[s].st = "none" => orders'[s].st = "none"
      BY <1>1, <2>1, <2>2 DEF TypeOK, Order
  <2> QED BY <2>1, <2>3 DEF Own
<1>4. CASE Broker
  <2>1. ASSUME NEW r \in Lots, Ends(r) PROVE Own'
      BY <1>1, <2>1 DEF Ends, Live, Own, oms_vars, TypeOK, Order
  <2>2. ASSUME NEW r \in Lots, NEW n \in 1..MaxTotal, Fill(r, n) PROVE Own'
      BY <1>1, <2>2 DEF Fill, Live, Own, oms_vars, TypeOK, Order
  <2>3. CASE OutageToggles
      BY <2>3 DEF OutageToggles, Own, oms_vars
  <2> QED BY <1>4, <2>1, <2>2, <2>3 DEF Broker
<1>5. CASE UNCHANGED <<handle, orders>>
    BY <1>5 DEF Own
<1> QED BY <1>2, <1>3, <1>4, <1>5
        DEF Next, Execute, SubmitRaises, Poll, StopWaiting, CancelFails, GiveUp, vars, oms_vars

LEMMA RefinesInit == Init => Buys!Init
<1> SUFFICES ASSUME Init PROVE Buys!Init
    OBVIOUS
<1>1. TypeOK
    BY InitInv DEF IInv
<1>2. AskedFor \in [Lots -> Nat]
    BY <1>1, PlanFacts DEF AskedFor
<1>3. Bought = [s \in Lots |-> 0]
    BY DEF Init, Bought
<1>4. Reported = [s \in Lots |-> -1]
    BY DEF Init, Reported, Lots
<1>5. handle = [s \in Lots |-> s]
    BY DEF Init
<1> QED BY <1>2, <1>3, <1>4, <1>5 DEF Buys!Init, Buys!Unreported, AskedFor, Bought, Reported

(* A step that neither buys nor books is none of the buyer's business. *)
LEMMA RefinesStutter ==
    ASSUME IInv, UNCHANGED <<plan, i, result, handle>>,
           \A s \in Lots : orders'[s].filled = orders[s].filled
    PROVE  UNCHANGED Buys!vars
<1>1. AskedFor' = AskedFor /\ Bought' = Bought /\ Reported' = Reported
    BY DEF AskedFor, Bought, Reported
<1> QED BY <1>1 DEF Buys!vars, AskedFor, Bought, Reported

(* A fill is a purchase. *)
LEMMA RefinesFill ==
    ASSUME IInv, Own, NEW s \in Lots, NEW n \in 1..MaxTotal, Fill(s, n)
    PROVE  Buys!Next
<1>1. TypeOK /\ UNCHANGED <<plan, i, handle, result>> /\ orders[s].filled + n <= plan[s]
    BY DEF IInv, Fill, asked_for, oms_vars
<1>2. orders[s].filled \in Nat /\ n \in Nat /\ n >= 1 /\ MaxTotal \in Nat
    BY <1>1, PlanFacts DEF TypeOK, Order
<1>3. s \in DOMAIN plan
    <2>1. orders[s].st # "none"
        BY DEF Fill, Live
    <2>2. ~(s > i) /\ ~(s = i /\ pc \notin Active)
        BY <2>1 DEF IInv, Fresh, Unplaced
    <2>3. s \in Nat /\ s >= 1 /\ i \in Nat /\ Len(plan) \in Nat /\ DOMAIN plan = 1..Len(plan)
        BY <1>1, PlanFacts DEF Lots
    <2> QED BY <2>2, <2>3 DEF IInv, InPlan
<1>4. plan[s] \in Nat
    BY <1>1, <1>3, PlanFacts
<1>5. n \in 1..AskedFor[s] /\ Bought[s] + n <= AskedFor[s]
    BY <1>1, <1>2, <1>3, <1>4 DEF AskedFor, Bought
<1>6. Bought' = [Bought EXCEPT ![s] = @ + n]
    <2>1. \A r \in Lots : orders'[r].filled = IF r = s THEN orders[s].filled + n
                                                      ELSE orders[r].filled
        BY <1>1 DEF Fill, TypeOK
    <2> QED BY <2>1 DEF Bought
<1>7. UNCHANGED <<AskedFor, Reported>>
    BY <1>1 DEF AskedFor, Reported
<1>8. handle[s] = s /\ UNCHANGED handle
    BY <1>1 DEF Own, Fill, Live
<1> QED BY <1>5, <1>6, <1>7, <1>8 DEF Buys!Next, Buys!Buy, AskedFor, Bought, Reported

(* Booking a slice writes one entry of the report. *)
LEMMA Reporting ==
    ASSUME TypeOK, i \in 1..Len(plan), UNCHANGED <<plan, handle>>,
           NEW answer \in Answer, answer.filled <= plan[i], Conclude(answer)
    PROVE  LET n == Filled(answer, plan[i]) IN
           /\ n \in 0..plan[i] /\ i \in Lots /\ Reported[i] = -1
           /\ AskedFor' = AskedFor /\ AskedFor[i] = plan[i] /\ plan[i] \in Nat
           /\ Reported' = [Reported EXCEPT ![i] = n]
<1> DEFINE n == Filled(answer, plan[i])
<1>1. /\ i \in Lots /\ i \in Nat /\ plan[i] \in Nat /\ plan[i] <= MaxTotal
      /\ MaxTotal \in Nat /\ i \in DOMAIN plan
    BY PlanFacts
<1>2. n \in 0..plan[i]
    BY <1>1, FilledBounds
<1>3. i' = i + 1 /\ result' = Append(result, [answer EXCEPT !.filled = n])
    BY DEF Conclude
<1> HIDE DEF n
<1>4. [answer EXCEPT !.filled = n] \in Answer /\ [answer EXCEPT !.filled = n].filled = n
    BY <1>1, <1>2 DEF Answer
<1>5. /\ \A s \in 1..(i - 1) : result'[s] = result[s]
      /\ result'[i].filled = n
    <2>1. result \in Seq(Answer) /\ Len(result) = i - 1
        BY DEF TypeOK
    <2> QED BY <1>1, <1>3, <1>4, <2>1, AppendProperties
<1>6. \A s \in Lots : (s < i' <=> s \in 1..(i - 1) \/ s = i) /\ (s < i <=> s \in 1..(i - 1))
    BY <1>1, <1>3 DEF Lots
<1>7. AskedFor' = AskedFor /\ AskedFor[i] = plan[i] /\ Reported[i] = -1
    BY <1>1 DEF AskedFor, Reported
<1>8. \A s \in Lots : Reported'[s] = IF s = i THEN n ELSE Reported[s]
    BY <1>1, <1>5, <1>6 DEF Reported
<1>9. Reported' = [Reported EXCEPT ![i] = n]
    BY <1>1, <1>8 DEF Reported
<1> QED BY <1>1, <1>2, <1>7, <1>9 DEF n

LEMMA RefinesReport ==
    ASSUME IInv, i \in 1..Len(plan), UNCHANGED <<plan, handle>>,
           \A s \in Lots : orders'[s].filled = orders[s].filled,
           NEW answer \in Answer, answer.filled <= plan[i], Conclude(answer),
           Filled(answer, plan[i]) <= orders[handle[i]].filled
    PROVE  Buys!Next
<1> DEFINE n == Filled(answer, plan[i])
<1>1. /\ n \in 0..plan[i] /\ i \in Lots /\ Reported[i] = -1
      /\ AskedFor' = AskedFor /\ AskedFor[i] = plan[i]
      /\ Reported' = [Reported EXCEPT ![i] = n]
    BY Reporting DEF IInv
<1>2. n <= orders[handle[i]].filled /\ handle[i] \in Lots
    BY <1>1 DEF IInv, TypeOK
<1> HIDE DEF n
<1>3. Bought' = Bought
    BY DEF Bought
<1>4. n <= Bought[handle[i]]
    BY <1>2 DEF Bought
<1>5. Buys!Report(i, n)
  <2>1. Buys!Reports(i, n, Bought)
      BY <1>1, <1>4 DEF Buys!Reports, Buys!Unreported, Reported
  <2> QED BY <1>1, <1>3, <2>1 DEF Buys!Report, AskedFor, Bought
<1> QED BY <1>1, <1>5 DEF Buys!Next, Buys!Report, Buys!Reports, AskedFor, Bought, Reported

(* What a poll or the end of the wait books was bought before. *)
LEMMA RefinesPoll ==
    ASSUME IInv, Poll \/ CancelFails \/ GiveUp
    PROVE  Buys!Next \/ UNCHANGED Buys!vars
<1>1. /\ TypeOK /\ Capped /\ pc \in Active
      /\ UNCHANGED <<simulated, total, plan, handle, orders>>
    BY DEF IInv, Poll, CancelFails, GiveUp, Active, asked_for
<1>2. /\ i \in 1..Len(plan) /\ handle[i] \in 1..Len(plan)
      /\ plan[handle[i]] = plan[i] /\ plan[i] \in Nat
      /\ latest \in Answer /\ latest.filled <= orders[handle[i]].filled
      /\ latest.filled <= plan[i] /\ latest.status # "filled"
    BY <1>1, InHand DEF TERMINAL
<1>3. /\ Asked(handle[i]) \in Answer
      /\ Asked(handle[i]).filled = orders[handle[i]].filled
      /\ Asked(handle[i]).filled \in 0..plan[i]
      /\ Asked(handle[i]).status = "filled" => Asked(handle[i]).filled = plan[i]
    BY <1>1, <1>2, AskedFacts
<1>4. CASE Conclude(latest)
    <2>1. Filled(latest, plan[i]) = latest.filled
        BY <1>2, FilledBounds
    <2> QED BY <1>1, <1>2, <1>4, <2>1, RefinesReport
<1>5. CASE Conclude(Asked(handle[i]))
    <2> DEFINE answer == Asked(handle[i])
    <2>1. answer \in Answer /\ answer.filled <= plan[i]
        BY <1>2, <1>3
    <2>2. Filled(answer, plan[i]) = orders[handle[i]].filled
        BY <1>2, <1>3, <2>1, FilledBounds
    <2>3. Filled(answer, plan[i]) <= orders[handle[i]].filled
        BY <1>3, <2>2
    <2>4. Conclude(answer)
        BY <1>5
    <2> HIDE DEF answer
    <2> QED BY <1>1, <1>2, <2>1, <2>3, <2>4, RefinesReport
<1>6. CASE ~Conclude(latest) /\ ~Conclude(Asked(handle[i]))
    <2>1. UNCHANGED <<plan, i, result, handle, orders>>
        BY <1>1, <1>6 DEF Poll, CancelFails, GiveUp, Booked
    <2> QED BY <2>1, RefinesStutter
<1> QED BY <1>4, <1>5, <1>6

(* An order that is filled at once is bought and reported in one step.     *)
LEMMA RefinesFilled == ASSUME IInv, SubmitFilled PROVE Buys!Next
<1>1. /\ TypeOK /\ pc = "slice" /\ UNCHANGED <<simulated, total, plan, handle>>
      /\ orders' = [orders EXCEPT ![i] = [filled |-> plan[i], st |-> "done"]]
    BY DEF IInv, SubmitFilled, PlacingAnew, Placing, asked_for
<1>2. /\ i \in 1..Len(plan) /\ i \in Lots
      /\ plan[i] \in Nat /\ plan[i] >= 1 /\ plan[i] <= MaxTotal /\ MaxTotal \in Nat
    BY <1>1, PlanFacts DEF IInv, InPlan
<1>3. orders[i] = Unplaced /\ handle[i] = i
    BY <1>1, <1>2 DEF IInv, Fresh, Active
<1>4. PICK told \in {0, plan[i]} : Conclude([status |-> "filled", filled |-> told])
    BY DEF SubmitFilled
<1> DEFINE answer == [status |-> "filled", filled |-> told]
<1>5. answer \in Answer /\ answer.filled <= plan[i]
    BY <1>2, <1>4 DEF Answer, Statuses, TERMINAL
<1>6. Filled(answer, plan[i]) = plan[i]
    BY <1>2, <1>4 DEF Filled
<1>7. Conclude(answer)
    BY <1>4
<1> HIDE DEF answer
<1>8. /\ Reported[i] = -1 /\ AskedFor' = AskedFor /\ AskedFor[i] = plan[i]
      /\ Reported' = [Reported EXCEPT ![i] = plan[i]]
    BY <1>1, <1>2, <1>3, <1>5, <1>6, <1>7, Reporting
<1>9. Bought[i] = 0 /\ Bought' = [Bought EXCEPT ![i] = plan[i]]
    <2>1. \A s \in Lots : orders'[s].filled = IF s = i THEN plan[i] ELSE orders[s].filled
        BY <1>1, <1>2 DEF TypeOK
    <2>2. Bought' = [Bought EXCEPT ![i] = plan[i]]
        BY <1>2, <2>1 DEF Bought
    <2>3. orders[i].filled = 0
        BY <1>3 DEF Unplaced
    <2>4. Bought[i] = 0
        BY <1>2, <2>3 DEF Bought
    <2> QED BY <2>2, <2>4
<1>10. Bought'[i] = plan[i]
    BY <1>2, <1>9 DEF Bought
<1>11. Buys!BuyAndReport(i)
    <2>1. Bought' = [Bought EXCEPT ![i] = AskedFor[i]]
        BY <1>8, <1>9
    <2>2. AskedFor[i] <= Bought'[handle[i]] /\ Reported' = [Reported EXCEPT ![i] = AskedFor[i]]
        BY <1>2, <1>3, <1>8, <1>10
    <2> QED BY <1>1, <1>3, <1>8, <1>9, <2>1, <2>2
            DEF Buys!BuyAndReport, Buys!Reports, Buys!Unreported, AskedFor, Bought, Reported
<1> QED BY <1>2, <1>11
        DEF Buys!Next, Buys!BuyAndReport, Buys!Reports, AskedFor, Bought, Reported

LEMMA RefinesDead == ASSUME IInv, SubmitDead PROVE Buys!Next
<1>1. /\ TypeOK /\ pc = "slice" /\ UNCHANGED <<simulated, total, plan, handle>>
      /\ orders' = [orders EXCEPT ![i] = [filled |-> 0, st |-> "rejected"]]
      /\ Conclude([status |-> "rejected", filled |-> 0])
    BY DEF IInv, SubmitDead, PlacingAnew, Placing, asked_for
<1>2. i \in 1..Len(plan) /\ i \in Lots /\ plan[i] \in Nat /\ MaxTotal \in Nat
    BY <1>1, PlanFacts DEF IInv, InPlan
<1>3. orders[i] = Unplaced /\ handle[i] = i
    BY <1>1, <1>2 DEF IInv, Fresh, Active
<1>4. \A s \in Lots : orders'[s].filled = orders[s].filled
    BY <1>1, <1>2, <1>3 DEF TypeOK, Unplaced
<1> DEFINE answer == [status |-> "rejected", filled |-> 0]
<1>5. answer \in Answer /\ answer.filled <= plan[i]
    BY <1>2 DEF Answer, Statuses, TERMINAL
<1>6. Filled(answer, plan[i]) <= orders[handle[i]].filled
    BY <1>3 DEF Filled, Unplaced
<1>7. Conclude(answer)
    BY <1>1
<1> HIDE DEF answer
<1> QED BY <1>1, <1>2, <1>4, <1>5, <1>6, <1>7, RefinesReport

(* A slice that is given the order of the one before shares its lot. *)
LEMMA RefinesDeduped == ASSUME IInv, SubmitDeduped PROVE Buys!Next
<1>1. /\ TypeOK /\ pc = "slice" /\ UNCHANGED <<plan, i, result, orders>>
      /\ i > 1 /\ plan[i] = plan[i - 1] /\ handle' = [handle EXCEPT ![i] = handle[i - 1]]
    BY DEF IInv, SubmitDeduped, Placing, Booked, asked_for
<1>2. i \in 1..Len(plan) /\ i \in Lots /\ i \in Nat /\ i - 1 \in 1..Len(plan) /\ i - 1 \in Lots
    BY <1>1, PlanFacts DEF IInv, InPlan
<1>3. orders[i] = Unplaced /\ handle[i] = i
    BY <1>1, <1>2 DEF IInv, Fresh, Active
<1>4. Bought[i] = 0 /\ Reported[i] = -1 /\ AskedFor[i] = AskedFor[i - 1]
    BY <1>1, <1>2, <1>3 DEF Bought, Reported, AskedFor, Unplaced
<1>5. Reported[i - 1] # -1
  <2>1. result[i - 1] \in Answer
      BY <1>1, <1>2 DEF TypeOK
  <2>2. result[i - 1].filled \in Nat
      BY <1>1, <2>1, PlanFacts DEF Answer
  <2> QED BY <1>2, <2>2 DEF Reported
<1>6. AskedFor' = AskedFor /\ Bought' = Bought /\ Reported' = Reported
    BY <1>1 DEF AskedFor, Bought, Reported
<1>7. Buys!ShareLot(i, i - 1)
    BY <1>1, <1>3, <1>4, <1>5, <1>6
    DEF Buys!ShareLot, Buys!Unreported, AskedFor, Bought, Reported
<1> QED BY <1>2, <1>7 DEF Buys!Next

(* What is left neither buys nor books.                                    *)
LEMMA RefinesPlaced == ASSUME IInv, SubmitWorking PROVE UNCHANGED Buys!vars
<1>1. /\ TypeOK /\ pc = "slice" /\ UNCHANGED <<plan, i, result, handle>>
    BY DEF IInv, SubmitWorking, PlacingAnew, Placing, Booked, asked_for
<1>2. i \in 1..Len(plan) /\ i \in Lots
    BY <1>1, PlanFacts DEF IInv, InPlan
<1>3. orders[i] = Unplaced
    BY <1>1, <1>2 DEF IInv, Fresh, Active
<1>4. \A s \in Lots : orders'[s].filled = orders[s].filled
    BY <1>1, <1>2, <1>3 DEF SubmitWorking, TypeOK, Unplaced
<1> QED BY <1>1, <1>4, RefinesStutter

LEMMA RefinesStanding ==
    ASSUME IInv, \/ StopWaiting \/ Cancel \/ SubmitRaises \/ OutageToggles
                 \/ \E s \in Lots : Ends(s)
                 \/ UNCHANGED vars
    PROVE  UNCHANGED Buys!vars
<1>1. TypeOK /\ UNCHANGED <<plan, i, result, handle>>
    BY DEF IInv, StopWaiting, Cancel, SubmitRaises, OutageToggles, Ends, Booked,
           vars, asked_for, oms_vars
<1>2. \A s \in Lots : orders'[s].filled = orders[s].filled
    <2>1. CASE orders' = orders
        BY <2>1
    <2>2. CASE \E s \in Lots, st \in {"done", "rejected", "cancelling"} :
                  orders' = [orders EXCEPT ![s].st = st]
        BY <1>1, <2>2 DEF TypeOK, Order
    <2>3. Cancel => handle[i] \in Lots
        BY <1>1, InHand DEF Cancel, TypeOK, Active
    <2> QED BY <2>1, <2>2, <2>3
            DEF StopWaiting, Cancel, SubmitRaises, OutageToggles, Ends, vars
<1> QED BY <1>1, <1>2, RefinesStutter

LEMMA RefinesNext == IInv /\ Own /\ [Next]_vars => [Buys!Next]_Buys!vars
<1> SUFFICES ASSUME IInv, Own, [Next]_vars PROVE Buys!Next \/ UNCHANGED Buys!vars
    OBVIOUS
<1>1. CASE SubmitFilled
    BY <1>1, RefinesFilled
<1>2. CASE SubmitDead
    BY <1>2, RefinesDead
<1>3. CASE SubmitWorking \/ SubmitDeduped
    BY <1>3, RefinesPlaced, RefinesDeduped
<1>4. CASE Poll \/ CancelFails \/ GiveUp
    BY <1>4, RefinesPoll
<1>5. CASE \E s \in Lots, n \in 1..MaxTotal : Fill(s, n)
    BY <1>5, RefinesFill
<1>6. CASE \/ StopWaiting \/ Cancel \/ SubmitRaises \/ OutageToggles
           \/ \E s \in Lots : Ends(s)
           \/ UNCHANGED vars
    BY <1>6, RefinesStanding
<1> QED BY <1>1, <1>2, <1>3, <1>4, <1>5, <1>6 DEF Next, Execute, Broker

(* Whatever the broker does, for every order and number of slices: no slice *)
(* is overbought, none reports shares its order has not bought, and only a *)
(* slice that placed no order reports one of an earlier slice again        *)
(* (oms.py 39-159, ibkr.py 331-346).                                       *)
THEOREM ImplementsThePurchase == Spec => ImplementsPurchase
<1>1. Spec => [](IInv /\ Own)
    BY InitInv, NextInv, OwnInit, OwnNext, PTL DEF Spec
<1> QED BY <1>1, RefinesInit, RefinesNext, PTL
        DEF Spec, ImplementsPurchase, Buys!Spec

-----------------------------------------------------------------------------
(* The plan adds up *)

(* The slices before the last are d shares each, the last one has the rest. *)
LEMMA SlicesAddUp ==
    ASSUME NEW q \in Nat, NEW k \in 1..q, NEW p, DOMAIN p = 1..k,
           \A s \in 1..k : p[s] = (q \div k) + IF s = k THEN q % k ELSE 0
    PROVE  SumFunction(p) = q
<1> DEFINE d == q \div k
           r == q % k
<1>1. d \in Nat /\ r \in Nat /\ k * d + r = q
  <2>1. q \div k \in 1..q /\ q % k \in 0..k-1 /\ k * (q \div k) + (q % k) = q
      BY Division
  <2> QED BY <2>1
<1>2. \A s \in 1..k : p[s] = d + IF s = k THEN r ELSE 0
    OBVIOUS
<1> HIDE DEF d, r
<1>3. \A s \in 1..k : p[s] \in Int
    BY <1>1, <1>2
<1>4. k \in Nat /\ k \in 1..k /\ (1..k) \ {k} = 1..(k - 1)
    OBVIOUS
<1>5. IsFiniteSet(1..k) /\ IsFiniteSet(1..(k - 1)) /\ Cardinality(1..(k - 1)) = k - 1
  <2>1. k - 1 \in Nat
      BY <1>4
  <2> QED BY <1>4, <2>1, FS_Interval
<1>6. SumFunctionOnSet(p, 1..k) = p[k] + SumFunctionOnSet(p, 1..(k - 1))
    BY <1>3, <1>4, <1>5, SumRemove
<1>7. SumFunctionOnSet(p, 1..(k - 1)) = (k - 1) * d
  <2>1. \A s \in 1..(k - 1) : p[s] = d
      BY <1>1, <1>2, <1>4
  <2>2. SumFunctionOnSet(p, 1..(k - 1)) = Cardinality(1..(k - 1)) * d
      BY <1>1, <1>5, <2>1, SumUniform
  <2> QED BY <1>5, <2>2
<1>8. (k - 1) * d + d = k * d /\ k * d \in Int /\ (k - 1) * d \in Int
    BY <1>1, <1>4, Multiples
<1>9. p[k] = d + r
    BY <1>2, <1>4
<1> QED BY <1>1, <1>6, <1>7, <1>8, <1>9 DEF SumFunction

(* PlanAddsUp: whatever is asked for, in however many slices, the plan     *)
(* distributes all of it, and no slice is empty.                           *)
THEOREM PlanAddsUp == Spec => []PlanCoversTotal
<1>1. ASSUME IInv PROVE PlanCoversTotal
  <2>1. /\ total \in Nat /\ Len(plan) \in Nat /\ DOMAIN plan = 1..Len(plan)
        /\ \A s \in 1..Len(plan) : plan[s] \in 1..total
      BY <1>1, PlanFacts DEF IInv
  <2>2. CASE Len(plan) = 0
    <3>1. DOMAIN plan = {} /\ \A s \in DOMAIN plan : plan[s] > 0
      <4>1. 1..0 = {}
          OBVIOUS
      <4> QED BY <2>1, <2>2, <4>1
    <3>2. total = 0
        BY <1>1, <2>2 DEF IInv, Shape
    <3> QED BY <3>1, <3>2, TotalEmpty DEF PlanCoversTotal
  <2>3. CASE Len(plan) # 0
    <3>1. Len(plan) \in 1..total
      <4>1. Len(plan) <= total
          BY <1>1 DEF IInv, Shape
      <4> QED BY <2>1, <2>3, <4>1
    <3>2. SumFunction(plan) = total
        BY <1>1, <2>1, <3>1, SlicesAddUp DEF IInv, Shape
    <3> QED BY <2>1, <3>2 DEF PlanCoversTotal
  <2> QED BY <2>2, <2>3
<1>2. Spec => []IInv
    BY InitInv, NextInv, PTL DEF Spec
<1> QED BY <1>1, <1>2, PTL

-----------------------------------------------------------------------------
(* What is left in the market *)

(* After the cancel call the order no longer just works. *)
Confirmed == pc = "confirm" => orders[handle[i]].st # "working"

Withdrawn == LeftWorkingOnlyByOutage /\ Confirmed

(* Booking a slice whose order is not left working, or whose cancel failed. *)
LEMMA BookedWithdrawn ==
    ASSUME IInv, Withdrawn, i' = i + 1, pc' # "confirm", UNCHANGED handle,
           \A s \in Lots \ {i} : orders'[s] = orders[s],
           uncancelled \subseteq uncancelled',
           orders' = orders \/ handle[i] = i,
           i \in Lots, orders'[i].st = "working" => i \in uncancelled'
    PROVE  Withdrawn'
<1>1. i \in Nat /\ i - 1 \in Nat /\ \A s \in 1..i - 1 : s \in Lots \ {i}
    BY PlanFacts DEF IInv, Lots
<1>2. \A s \in 1..i' - 1 : s = i \/ s \in 1..i - 1
    BY <1>1
<1>3. LeftWorkingOnlyByOutage'
    BY <1>1, <1>2 DEF Withdrawn, LeftWorkingOnlyByOutage
<1> QED BY <1>3 DEF Withdrawn, Confirmed

(* A step that puts nothing to work but the order of the slice in hand. *)
LEMMA StandingWithdrawn ==
    ASSUME IInv, Withdrawn, UNCHANGED <<i, uncancelled>>,
           \A s \in Lots : orders'[s].st = "working" => orders[s].st = "working" \/ s = i,
           Confirmed'
    PROVE  Withdrawn'
<1>1. \A s \in 1..i - 1 : s \in Lots \ {i}
    BY PlanFacts DEF IInv, Lots, TypeOK
<1>2. LeftWorkingOnlyByOutage'
    BY <1>1 DEF Withdrawn, LeftWorkingOnlyByOutage
<1> QED BY <1>2 DEF Withdrawn

LEMMA PollWithdrawn ==
    ASSUME IInv, Own, Withdrawn, Poll \/ CancelFails \/ GiveUp PROVE Withdrawn'
<1>1. /\ pc \in Active /\ UNCHANGED <<handle, orders, plan>>
      /\ uncancelled \subseteq uncancelled'
    BY DEF Poll, CancelFails, GiveUp, Active, asked_for
<1>2. i \in Lots /\ handle[i] \in Lots /\ handle[i] \in 1..Len(plan) /\ TypeOK /\ Capped
    BY <1>1, InHand, PlanFacts DEF IInv
<1>3. CASE Poll /\ UNCHANGED i
  <2>1. pc' = pc /\ UNCHANGED <<i, uncancelled>>
    <3>1. i \in Nat
        BY <1>2 DEF Lots
    <3>2. ~Conclude(Asked(handle[i]))
        BY <1>3, <3>1 DEF Conclude
    <3> QED BY <1>3, <3>2 DEF Poll, Booked
  <2>2. Confirmed'
      BY <1>1, <2>1 DEF Withdrawn, Confirmed
  <2> QED BY <1>1, <1>2, <2>1, <2>2, StandingWithdrawn
<1>4. CASE ~(Poll /\ UNCHANGED i)
  <2>1. i' = i + 1 /\ pc' # "confirm"
      BY <1>4 DEF Poll, CancelFails, GiveUp, Conclude, Booked
  <2>2. CASE handle[i] # i
    <3>1. orders'[i].st # "working"
        BY <1>1, <1>2, <2>2 DEF Own
    <3> QED BY <1>1, <1>2, <2>1, <3>1, BookedWithdrawn
  <2>3. CASE handle[i] = i
    <3>1. CASE Poll
      <4>1. Asked(i).status \in TERMINAL
          BY <1>4, <2>3, <3>1 DEF Poll, Booked
      <4>2. ~Live(i)
          BY <1>2, <2>3, <4>1, AskedFacts
      <4>3. orders'[i].st # "working"
          BY <1>1, <4>2 DEF Live
      <4> QED BY <1>1, <1>2, <2>1, <4>3, BookedWithdrawn
    <3>2. CASE CancelFails
      <4>1. i \in uncancelled'
          BY <2>3, <3>2 DEF CancelFails
      <4> QED BY <1>1, <1>2, <2>1, <4>1, BookedWithdrawn
    <3>3. CASE GiveUp
      <4>1. orders'[i].st # "working"
          BY <1>1, <2>3, <3>3 DEF GiveUp, Withdrawn, Confirmed
      <4> QED BY <1>1, <1>2, <2>1, <4>1, BookedWithdrawn
    <3> QED BY <3>1, <3>2, <3>3
  <2> QED BY <2>2, <2>3
<1> QED BY <1>3, <1>4

LEMMA SubmitWithdrawn ==
    ASSUME IInv, Withdrawn, SubmitWorking \/ SubmitFilled \/ SubmitDead \/ SubmitDeduped
    PROVE  Withdrawn'
<1>1. pc = "slice" /\ UNCHANGED uncancelled /\ i \in Lots
    BY PlanFacts
    DEF IInv, InPlan, SubmitWorking, SubmitFilled, SubmitDead, SubmitDeduped, PlacingAnew,
        Placing, Lots
<1>2. orders[i] = Unplaced /\ handle[i] = i /\ TypeOK
    BY <1>1 DEF IInv, Fresh, Active
<1>3. CASE SubmitFilled \/ SubmitDead
  <2>1. /\ i' = i + 1 /\ pc' # "confirm" /\ UNCHANGED handle
        /\ \E order \in [filled : {0, plan[i]}, st : {"done", "rejected"}] :
              orders' = [orders EXCEPT ![i] = order]
      BY <1>3 DEF SubmitFilled, SubmitDead, PlacingAnew, Conclude
  <2>2. /\ \A s \in Lots \ {i} : orders'[s] = orders[s]
        /\ orders'[i].st # "working"
      BY <1>1, <1>2, <2>1 DEF TypeOK
  <2> QED BY <1>1, <1>2, <2>1, <2>2, BookedWithdrawn
<1>4. CASE SubmitWorking
  <2>1. /\ pc' = "poll" /\ UNCHANGED <<i, handle>>
        /\ orders' = [orders EXCEPT ![i] = [filled |-> 0, st |-> "working"]]
      BY <1>4 DEF SubmitWorking, PlacingAnew, Booked
  <2>2. \A s \in Lots \ {i} : orders'[s] = orders[s]
      BY <1>2, <2>1 DEF TypeOK
  <2> QED BY <1>1, <2>1, <2>2, StandingWithdrawn DEF Confirmed
<1>5. CASE SubmitDeduped
  <2>1. pc' = "poll" /\ UNCHANGED <<i, orders>>
      BY <1>5 DEF SubmitDeduped, Booked
  <2> QED BY <1>1, <2>1, StandingWithdrawn DEF Confirmed
<1> QED BY <1>3, <1>4, <1>5

LEMMA WaitingWithdrawn ==
    ASSUME IInv, Withdrawn, StopWaiting \/ Cancel \/ SubmitRaises PROVE Withdrawn'
<1>1. UNCHANGED <<i, handle, uncancelled>> /\ TypeOK
    BY DEF IInv, StopWaiting, Cancel, SubmitRaises, Booked
<1>2. CASE StopWaiting \/ SubmitRaises
  <2>1. UNCHANGED orders /\ pc' # "confirm"
      BY <1>2 DEF StopWaiting, SubmitRaises
  <2> QED BY <1>1, <2>1 DEF Withdrawn, LeftWorkingOnlyByOutage, Confirmed
<1>3. CASE Cancel
  <2> DEFINE h == handle[i]
  <2>1. h \in Lots
      BY <1>3, InHand DEF Cancel, Active
  <2>2. \/ UNCHANGED orders /\ orders[h].st # "working"
        \/ \E st \in {"done", "cancelling"} :
              orders' = [orders EXCEPT ![h].st = st] /\ orders[h].st # "none"
      BY <1>3 DEF Cancel, Live
  <2> HIDE DEF h
  <2>3. /\ \A s \in Lots : orders'[s].st = "working" => orders[s].st = "working"
        /\ orders'[h].st # "working"
    <3>1. orders \in [Lots -> Order]
        BY <1>1 DEF TypeOK
    <3> QED BY <2>1, <2>2, <3>1 DEF Order
  <2>4. Confirmed'
      BY <1>1, <2>3 DEF Confirmed, h
  <2>5. LeftWorkingOnlyByOutage'
    <3>1. \A s \in 1..i - 1 : s \in Lots
        BY <1>1, PlanFacts DEF TypeOK, Lots
    <3> QED BY <1>1, <2>3, <3>1 DEF Withdrawn, LeftWorkingOnlyByOutage
  <2> QED BY <2>4, <2>5 DEF Withdrawn
<1> QED BY <1>2, <1>3

LEMMA BrokerWithdrawn == ASSUME IInv, Withdrawn, Broker PROVE Withdrawn'
<1>1. UNCHANGED <<i, pc, handle, uncancelled>> /\ orders \in [Lots -> Order]
    BY DEF IInv, TypeOK, Broker, Fill, Ends, OutageToggles, oms_vars
<1>2. \A s \in Lots : orders'[s].st = "working" => orders[s].st = "working"
  <2>1. ASSUME NEW r \in Lots, Ends(r)
        PROVE  \A s \in Lots : orders'[s].st = "working" => orders[s].st = "working"
      BY <1>1, <2>1 DEF Ends, Live, Order
  <2>2. ASSUME NEW r \in Lots, NEW n \in 1..MaxTotal, Fill(r, n)
        PROVE  \A s \in Lots : orders'[s].st = "working" => orders[s].st = "working"
      BY <1>1, <2>2 DEF Fill, Live, Order
  <2>3. CASE OutageToggles
      BY <2>3 DEF OutageToggles
  <2> QED BY <2>1, <2>2, <2>3 DEF Broker
<1>3. Confirmed'
  <2>1. pc = "confirm" => handle[i] \in Lots
      BY InHand DEF Active
  <2> QED BY <1>1, <1>2, <2>1 DEF Withdrawn, Confirmed
<1>4. LeftWorkingOnlyByOutage'
  <2>1. \A s \in 1..i - 1 : s \in Lots
      BY PlanFacts DEF IInv, TypeOK, Lots
  <2> QED BY <1>1, <1>2, <2>1 DEF Withdrawn, LeftWorkingOnlyByOutage
<1> QED BY <1>3, <1>4 DEF Withdrawn

(* NoPileUp: slices do not pile up in the market: an order that still      *)
(* works after its slice is over is one whose cancel call failed.          *)
THEOREM NoPileUp == Spec => []LeftWorkingOnlyByOutage
<1>1. Init => Withdrawn
    BY DEF Init, Withdrawn, LeftWorkingOnlyByOutage, Confirmed
<1>2. ASSUME IInv, Own, Withdrawn, [Next]_vars PROVE Withdrawn'
  <2>1. CASE Execute
      BY <1>2, <2>1, SubmitWithdrawn, PollWithdrawn, WaitingWithdrawn DEF Execute
  <2>2. CASE Broker
      BY <1>2, <2>2, BrokerWithdrawn
  <2>3. CASE UNCHANGED vars
      BY <1>2, <2>3 DEF vars, oms_vars, Withdrawn, LeftWorkingOnlyByOutage, Confirmed
  <2> QED BY <1>2, <2>1, <2>2, <2>3 DEF Next
<1>3. Spec => [](IInv /\ Own)
    BY InitInv, NextInv, OwnInit, OwnNext, PTL DEF Spec
<1>4. Withdrawn => LeftWorkingOnlyByOutage
    BY DEF Withdrawn
<1> QED BY <1>1, <1>2, <1>3, <1>4, PTL DEF Spec

-----------------------------------------------------------------------------
(* What is reported *)

Counted(s) == result[s].filled
Whole      == {s \in 1..i - 1 : result[s].status = "filled"}

(* The answers that ended a slice stay true: the order is over for good.   *)
Final ==
    \A s \in 1..i - 1 :
        /\ result[s].status \in TERMINAL =>
               ~Live(handle[s]) /\ result[s].filled = orders[handle[s]].filled
        /\ result[s].status = "filled" => result[s].filled = plan[s]

Tallied ==
    /\ cumulative = SumFunction([s \in 1..i - 1 |-> Counted(s)])
    /\ slices_filled = Cardinality(Whole)

Reports == Final /\ Tallied

LEMMA ResultType ==
    ASSUME TypeOK
    PROVE  /\ i - 1 \in Nat /\ result \in Seq(Answer) /\ Len(result) = i - 1
           /\ \A s \in 1..i - 1 : result[s] \in Answer /\ Counted(s) \in Nat
<1>1. i - 1 \in Nat /\ result \in Seq(Answer) /\ Len(result) = i - 1 /\ MaxTotal \in Nat
    BY PlanFacts DEF TypeOK
<1>2. \A s \in 1..i - 1 : result[s] \in Answer
    BY <1>1, ElementOfSeq
<1> QED BY <1>1, <1>2 DEF Answer, Counted

(* Booking an answer adds a term to each tally. *)
LEMMA BookedTallied ==
    ASSUME IInv, Tallied, i \in 1..Len(plan), NEW answer \in Answer,
           answer.filled <= plan[i], Conclude(answer)
    PROVE  /\ Tallied'
           /\ \A s \in 1..i - 1 : result'[s] = result[s]
           /\ result'[i] = [answer EXCEPT !.filled = Filled(answer, plan[i])]
<1> DEFINE n == Filled(answer, plan[i])
<1>1. /\ TypeOK /\ i \in Nat /\ plan[i] \in Nat /\ plan[i] <= MaxTotal /\ MaxTotal \in Nat
      /\ n \in 0..plan[i]
    BY PlanFacts, FilledBounds DEF IInv
<1>2. /\ i' = i + 1 /\ cumulative' = cumulative + n
      /\ result' = Append(result, [answer EXCEPT !.filled = n])
      /\ slices_filled' = slices_filled + IF answer.status = "filled" THEN 1 ELSE 0
    BY DEF Conclude
<1> HIDE DEF n
<1>3. /\ [answer EXCEPT !.filled = n] \in Answer
      /\ [answer EXCEPT !.filled = n].filled = n
      /\ [answer EXCEPT !.filled = n].status = answer.status
    BY <1>1 DEF Answer
<1>4. /\ \A s \in 1..i - 1 : result'[s] = result[s]
      /\ result'[i] = [answer EXCEPT !.filled = n]
    BY <1>1, <1>2, <1>3, ResultType, AppendProperties
<1>5. cumulative' = SumFunction([s \in 1..i' - 1 |-> Counted(s)'])
  <2> DEFINE f == [s \in 1..i - 1 |-> result[s].filled]
             g == [s \in 1..i |-> result'[s].filled]
  <2>1. i - 1 \in Nat /\ (i - 1) + 1 = i /\ i' - 1 = i /\ i \in 1..i
      BY <1>1, <1>2, ResultType
  <2>2. f \in [1..i - 1 -> Int] /\ \A s \in 1..i - 1 : g[s] = f[s]
      BY <1>1, <1>4, <2>1, ResultType DEF Counted
  <2>3. g[i] = n /\ n \in Int
    <3>1. result'[i].filled = n
        BY <1>3, <1>4
    <3>2. g[i] = result'[i].filled
        BY <2>1
    <3>3. n \in Int
        BY <1>1
    <3> QED BY <3>1, <3>2, <3>3
  <2>4. g \in [1..i -> Int]
    <3>1. \A s \in 1..i : s \in 1..i - 1 \/ s = i
        BY <1>1
    <3>2. \A s \in 1..i : g[s] \in Int
        BY <2>2, <2>3, <3>1
    <3> QED BY <3>2
  <2>5. cumulative = SumFunction(f)
      BY DEF Tallied, Counted
  <2>6. g = [s \in 1..i' - 1 |-> Counted(s)']
      BY <2>1 DEF Counted
  <2> HIDE DEF f, g
  <2>7. SumFunction(g) = SumFunction(f) + g[i]
      BY <2>1, <2>2, <2>4, TotalNext
  <2> QED BY <1>2, <2>3, <2>5, <2>6, <2>7
<1>6. slices_filled' = Cardinality(Whole')
  <2>1. i - 1 \in Nat /\ i' - 1 = i /\ IsFiniteSet(1..i - 1)
      BY <1>1, <1>2, ResultType, FS_Interval
  <2>2. IsFiniteSet(Whole) /\ i \notin Whole
      BY <1>1, <2>1, FS_Subset DEF Whole
  <2>3. Whole' = IF answer.status = "filled" THEN Whole \cup {i} ELSE Whole
    <3>1. \A s : s \in 1..i <=> s \in 1..i - 1 \/ s = i
        BY <1>1
    <3>2. \A s : s \in Whole' <=> s \in 1..i /\ result'[s].status = "filled"
        BY <2>1 DEF Whole
    <3>3. \A s : s \in Whole <=> s \in 1..i - 1 /\ result[s].status = "filled"
        BY DEF Whole
    <3>4. \A s : s \in Whole' <=> s \in Whole \/ (s = i /\ answer.status = "filled")
        BY <1>3, <1>4, <3>1, <3>2, <3>3
    <3> QED BY <3>4
  <2>4. Cardinality(Whole \cup {i}) = Cardinality(Whole) + 1
      BY <2>2, FS_AddElement
  <2>5. slices_filled \in Nat /\ slices_filled = Cardinality(Whole)
      BY <1>1, PlanFacts DEF TypeOK, Tallied
  <2> QED BY <1>2, <2>3, <2>4, <2>5
<1> QED BY <1>4, <1>5, <1>6 DEF Tallied, n

(* A slice is booked with the last word on its order, or with none. *)
LEMMA BookedReports ==
    ASSUME IInv, Reports, i \in 1..Len(plan), UNCHANGED <<plan, handle>>,
           NEW answer \in Answer, answer.filled <= plan[i], Conclude(answer),
           \A s \in Lots \ {i} : orders'[s] = orders[s],
           answer.status = "filled" => Filled(answer, plan[i]) = plan[i],
           answer.status \in TERMINAL =>
               /\ orders'[handle[i]].st \notin {"working", "cancelling"}
               /\ Filled(answer, plan[i]) = orders'[handle[i]].filled
    PROVE  Reports'
<1>1. /\ Tallied' /\ \A s \in 1..i - 1 : result'[s] = result[s]
      /\ result'[i] = [answer EXCEPT !.filled = Filled(answer, plan[i])]
    BY BookedTallied DEF Reports
<1>2. result'[i].status = answer.status /\ result'[i].filled = Filled(answer, plan[i])
    BY <1>1 DEF Answer
<1>3. i' = i + 1 /\ i \in Nat
    BY DEF Conclude
<1>4. ASSUME NEW s \in 1..i - 1 PROVE handle[s] \in Lots \ {i}
  <2>1. TypeOK /\ Len(plan) \in Nat /\ Len(plan) <= MaxSlices /\ MaxSlices \in Nat
      BY PlanFacts DEF IInv
  <2>2. s \in Lots /\ s < i
      BY <1>3, <2>1 DEF Lots
  <2>3. handle[s] \in Lots /\ handle[s] <= s
      BY <2>1, <2>2 DEF TypeOK
  <2> QED BY <1>3, <2>2, <2>3 DEF Lots
<1>5. ASSUME NEW s \in 1..i' - 1
      PROVE  /\ result'[s].status \in TERMINAL =>
                    /\ orders'[handle'[s]].st \notin {"working", "cancelling"}
                    /\ result'[s].filled = orders'[handle'[s]].filled
             /\ result'[s].status = "filled" => result'[s].filled = plan'[s]
  <2>1. CASE s = i
      BY <1>2, <2>1
  <2>2. CASE s \in 1..i - 1
      BY <1>1, <1>4, <2>2 DEF Reports, Final, Live
  <2> QED BY <1>3, <2>1, <2>2
<1>6. Final'
    BY <1>5 DEF Final, Live
<1> QED BY <1>1, <1>6 DEF Reports

(* A step that books nothing and leaves alone the orders that are over. *)
LEMMA StandingReports ==
    ASSUME IInv, Reports, UNCHANGED <<plan, i, slices_filled, cumulative, result>>,
           \A s \in Lots \ {i} : handle'[s] = handle[s],
           \A s \in Lots : Live(s) \/ s = i \/ orders'[s] = orders[s]
    PROVE  Reports'
<1>1. Tallied'
    BY DEF Reports, Tallied, Counted, Whole
<1>2. ASSUME NEW s \in 1..i - 1
      PROVE  handle'[s] = handle[s] /\ handle[s] \in Lots \ {i}
  <2>1. TypeOK /\ i \in Nat /\ i - 1 <= MaxSlices /\ MaxSlices \in Nat
      BY PlanFacts DEF IInv, TypeOK
  <2>2. s \in Lots \ {i} /\ s < i
      BY <2>1 DEF Lots
  <2>3. handle[s] \in Lots /\ handle[s] <= s
      BY <2>1, <2>2 DEF TypeOK
  <2> QED BY <2>1, <2>2, <2>3 DEF Lots
<1>3. Final'
    BY <1>2 DEF Reports, Final, Live
<1> QED BY <1>1, <1>3 DEF Reports

LEMMA PollReports == ASSUME IInv, Reports, Poll \/ CancelFails \/ GiveUp PROVE Reports'
<1>1. /\ TypeOK /\ Capped /\ pc \in Active
      /\ UNCHANGED <<plan, handle, orders>>
    BY DEF IInv, Poll, CancelFails, GiveUp, Active, asked_for
<1>2. /\ i \in 1..Len(plan) /\ handle[i] \in 1..Len(plan)
      /\ plan[handle[i]] = plan[i] /\ plan[i] \in Nat
      /\ latest \in Answer /\ latest.filled <= plan[i] /\ latest.status \notin TERMINAL
    BY <1>1, InHand
<1> DEFINE asked == Asked(handle[i])
<1>3. /\ asked \in Answer /\ asked.filled \in 0..plan[i]
      /\ asked.filled = orders[handle[i]].filled
      /\ asked.status = "filled" => asked.filled = plan[i]
      /\ Live(handle[i]) => asked.status \notin TERMINAL
    BY <1>1, <1>2, AskedFacts
<1> HIDE DEF asked
<1>4. CASE Conclude(latest)
    BY <1>1, <1>2, <1>4, BookedReports DEF TERMINAL
<1>5. CASE Conclude(asked)
  <2>1. asked.filled <= plan[i] /\ Filled(asked, plan[i]) = asked.filled
      BY <1>2, <1>3, FilledBounds
  <2>2. asked.status \in TERMINAL => orders'[handle[i]].st \notin {"working", "cancelling"}
      BY <1>1, <1>3 DEF Live
  <2> QED BY <1>1, <1>2, <1>3, <1>5, <2>1, <2>2, BookedReports
<1>6. CASE ~Conclude(latest) /\ ~Conclude(asked)
  <2>1. UNCHANGED <<i, slices_filled, cumulative, result>>
      BY <1>6 DEF Poll, CancelFails, GiveUp, Booked, asked
  <2> QED BY <1>1, <2>1, StandingReports
<1> QED BY <1>4, <1>5, <1>6

LEMMA SubmitReports ==
    ASSUME IInv, Reports, SubmitWorking \/ SubmitFilled \/ SubmitDead \/ SubmitDeduped
    PROVE  Reports'
<1>1. TypeOK /\ pc = "slice" /\ UNCHANGED plan
    BY DEF IInv, SubmitWorking, SubmitFilled, SubmitDead, SubmitDeduped, PlacingAnew,
           Placing, asked_for
<1>2. i \in 1..Len(plan) /\ i \in Lots /\ plan[i] \in Nat /\ plan[i] >= 1
      /\ plan[i] <= MaxTotal /\ MaxTotal \in Nat
    BY <1>1, PlanFacts DEF IInv, InPlan
<1>3. orders[i] = Unplaced /\ handle[i] = i
    BY <1>1, <1>2 DEF IInv, Fresh, Active
<1>4. CASE SubmitFilled
  <2>1. PICK told \in {0, plan[i]} : Conclude([status |-> "filled", filled |-> told])
      BY <1>4 DEF SubmitFilled
  <2> DEFINE answer == [status |-> "filled", filled |-> told]
  <2>2. answer \in Answer /\ answer.filled <= plan[i] /\ Filled(answer, plan[i]) = plan[i]
      BY <1>2, <2>1 DEF Answer, Statuses, TERMINAL, Filled
  <2>3. /\ UNCHANGED handle
        /\ orders' = [orders EXCEPT ![i] = [filled |-> plan[i], st |-> "done"]]
      BY <1>4 DEF SubmitFilled, PlacingAnew
  <2>4. /\ \A s \in Lots \ {i} : orders'[s] = orders[s]
        /\ orders'[i].st = "done" /\ orders'[i].filled = plan[i]
      BY <1>1, <1>2, <2>3 DEF TypeOK
  <2>5. Conclude(answer)
      BY <2>1
  <2> HIDE DEF answer
  <2> QED BY <1>1, <1>2, <1>3, <2>2, <2>3, <2>4, <2>5, BookedReports
<1>5. CASE SubmitDead
  <2> DEFINE answer == [status |-> "rejected", filled |-> 0]
  <2>1. /\ answer \in Answer /\ answer.filled <= plan[i] /\ Filled(answer, plan[i]) = 0
        /\ answer.status # "filled"
      BY <1>2 DEF Answer, Statuses, TERMINAL, Filled
  <2>2. /\ UNCHANGED handle /\ Conclude(answer)
        /\ orders' = [orders EXCEPT ![i] = [filled |-> 0, st |-> "rejected"]]
      BY <1>5 DEF SubmitDead, PlacingAnew
  <2>3. /\ \A s \in Lots \ {i} : orders'[s] = orders[s]
        /\ orders'[i].st = "rejected" /\ orders'[i].filled = 0
      BY <1>1, <1>2, <2>2 DEF TypeOK
  <2> HIDE DEF answer
  <2> QED BY <1>1, <1>2, <1>3, <2>1, <2>2, <2>3, BookedReports
<1>6. CASE SubmitWorking \/ SubmitDeduped
  <2>1. UNCHANGED <<i, slices_filled, cumulative, result>>
      BY <1>6 DEF SubmitWorking, SubmitDeduped, Booked
  <2>2. \A s \in Lots \ {i} : handle'[s] = handle[s] /\ orders'[s] = orders[s]
      BY <1>1, <1>6 DEF SubmitWorking, SubmitDeduped, PlacingAnew, TypeOK
  <2> QED BY <1>1, <2>1, <2>2, StandingReports
<1> QED BY <1>4, <1>5, <1>6

(* A fill, an end or a cancel is of a live order. *)
LEMMA OtherReports ==
    ASSUME IInv, Reports, StopWaiting \/ Cancel \/ SubmitRaises \/ Broker PROVE Reports'
<1>1. /\ orders \in [Lots -> Order]
      /\ UNCHANGED <<plan, i, slices_filled, cumulative, result, handle>>
    BY DEF IInv, TypeOK, StopWaiting, Cancel, SubmitRaises, Broker, Fill, Ends, OutageToggles,
           Booked, asked_for, oms_vars
<1>2. \A s \in Lots : Live(s) \/ orders'[s] = orders[s]
  <2>1. CASE UNCHANGED orders
      BY <2>1
  <2>2. CASE \E r \in Lots : /\ Live(r)
                             /\ \E order : orders' = [orders EXCEPT ![r] = order]
      BY <1>1, <2>2
  <2>3. ASSUME Cancel, orders' # orders
        PROVE  \E r \in Lots : Live(r) /\ \E order : orders' = [orders EXCEPT ![r] = order]
    <3>1. handle[i] \in Lots
        BY <2>3, InHand DEF Cancel, Active
    <3> QED BY <2>3, <3>1 DEF Cancel
  <2> QED BY <2>1, <2>2, <2>3
          DEF StopWaiting, SubmitRaises, Broker, Fill, Ends, OutageToggles
<1> QED BY <1>1, <1>2, StandingReports

LEMMA ReportsAlways == Spec => [](IInv /\ Reports)
<1>1. ASSUME Init PROVE Reports
  <2>1. i - 1 = 0 /\ 1..0 = {}
      BY <1>1 DEF Init
  <2>2. DOMAIN [s \in 1..i - 1 |-> Counted(s)] = {} /\ Whole = {}
      BY <2>1 DEF Whole
  <2>3. SumFunction([s \in 1..i - 1 |-> Counted(s)]) = 0 /\ Cardinality(Whole) = 0
      BY <2>2, TotalEmpty, FS_EmptySet
  <2> QED BY <1>1, <2>1, <2>3 DEF Init, Reports, Final, Tallied
<1>2. ASSUME IInv, Reports, [Next]_vars PROVE Reports'
  <2>1. CASE Next
      BY <1>2, <2>1, SubmitReports, PollReports, OtherReports DEF Next, Execute
  <2>2. CASE UNCHANGED vars
      BY <1>2, <2>2 DEF vars, asked_for, oms_vars, Reports, Final, Tallied, Counted, Whole, Live
  <2> QED BY <1>2, <2>1, <2>2
<1> QED BY <1>1, <1>2, InitInv, NextInv, PTL DEF Spec

(* ResultIsExact: filled_qty is the sum of what the slices report, and a   *)
(* slice whose order is over reports exactly what that order bought, now   *)
(* and whatever the broker does later.                                     *)
THEOREM ResultIsExact == Spec => []ResultExact
<1>1. ASSUME IInv, Reports PROVE ResultExact
    BY <1>1 DEF Reports, Final, Tallied, Counted, ResultExact
<1> QED BY <1>1, ReportsAlways, PTL

(* Escalates: a slice is placed at the market when at most a fifth of the  *)
(* slices before it were bought whole, whichever answers ended them.       *)
THEOREM Escalates == Spec => EscalatesWhenLagging
<1>1. ASSUME IInv, Reports, Next,
             pc = "slice", i > 1, <<pc', i'>> # <<pc, i>>, pc' # "failed",
             5 * Cardinality({s \in 1..i - 1 : result[s].filled = plan[s]}) <= i - 1
      PROVE  aggression' = "marketable"
  <2> DEFINE full == {s \in 1..i - 1 : result[s].filled = plan[s]}
  <2>1. aggression' = escalate_aggression(i - 1, slices_filled)
      BY <1>1 DEF Next, Execute, Broker, SubmitWorking, SubmitFilled, SubmitDead, SubmitDeduped,
                  SubmitRaises, PlacingAnew, Placing, Poll, StopWaiting, Cancel, CancelFails,
                  GiveUp, Fill, Ends, OutageToggles, oms_vars
  <2>2. TypeOK /\ i - 1 \in Nat /\ IsFiniteSet(1..i - 1)
    <3>1. TypeOK
        BY <1>1 DEF IInv
    <3>2. i - 1 \in Nat /\ i \in Nat
        BY <3>1, ResultType DEF TypeOK
    <3> QED BY <3>1, <3>2, FS_Interval
  <2>3. Whole \subseteq full /\ full \subseteq 1..i - 1
      BY <1>1 DEF Reports, Final, Whole
  <2>4. 5 * Cardinality(full) <= i - 1
      BY <1>1
  <2> HIDE DEF full
  <2>5. IsFiniteSet(full) /\ Cardinality(full) \in Nat
      BY <2>2, <2>3, FS_Subset, FS_CardinalityType
  <2>6. slices_filled \in Nat /\ slices_filled <= Cardinality(full)
      BY <1>1, <2>3, <2>5, FS_Subset, FS_CardinalityType DEF Reports, Tallied
  <2>7. 5 * ((i - 1) - slices_filled) >= 4 * (i - 1) /\ i - 1 > 0
    <3>1. i \in Int
        BY <2>2 DEF TypeOK
    <3> QED BY <1>1, <2>4, <2>5, <2>6, <3>1
  <2> QED BY <2>1, <2>7 DEF escalate_aggression
<1>2. IInv /\ Reports /\ [Next]_vars =>
          [pc = "slice" /\ i > 1 /\ <<pc', i'>> # <<pc, i>> /\ pc' # "failed"
           /\ 5 * Cardinality({s \in 1..i - 1 : result[s].filled = plan[s]}) <= i - 1
                => aggression' = "marketable"]_vars
    BY <1>1
<1> QED BY <1>2, ReportsAlways, PTL DEF Spec, EscalatesWhenLagging
=============================================================================
