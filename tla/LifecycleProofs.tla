--------------------------- MODULE LifecycleProofs ---------------------------
(***************************************************************************)
(* For every set of tickers, callers and order ids, and every holding: the *)
(* exit daemon never has a sell it does not track, never two live sells of *)
(* one ticker, oversells by no more than what raced its cancel, never      *)
(* records more than was sold, and implements the abstract sale of Sale.   *)
(*                                                                         *)
(* The argument.  A caller owns its ticker (Owner, Excl), so nobody else   *)
(* writes that meta.  With no pending id the mirror qty is covered by the  *)
(* holding (FreeQty); with one, the position read makes it so (Promise,    *)
(* Window), and a fill after the read is counted in `raced'.  A submit     *)
(* happens with no live order left (Clean with NoUntrackedLiveSell).  With *)
(* one live sell at most, the sum on offer is what that sell has left, and *)
(* each step is a step of the seller or one the seller does not see.       *)
(***************************************************************************)
EXTENDS Lifecycle, Sums

Busy(k)      == pc[k] \notin {"idle", "loop"}
Trimming(k)  == pc[k] \in {"cancel_halve", "confirm_halve"}
Committed(k) == pc[k] \in {"cancel_exit", "confirm_exit", "submit"}

Owner == \A k \in Tasks : Busy(k) => cur[k] \in in_flight /\ cur[k] \in book

Excl == \A k1, k2 \in Tasks : Busy(k1) /\ Busy(k2) /\ cur[k1] = cur[k2] => k1 = k2

FreeQty ==
    \A t \in book : positions[t].pending = {} => positions[t].qty <= held[t] + raced[t]

Ledger == \A t \in book : recorded[t] + positions[t].qty <= InitQty

Window ==
    \A k \in Tasks : Trimming(k) =>
        /\ positions[cur[k]].qty <= held[cur[k]] + raced[cur[k]]
        /\ held[cur[k]] <= positions[cur[k]].qty
        /\ recorded[cur[k]] + gap[k] + positions[cur[k]].qty <= InitQty

Promise ==
    \A k \in Tasks : Committed(k) =>
        /\ sell[k].qty <= positions[cur[k]].qty
        /\ positions[cur[k]].qty <= held[cur[k]] + raced[cur[k]]

Clean == \A k \in Tasks : pc[k] = "submit" => positions[cur[k]].pending = {}

IInv ==
    /\ TypeOK
    /\ Owner
    /\ Excl
    /\ FreeQty
    /\ Ledger
    /\ Window
    /\ Promise
    /\ Clean
    /\ NoUntrackedLiveSell
    /\ AtMostOneLiveSell
    /\ OversoldOnlyByRace
    /\ ExitLogSound

(* An order that ends at the broker (cancel acknowledged, expiry, reject)  *)
(* offers nothing any more; nothing else moves.                            *)
LEMMA OrderEndsInv ==
  ASSUME IInv, NEW o \in Orders, OrderEnds(o)
  PROVE  IInv'
<1> USE InitQtyAssumption
<1>0. UNCHANGED <<book, positions, in_flight, recorded, pc, todo, cur, quote, sell, gap,
                  held, market, outage, raced>>
  BY DEF OrderEnds, broker_vars, local_vars, frame_vars
<1>a. orders[o] \in Order /\ Live(o)
  BY DEF OrderEnds, IInv, TypeOK
<1>b. orders' = [orders EXCEPT ![o] = [@ EXCEPT !.st = "done", !.left = 0]]
  BY DEF OrderEnds
<1>b1. orders'[o] = [orders[o] EXCEPT !.st = "done", !.left = 0]
  BY <1>b DEF IInv, TypeOK
<1>b2. /\ orders'[o] \in Order
       /\ orders'[o].st = "done"
       /\ orders'[o].ticker = orders[o].ticker
  <2>1. [orders[o] EXCEPT !.st = "done", !.left = 0] \in Order
    BY <1>a DEF Order
  <2>2. [orders[o] EXCEPT !.st = "done", !.left = 0].st = "done"
    BY <1>a DEF Order
  <2>3. [orders[o] EXCEPT !.st = "done", !.left = 0].ticker = orders[o].ticker
    BY <1>a DEF Order
  <2> QED
    BY <1>b1, <2>1, <2>2, <2>3
<1>b3. \A p \in Orders \ {o} : orders'[p] = orders[p]
  BY <1>b DEF IInv, TypeOK
<1>b4. orders' \in [Orders -> Order]
  BY <1>b, <1>b1, <1>b2 DEF IInv, TypeOK
<1>1. TypeOK'
  <2>1. orders' \in [Orders -> Order]
    BY <1>b4
  <2> QED
    BY <1>0, <2>1, SMTT(30) DEF IInv, TypeOK
<1>2. Owner'
  BY <1>0, <1>a, <1>b2, <1>b3 DEF IInv, Owner, Busy
<1>3. Excl'
  BY <1>0, <1>a, <1>b2, <1>b3 DEF IInv, Excl, Busy
<1>4. FreeQty'
  BY <1>0, <1>a, <1>b2, <1>b3 DEF IInv, FreeQty
<1>5. Ledger'
  BY <1>0, <1>a, <1>b2, <1>b3 DEF IInv, Ledger
<1>6. Window'
  BY <1>0, <1>a, <1>b2, <1>b3 DEF IInv, Window, Trimming
<1>7. Promise'
  BY <1>0, <1>a, <1>b2, <1>b3 DEF IInv, Promise, Committed
<1>8. Clean'
  BY <1>0, <1>a, <1>b2, <1>b3 DEF IInv, Clean
<1>9. NoUntrackedLiveSell'
  BY <1>0, <1>a, <1>b2, <1>b3 DEF IInv, NoUntrackedLiveSell, Live
<1>10. AtMostOneLiveSell'
  BY <1>0, <1>a, <1>b2, <1>b3 DEF IInv, AtMostOneLiveSell, Live
<1>11. OversoldOnlyByRace'
  BY <1>0, <1>a, <1>b2, <1>b3 DEF IInv, OversoldOnlyByRace, Live
<1>12. ExitLogSound'
  BY <1>0, <1>a, <1>b2, <1>b3 DEF IInv, ExitLogSound
<1> QED
  BY <1>1, <1>2, <1>3, <1>4, <1>5, <1>6, <1>7, <1>8, <1>9, <1>10, <1>11, <1>12 DEF IInv

(* A fill lowers the holding.  It keeps every promise made on the earlier  *)
(* position read because a fill inside a cancel window is added to raced.  *)
LEMMA FillInv ==
  ASSUME IInv, NEW o \in Orders, NEW n \in 1..InitQty, Fill(o, n)
  PROVE  IInv'
<1> USE InitQtyAssumption
<1>0. UNCHANGED <<book, positions, in_flight, recorded, pc, todo, cur, quote, sell, gap,
                  market, outage>>
  BY DEF Fill, broker_vars, local_vars, frame_vars
<1>a. /\ orders[o] \in Order /\ Live(o) /\ n <= orders[o].left
      /\ orders[o].ticker \in Tickers
  BY DEF Fill, IInv, TypeOK, Order
<1>d. n \in Nat /\ n > 0
  OBVIOUS
<1>b. orders' = [orders EXCEPT ![o] =
               [ticker |-> orders[o].ticker, left |-> @.left - n,
                st |-> IF @.left = n THEN "done" ELSE @.st]]
  BY DEF Fill
<1>b2. /\ orders'[o] \in Order /\ orders'[o].ticker = orders[o].ticker
       /\ orders'[o].left = orders[o].left - n
  BY <1>a, <1>d, <1>b DEF Order, IInv, TypeOK
<1>b3. \A p \in Orders \ {o} : orders'[p] = orders[p]
  BY <1>b DEF IInv, TypeOK
<1>b4. orders' \in [Orders -> Order]
  BY <1>b, <1>b2 DEF IInv, TypeOK
<1>c. held' = [held EXCEPT ![orders[o].ticker] = @ - n]
  BY DEF Fill
<1>e. raced' = IF \E k \in Tasks : InWindow(k, orders[o].ticker)
                 THEN [raced EXCEPT ![orders[o].ticker] = @ + n] ELSE raced
  BY DEF Fill
<1>f. /\ held' \in [Tickers -> Int] /\ raced' \in [Tickers -> Nat]
      /\ \A u \in Tickers \ {orders[o].ticker} : held'[u] = held[u] /\ raced'[u] = raced[u]
      /\ held'[orders[o].ticker] = held[orders[o].ticker] - n
  BY <1>a, <1>c, <1>d, <1>e DEF IInv, TypeOK
<1>g. \A k \in Tasks : InWindow(k, orders[o].ticker) =>
           raced'[orders[o].ticker] = raced[orders[o].ticker] + n
  BY <1>a, <1>e DEF IInv, TypeOK
<1>h. raced'[orders[o].ticker] \in {raced[orders[o].ticker], raced[orders[o].ticker] + n}
  BY <1>a, <1>e DEF IInv, TypeOK
<1>1. TypeOK'
  <2>1. orders' \in [Orders -> Order]
    BY <1>b4
  <2>2. held' \in [Tickers -> Int]
    BY <1>f
  <2>3. raced' \in [Tickers -> Nat]
    BY <1>f
  <2> QED
    BY <1>0, <2>1, <2>2, <2>3, SMTT(30) DEF IInv, TypeOK
<1>2. Owner'
  BY <1>0, <1>a, <1>d, <1>b2, <1>b3, <1>f, <1>g, <1>h DEF IInv, Owner, Busy
<1>3. Excl'
  BY <1>0, <1>a, <1>d, <1>b2, <1>b3, <1>f, <1>g, <1>h DEF IInv, Excl, Busy
<1>4. FreeQty'
  BY <1>0, <1>a, <1>d, <1>b2, <1>b3, <1>f, <1>g, <1>h DEF IInv, TypeOK, FreeQty,
     InWindow, Window, Promise, NoUntrackedLiveSell, Clean, Owner, Excl, Busy, Trimming,
     Committed, Live
<1>5. Ledger'
  BY <1>0, <1>a, <1>d, <1>b2, <1>b3, <1>f, <1>g, <1>h DEF IInv, Ledger
<1>6. Window'
  <2> SUFFICES ASSUME NEW k \in Tasks, Trimming(k)
               PROVE  /\ positions[cur[k]].qty <= held'[cur[k]] + raced'[cur[k]]
                      /\ held'[cur[k]] <= positions[cur[k]].qty
                      /\ recorded[cur[k]] + gap[k] + positions[cur[k]].qty <= InitQty
    BY <1>0 DEF Window, Trimming
  <2> DEFINE u == cur[k]
  <2>1. /\ u \in Tickers /\ positions[u] \in Meta /\ positions[u].qty \in Nat
        /\ held[u] \in Int /\ raced[u] \in Nat /\ recorded[u] \in Nat
        /\ gap[k] \in Nat /\ sell[k].qty \in Nat
    BY DEF IInv, TypeOK, Meta, Decision
  <2>2. /\ positions[u].qty <= held[u] + raced[u]
        /\ held[u] <= positions[u].qty
        /\ recorded[u] + gap[k] + positions[u].qty <= InitQty
    BY DEF IInv, Window, Trimming
  <2>3. CASE u = orders[o].ticker
    <3>1. raced'[u] = raced[u] + n
      BY <2>3, <1>g DEF InWindow, Trimming
    <3>2. held'[u] = held[u] - n
      BY <2>3, <1>f
    <3> QED
      BY <2>1, <2>2, <3>1, <3>2, <1>d
  <2>4. CASE u # orders[o].ticker
    BY <2>1, <2>2, <2>4, <1>f
  <2> QED
    BY <2>3, <2>4
<1>7. Promise'
  <2> SUFFICES ASSUME NEW k \in Tasks, Committed(k)
               PROVE  /\ sell[k].qty <= positions[cur[k]].qty
                      /\ positions[cur[k]].qty <= held'[cur[k]] + raced'[cur[k]]
    BY <1>0 DEF Promise, Committed
  <2> DEFINE u == cur[k]
  <2>1. /\ u \in Tickers /\ positions[u] \in Meta /\ positions[u].qty \in Nat
        /\ held[u] \in Int /\ raced[u] \in Nat /\ recorded[u] \in Nat
        /\ gap[k] \in Nat /\ sell[k].qty \in Nat
    BY DEF IInv, TypeOK, Meta, Decision
  <2>2. /\ sell[k].qty <= positions[u].qty
        /\ positions[u].qty <= held[u] + raced[u]
    BY DEF IInv, Promise
  <2>3. CASE u = orders[o].ticker /\ pc[k] # "submit"
    <3>1. raced'[u] = raced[u] + n
      BY <2>3, <1>g DEF InWindow, Committed
    <3>2. held'[u] = held[u] - n
      BY <2>3, <1>f
    <3> QED
      BY <2>1, <2>2, <3>1, <3>2, <1>d
  <2>4. CASE u = orders[o].ticker /\ pc[k] = "submit"
    \* impossible: no order of u is live when its sell is about to go out
    <3>1. positions[u].pending = {}
      BY <2>4 DEF IInv, Clean
    <3>2. u \in book
      BY <2>4 DEF IInv, Owner, Busy
    <3> QED
      BY <1>a, <2>4, <3>1, <3>2 DEF IInv, NoUntrackedLiveSell
  <2>5. CASE u # orders[o].ticker
    BY <2>1, <2>2, <2>5, <1>f
  <2> QED
    BY <2>3, <2>4, <2>5
<1>8. Clean'
  BY <1>0, <1>a, <1>d, <1>b2, <1>b3, <1>f, <1>g, <1>h DEF IInv, Clean
<1>9. NoUntrackedLiveSell'
  BY <1>0, <1>a, <1>d, <1>b2, <1>b3, <1>f, <1>g, <1>h DEF IInv, NoUntrackedLiveSell, Live
<1>10. AtMostOneLiveSell'
  BY <1>0, <1>a, <1>d, <1>b2, <1>b3, <1>f, <1>g, <1>h DEF IInv, AtMostOneLiveSell, Live
<1>11. OversoldOnlyByRace'
  <2> DEFINE t == orders[o].ticker
  <2>1. /\ t \in Tickers /\ held[t] \in Int /\ raced[t] \in Nat
        /\ orders[o].left \in Nat
    BY <1>a DEF IInv, TypeOK, Order
  <2>2. orders[o].left <= held[t] + raced[t]
    BY <1>a, <2>1 DEF IInv, OversoldOnlyByRace
  <2>3. orders'[o].left <= held'[t] + raced'[t] /\ held'[t] + raced'[t] >= 0
    <3>1. orders'[o].left = orders[o].left - n /\ held'[t] = held[t] - n
      BY <1>b2, <1>f
    <3>2. raced'[t] = raced[t] \/ raced'[t] = raced[t] + n
      BY <1>h
    <3> QED
      BY <1>a, <1>d, <2>1, <2>2, <3>1, <3>2
  <2>4. ASSUME NEW u \in Tickers \ {t}
        PROVE  /\ held'[u] + raced'[u] >= 0
               /\ \A p \in Orders : Live(p)' /\ orders'[p].ticker = u
                                     => orders'[p].left <= held'[u] + raced'[u]
    <3>1. held'[u] = held[u] /\ raced'[u] = raced[u]
      BY <2>4, <1>f
    <3>2. ASSUME NEW p \in Orders, Live(p)', orders'[p].ticker = u
          PROVE  p # o
      BY <3>2, <1>b2, <2>4
    <3> QED
      BY <3>1, <3>2, <1>b3 DEF IInv, OversoldOnlyByRace, Live
  <2>5. ASSUME NEW p \in Orders, Live(p)', orders'[p].ticker = t
        PROVE  p = o
    <3>1. CASE p # o
      BY <1>a, <1>b3, <2>5, <3>1 DEF IInv, AtMostOneLiveSell, Live
    <3> QED
      BY <3>1
  <2> QED
    BY <2>3, <2>4, <2>5 DEF OversoldOnlyByRace
<1>12. ExitLogSound'
  <2>1. \A u \in Tickers : held[u] \in Int /\ held'[u] \in Int /\ held'[u] <= held[u]
    <3> SUFFICES ASSUME NEW u \in Tickers
                 PROVE  held[u] \in Int /\ held'[u] \in Int /\ held'[u] <= held[u]
      OBVIOUS
    <3>1. held[u] \in Int
      BY DEF IInv, TypeOK
    <3>2. held'[u] = held[u] \/ held'[u] = held[u] - n
      BY <1>f
    <3> QED
      BY <1>d, <3>1, <3>2
  <2>2. \A u \in Tickers : recorded[u] \in Nat /\ recorded[u] <= InitQty - held[u]
    BY DEF IInv, TypeOK, ExitLogSound
  <2> QED
    BY <1>0, <2>1, <2>2 DEF ExitLogSound
<1> QED
  BY <1>1, <1>2, <1>3, <1>4, <1>5, <1>6, <1>7, <1>8, <1>9, <1>10, <1>11, <1>12 DEF IInv

(* Prices and the link to the broker are no part of the invariant.         *)
LEMMA EnvironmentInv ==
  ASSUME IInv, (\E t \in Tickers : MarketMoves(t)) \/ OutageToggles
  PROVE  IInv'
<1>1. TypeOK'
  <2>1. market' \in [Tickers -> Marks] /\ outage' \in BOOLEAN
    <3>1. CASE \E t \in Tickers : MarketMoves(t)
      BY <3>1 DEF IInv, TypeOK, MarketMoves
    <3>2. CASE OutageToggles
      BY <3>2 DEF IInv, TypeOK, OutageToggles
    <3> QED
      BY <3>1, <3>2
  <2>2. UNCHANGED <<book, positions, in_flight, recorded, pc, todo, cur, quote, sell, gap,
                    orders, held, raced>>
    BY DEF MarketMoves, OutageToggles, local_vars, frame_vars
  <2> QED
    BY <2>1, <2>2 DEF IInv, TypeOK
<1>2. UNCHANGED <<book, positions, in_flight, recorded, pc, cur, sell, gap, orders,
                  held, raced>>
  BY DEF MarketMoves, OutageToggles, local_vars, frame_vars
<1> QED
  BY <1>1, <1>2 DEF IInv, Owner, Excl, FreeQty, Ledger, Window, Promise, Clean,
     NoUntrackedLiveSell, AtMostOneLiveSell, OversoldOnlyByRace, ExitLogSound, Busy,
     Trimming, Committed, Live

(* manage_positions takes its list of tickers.                             *)
LEMMA StartTickInv ==
  ASSUME IInv, NEW k \in Tasks, StartTick(k)
  PROVE  IInv'
<1> DEFINE t == cur[k]
<1> USE InitQtyAssumption
<1>0. UNCHANGED <<book, positions, in_flight, recorded, cur, quote, sell, gap, orders,
                  held, market, outage, raced>>
  BY DEF StartTick, broker_vars, local_vars, frame_vars
<1>r. /\ pc[k] \in {"idle", "loop"}
      /\ pc' = [pc EXCEPT ![k] = "loop"]
      /\ todo' = [todo EXCEPT ![k] = book]
  BY DEF StartTick
<1>1. TypeOK'
  <2>1. pc' \in [Tasks -> Steps]
    BY <1>r DEF IInv, TypeOK, Steps
  <2>2. todo' \in [Tasks -> SUBSET Tickers]
    BY <1>r DEF IInv, TypeOK
  <2> QED
    BY <1>0, <2>1, <2>2, SMTT(30) DEF IInv, TypeOK
<1>2. Owner'
  BY <1>0, <1>r DEF IInv, Owner, Busy
<1>3. Excl'
  BY <1>0, <1>r DEF IInv, Excl, Busy
<1>4. FreeQty'
  BY <1>0, <1>r DEF IInv, FreeQty
<1>5. Ledger'
  BY <1>0, <1>r DEF IInv, Ledger
<1>6. Window'
  BY <1>0, <1>r DEF IInv, Window, Trimming
<1>7. Promise'
  BY <1>0, <1>r DEF IInv, Promise, Committed
<1>8. Clean'
  BY <1>0, <1>r DEF IInv, Clean
<1>9. NoUntrackedLiveSell'
  BY <1>0, <1>r DEF IInv, NoUntrackedLiveSell, Live
<1>10. AtMostOneLiveSell'
  BY <1>0, <1>r DEF IInv, AtMostOneLiveSell, Live
<1>11. OversoldOnlyByRace'
  BY <1>0, <1>r DEF IInv, OversoldOnlyByRace, Live
<1>12. ExitLogSound'
  BY <1>0, <1>r DEF IInv, ExitLogSound
<1> QED
  BY <1>1, <1>2, <1>3, <1>4, <1>5, <1>6, <1>7, <1>8, <1>9, <1>10, <1>11, <1>12 DEF IInv

(* manage_positions returns.                                               *)
LEMMA EndTickInv ==
  ASSUME IInv, NEW k \in Tasks, EndTick(k)
  PROVE  IInv'
<1> DEFINE t == cur[k]
<1> USE InitQtyAssumption
<1>0. UNCHANGED <<book, positions, in_flight, recorded, todo, cur, quote, sell, gap,
                  orders, held, market, outage, raced>>
  BY DEF EndTick, broker_vars, local_vars, frame_vars
<1>r. /\ pc[k] \in {"idle", "loop"}
      /\ pc' = [pc EXCEPT ![k] = "idle"]
  BY DEF EndTick
<1>1. TypeOK'
  <2>1. pc' \in [Tasks -> Steps]
    BY <1>r DEF IInv, TypeOK, Steps
  <2> QED
    BY <1>0, <2>1, SMTT(30) DEF IInv, TypeOK
<1>2. Owner'
  BY <1>0, <1>r DEF IInv, Owner, Busy
<1>3. Excl'
  BY <1>0, <1>r DEF IInv, Excl, Busy
<1>4. FreeQty'
  BY <1>0, <1>r DEF IInv, FreeQty
<1>5. Ledger'
  BY <1>0, <1>r DEF IInv, Ledger
<1>6. Window'
  BY <1>0, <1>r DEF IInv, Window, Trimming
<1>7. Promise'
  BY <1>0, <1>r DEF IInv, Promise, Committed
<1>8. Clean'
  BY <1>0, <1>r DEF IInv, Clean
<1>9. NoUntrackedLiveSell'
  BY <1>0, <1>r DEF IInv, NoUntrackedLiveSell, Live
<1>10. AtMostOneLiveSell'
  BY <1>0, <1>r DEF IInv, AtMostOneLiveSell, Live
<1>11. OversoldOnlyByRace'
  BY <1>0, <1>r DEF IInv, OversoldOnlyByRace, Live
<1>12. ExitLogSound'
  BY <1>0, <1>r DEF IInv, ExitLogSound
<1> QED
  BY <1>1, <1>2, <1>3, <1>4, <1>5, <1>6, <1>7, <1>8, <1>9, <1>10, <1>11, <1>12 DEF IInv

(* The check-and-set of in_flight under the lock: the claimed ticker is in *)
(* the book and nobody else processes it (Owner, Excl).                    *)
LEMMA ClaimInv ==
  ASSUME IInv, NEW k \in Tasks, NEW ticker \in Tickers, Claim(k, ticker)
  PROVE  IInv'
<1> USE InitQtyAssumption
<1>0. UNCHANGED <<book, positions, recorded, quote, sell, gap, orders, held, market,
                  outage, raced>>
  BY DEF Claim, broker_vars, local_vars, frame_vars
<1>a. /\ pc[k] = "loop"
      /\ todo' = [todo EXCEPT ![k] = @ \ {ticker}]
  BY DEF Claim
<1>b. \/ UNCHANGED <<pc, cur, in_flight>>
      \/ /\ ticker \in book /\ ticker \notin in_flight
         /\ pc' = [pc EXCEPT ![k] = "quote"]
         /\ cur' = [cur EXCEPT ![k] = ticker]
         /\ in_flight' = in_flight \cup {ticker}
  BY DEF Claim
<1>1. TypeOK'
  <2>1. todo' \in [Tasks -> SUBSET Tickers]
    BY <1>a, <1>b, SMTT(30) DEF IInv, TypeOK, Meta, Decision, Order, Marks, Actions, Steps
  <2>2. pc' \in [Tasks -> Steps]
    BY <1>b DEF IInv, TypeOK, Steps
  <2>3. cur' \in [Tasks -> Tickers]
    BY <1>a, <1>b, SMTT(30) DEF IInv, TypeOK, Meta, Decision, Order, Marks, Actions, Steps
  <2>4. in_flight' \in SUBSET Tickers
    BY <1>a, <1>b, SMTT(30) DEF IInv, TypeOK, Meta, Decision, Order, Marks, Actions, Steps
  <2> QED
    BY <1>0, <2>1, <2>2, <2>3, <2>4, SMTT(30) DEF IInv, TypeOK
<1>2. Owner'
  BY <1>0, <1>a, <1>b DEF IInv, TypeOK, Owner, Busy
<1>3. Excl'
  BY <1>0, <1>a, <1>b DEF IInv, TypeOK, Excl, Owner, Busy, Trimming, Committed, Live
<1>4. FreeQty'
  BY <1>0, <1>a, <1>b DEF IInv, FreeQty
<1>5. Ledger'
  BY <1>0, <1>a, <1>b DEF IInv, Ledger
<1>6. Window'
  BY <1>0, <1>a, <1>b DEF IInv, TypeOK, Window, Trimming
<1>7. Promise'
  BY <1>0, <1>a, <1>b DEF IInv, TypeOK, Promise, Committed
<1>8. Clean'
  BY <1>0, <1>a, <1>b DEF IInv, TypeOK, Clean
<1>9. NoUntrackedLiveSell'
  BY <1>0, <1>a, <1>b DEF IInv, NoUntrackedLiveSell, Live
<1>10. AtMostOneLiveSell'
  BY <1>0, <1>a, <1>b DEF IInv, AtMostOneLiveSell, Live
<1>11. OversoldOnlyByRace'
  BY <1>0, <1>a, <1>b DEF IInv, OversoldOnlyByRace, Live
<1>12. ExitLogSound'
  BY <1>0, <1>a, <1>b DEF IInv, ExitLogSound
<1> QED
  BY <1>1, <1>2, <1>3, <1>4, <1>5, <1>6, <1>7, <1>8, <1>9, <1>10, <1>11, <1>12 DEF IInv

(* Leaving _process_one_position by any door, with the mirror as it was,   *)
(* releases only the caller's own ticker.                                  *)
LEMMA DropFrameInv ==
  ASSUME IInv, NEW k \in Tasks, NEW v \in {"idle", "loop"}, Busy(k), DropFrame(k),
         pc' = [pc EXCEPT ![k] = v], todo' \in [Tasks -> SUBSET Tickers],
         UNCHANGED <<book, positions, recorded, broker_vars>>
  PROVE  IInv'
<1> DEFINE t == cur[k]
<1> USE InitQtyAssumption
<1>0. UNCHANGED <<book, positions, recorded, cur, orders, held, market, outage, raced>>
  BY DEF DropFrame, broker_vars, local_vars, frame_vars
<1>r. /\ in_flight' = in_flight \ {t}
      /\ pc' = [pc EXCEPT ![k] = v]
      /\ quote' = [quote EXCEPT ![k] = "noprice"]
      /\ sell' = [sell EXCEPT ![k] = NoDecision]
      /\ gap' = [gap EXCEPT ![k] = 0]
      /\ cur[k] \in Tickers
  BY DEF DropFrame, IInv, TypeOK
<1>1. TypeOK'
  <2>1. in_flight' \in SUBSET Tickers
    BY <1>r DEF IInv, TypeOK
  <2>2. pc' \in [Tasks -> Steps]
    BY <1>r DEF IInv, TypeOK, Steps
  <2>3. todo' \in [Tasks -> SUBSET Tickers]
    OBVIOUS
  <2>4. quote' \in [Tasks -> Marks]
    BY <1>r DEF IInv, TypeOK, Marks
  <2>5. sell' \in [Tasks -> Decision]
    BY <1>r DEF IInv, TypeOK, Decision, NoDecision, Actions
  <2>6. gap' \in [Tasks -> Nat]
    BY <1>r DEF IInv, TypeOK
  <2> QED
    BY <1>0, <2>1, <2>2, <2>3, <2>4, <2>5, <2>6, SMTT(30) DEF IInv, TypeOK
<1>2. Owner'
  BY <1>0, <1>r DEF IInv, TypeOK, Owner, Excl, Busy, Trimming, Committed, Live
<1>3. Excl'
  BY <1>0, <1>r DEF IInv, Excl, Busy
<1>4. FreeQty'
  BY <1>0, <1>r DEF IInv, FreeQty
<1>5. Ledger'
  BY <1>0, <1>r DEF IInv, Ledger
<1>6. Window'
  BY <1>0, <1>r DEF IInv, TypeOK, Window, Trimming
<1>7. Promise'
  BY <1>0, <1>r DEF IInv, TypeOK, Promise, Committed
<1>8. Clean'
  BY <1>0, <1>r DEF IInv, Clean
<1>9. NoUntrackedLiveSell'
  BY <1>0, <1>r DEF IInv, NoUntrackedLiveSell, Live
<1>10. AtMostOneLiveSell'
  BY <1>0, <1>r DEF IInv, AtMostOneLiveSell, Live
<1>11. OversoldOnlyByRace'
  BY <1>0, <1>r DEF IInv, OversoldOnlyByRace, Live
<1>12. ExitLogSound'
  BY <1>0, <1>r DEF IInv, ExitLogSound
<1> QED
  BY <1>1, <1>2, <1>3, <1>4, <1>5, <1>6, <1>7, <1>8, <1>9, <1>10, <1>11, <1>12 DEF IInv

(* fetch_quote failed: the ticker is skipped.                              *)
LEMMA QuoteTransientErrorInv ==
  ASSUME IInv, NEW k \in Tasks, QuoteTransientError(k)
  PROVE  IInv'
<1>1. Busy(k) /\ DropFrame(k) /\ UNCHANGED <<book, positions, recorded, broker_vars>>
  BY DEF QuoteTransientError, Release, DropFrame, Busy
<1>2. todo' \in [Tasks -> SUBSET Tickers]
  BY DEF QuoteTransientError, IInv, TypeOK
<1>3. pc' = [pc EXCEPT ![k] = "loop"]
  BY DEF QuoteTransientError, Release
<1> QED
  BY <1>1, <1>2, <1>3, DropFrameInv

(* get_position_qty failed: the ticker is skipped.                         *)
LEMMA ReadTransientErrorInv ==
  ASSUME IInv, NEW k \in Tasks, ReadTransientError(k)
  PROVE  IInv'
<1>1. Busy(k) /\ DropFrame(k) /\ UNCHANGED <<book, positions, recorded, broker_vars>>
  BY DEF ReadTransientError, Release, DropFrame, Busy
<1>2. todo' \in [Tasks -> SUBSET Tickers]
  BY DEF ReadTransientError, IInv, TypeOK
<1>3. pc' = [pc EXCEPT ![k] = "loop"]
  BY DEF ReadTransientError, Release
<1> QED
  BY <1>1, <1>2, <1>3, DropFrameInv

(* _cancel_and_confirm returned False: the old ids stay tracked.           *)
LEMMA ConfirmGivesUpInv ==
  ASSUME IInv, NEW k \in Tasks, ConfirmGivesUp(k)
  PROVE  IInv'
<1>1. Busy(k) /\ DropFrame(k) /\ UNCHANGED <<book, positions, recorded, broker_vars>>
  BY DEF ConfirmGivesUp, Release, DropFrame, Busy
<1>2. todo' \in [Tasks -> SUBSET Tickers]
  BY DEF ConfirmGivesUp, IInv, TypeOK
<1>3. pc' = [pc EXCEPT ![k] = "loop"]
  BY DEF ConfirmGivesUp, Release
<1> QED
  BY <1>1, <1>2, <1>3, DropFrameInv

(* The broker refused the sell: nothing is tracked.                        *)
LEMMA SubmitDeadInv ==
  ASSUME IInv, NEW k \in Tasks, SubmitDead(k)
  PROVE  IInv'
<1>1. Busy(k) /\ DropFrame(k) /\ UNCHANGED <<book, positions, recorded, broker_vars>>
  BY DEF SubmitDead, Release, DropFrame, Busy
<1>2. todo' \in [Tasks -> SUBSET Tickers]
  BY DEF SubmitDead, IInv, TypeOK
<1>3. pc' = [pc EXCEPT ![k] = "loop"]
  BY DEF SubmitDead, Release
<1> QED
  BY <1>1, <1>2, <1>3, DropFrameInv

(* submit_sell raised: the whole call ends and in_flight is released.      *)
LEMMA SubmitRaisesInv ==
  ASSUME IInv, NEW k \in Tasks, SubmitRaises(k)
  PROVE  IInv'
<1>1. Busy(k) /\ DropFrame(k) /\ UNCHANGED <<book, positions, recorded, broker_vars>>
  BY DEF SubmitRaises, Release, DropFrame, Busy
<1>2. todo' \in [Tasks -> SUBSET Tickers]
  BY DEF SubmitRaises, IInv, TypeOK
<1>3. pc' = [pc EXCEPT ![k] = "idle"]
  BY DEF SubmitRaises, Release
<1> QED
  BY <1>1, <1>2, <1>3, DropFrameInv

(* What decide_exit promises: it never sells more than the book holds, and *)
(* a halve always leaves something (decisions.py 141-146).                 *)
(* decide_exit never sells more than the mirror holds, and a halve leaves  *)
(* at least one share (decisions.py 110-146).                              *)
LEMMA DecideExitBounds ==
  ASSUME NEW m \in Meta, NEW mark \in Marks
  PROVE  LET d == decide_exit(m, mark) IN
         /\ d.action \in Actions
         /\ d.qty \in Nat
         /\ d.qty <= m.qty
         /\ d.halved \in BOOLEAN
         /\ d.action = "halve" => 0 < d.qty /\ d.qty < m.qty
<1>1. m.qty \in Nat /\ m.halved \in BOOLEAN
  BY DEF Meta
<1>2. /\ m.qty \div 2 \in Nat
     /\ m.qty \div 2 <= m.qty
     /\ m.qty \div 2 > 0 => m.qty \div 2 < m.qty
  BY <1>1
<1> DEFINE sig == evaluate_stops(mark, m.halved)
           d   == decide_exit(m, mark)
<1>3. d = CASE sig = "exit" ->
                 [action |-> "exit", qty |-> m.qty, halved |-> m.halved]
            [] sig = "halve" /\ m.qty \div 2 > 0 ->
                 [action |-> "halve", qty |-> m.qty \div 2, halved |-> TRUE]
            [] OTHER ->
                 [action |-> "none", qty |-> 0, halved |-> sig = "halve" \/ m.halved]
  BY DEF decide_exit
<1> HIDE DEF sig, d
<1>4. CASE sig = "exit"
  <2>1. d = [action |-> "exit", qty |-> m.qty, halved |-> m.halved]
    BY <1>3, <1>4
  <2> QED
    BY <1>1, <2>1 DEF d, Actions
<1>5. CASE sig = "halve" /\ m.qty \div 2 > 0
  <2>1. d = [action |-> "halve", qty |-> m.qty \div 2, halved |-> TRUE]
    BY <1>3, <1>5
  <2> QED
    BY <1>1, <1>2, <1>5, <2>1 DEF d, Actions
<1>6. CASE sig # "exit" /\ ~(sig = "halve" /\ m.qty \div 2 > 0)
  <2>1. d = [action |-> "none", qty |-> 0, halved |-> sig = "halve" \/ m.halved]
    BY <1>3, <1>6
  <2>2. d.halved \in BOOLEAN
    BY <1>1, <2>1
  <2> QED
    BY <1>1, <2>1, <2>2 DEF d, Actions
<1> QED
  BY <1>4, <1>5, <1>6

(* From the price guard to the next await.  Given a meta m covered by the  *)
(* holding (plus what raced) and, when m has no pending id, no live order  *)
(* of the ticker, the decision that leaves for the broker is covered too.  *)
LEMMA EvaluateInv ==
  ASSUME IInv, NEW k \in Tasks, NEW mark \in Marks, NEW m \in Meta,
         pc[k] \in {"quote", "read", "confirm_halve"},
         Evaluate(k, mark, m),
         UNCHANGED <<book, todo, broker_vars>>,
         m.qty <= held[cur[k]] + raced[cur[k]],
         m.pending = positions[cur[k]].pending \/ m.pending = {},
         m.pending = {} => \A o \in Orders : Live(o) => orders[o].ticker # cur[k],
         recorded' \in [Tickers -> Nat],
         \A u \in Tickers \ {cur[k]} : recorded'[u] = recorded[u],
         recorded'[cur[k]] + m.qty <= InitQty,
         recorded'[cur[k]] <= InitQty - held[cur[k]]
  PROVE  IInv'
<1> DEFINE t == cur[k]
<1> USE InitQtyAssumption
<1>0. UNCHANGED <<book, todo, cur, orders, held, market, outage, raced>>
  BY DEF Evaluate, Release, DropFrame, broker_vars
<1>a. t \in Tickers
  BY DEF IInv, TypeOK
<1>d. PICK d : d = decide_exit(m, mark)
  OBVIOUS
<1>d1. /\ d.action \in Actions /\ d.qty \in Nat /\ d.qty <= m.qty
       /\ d.halved \in BOOLEAN
  BY <1>d, DecideExitBounds
<1>n. PICK n \in {m, [m EXCEPT !.halved = d.halved]} : positions' = [positions EXCEPT ![t] = n]
  BY <1>d DEF Evaluate
<1>n1. n \in Meta /\ n.qty = m.qty /\ n.pending = m.pending
  BY <1>d1, <1>n DEF Meta
<1>b2. positions'[t].qty = m.qty /\ positions'[t].pending = m.pending
  BY <1>a, <1>n, <1>n1 DEF IInv, TypeOK
<1>b3. \A u \in Tickers \ {t} : positions'[u] = positions[u]
  BY <1>n DEF IInv, TypeOK
<1>b4. positions' \in [Tickers -> Meta]
  BY <1>n, <1>n1 DEF IInv, TypeOK
<1>r. \/ /\ in_flight' = in_flight \ {t}
         /\ pc' = [pc EXCEPT ![k] = "loop"]
      \/ /\ in_flight' = in_flight
         /\ pc' = [pc EXCEPT ![k] = IF m.pending = {} THEN "submit" ELSE "cancel_exit"]
  BY <1>d DEF Evaluate, Release, DropFrame
<1>s. PICK y \in Decision : y.qty <= m.qty /\ sell' = [sell EXCEPT ![k] = y]
  <2>1. CASE sell' = [sell EXCEPT ![k] = [action |-> d.action, qty |-> d.qty]]
    BY <1>d1, <2>1 DEF Decision
  <2>2. CASE sell' = [sell EXCEPT ![k] = NoDecision]
    <3>1. m.qty \in Nat /\ NoDecision \in Decision /\ NoDecision.qty = 0
      BY DEF Meta, Decision, NoDecision, Actions
    <3>2. NoDecision.qty <= m.qty
      BY <3>1
    <3> QED
      BY <3>1, <3>2, <2>2, Zenon
  <2> QED
    BY <1>d, <2>1, <2>2 DEF Evaluate, Release, DropFrame
<1>q. cur' = cur /\ quote' = [quote EXCEPT ![k] = "noprice"] /\ gap' = [gap EXCEPT ![k] = 0]
  BY DEF Evaluate, Release, DropFrame
<1>p. /\ pc'[k] \in {"loop", "submit", "cancel_exit"}
      /\ pc'[k] = "submit" => m.pending = {}
      /\ sell'[k].qty <= m.qty
  BY <1>r, <1>s DEF IInv, TypeOK
<1>o. ASSUME NEW j \in Tasks \ {k}
      PROVE  /\ pc'[j] = pc[j] /\ sell'[j] = sell[j] /\ gap'[j] = gap[j] /\ cur'[j] = cur[j]
             /\ Busy(j) => /\ cur[j] \in Tickers \ {t}
                           /\ positions'[cur[j]] = positions[cur[j]]
                           /\ recorded'[cur[j]] = recorded[cur[j]]
  <2>1. pc'[j] = pc[j] /\ sell'[j] = sell[j] /\ gap'[j] = gap[j] /\ cur'[j] = cur[j]
    BY <1>r, <1>s, <1>q DEF IInv, TypeOK
  <2>2. Busy(j) => cur[j] \in Tickers \ {t}
    BY DEF IInv, TypeOK, Excl, Busy
  <2> QED
    BY <1>b3, <2>1, <2>2
<1>1. TypeOK'
  <2>1. positions' \in [Tickers -> Meta]
    BY <1>b4
  <2>2. in_flight' \in SUBSET Tickers
    BY <1>r DEF IInv, TypeOK
  <2>3. recorded' \in [Tickers -> Nat]
    OBVIOUS
  <2>4. pc' \in [Tasks -> Steps]
    BY <1>r DEF IInv, TypeOK, Steps
  <2>5. quote' \in [Tasks -> Marks]
    BY <1>q DEF IInv, TypeOK, Marks
  <2>6. sell' \in [Tasks -> Decision]
    BY <1>s DEF IInv, TypeOK
  <2>7. gap' \in [Tasks -> Nat]
    BY <1>q DEF IInv, TypeOK
  <2> QED
    BY <1>0, <2>1, <2>2, <2>3, <2>4, <2>5, <2>6, <2>7, SMTT(30) DEF IInv, TypeOK
<1>2. Owner'
  BY <1>0, <1>a, <1>d1, <1>b2, <1>b3, <1>r, <1>s, <1>q DEF IInv, TypeOK, Owner, Excl,
     Busy, Trimming, Committed, Live
<1>3. Excl'
  BY <1>o, <1>q DEF IInv, Excl, Busy
<1>4. FreeQty'
  <2> SUFFICES ASSUME NEW u \in book, positions'[u].pending = {}
               PROVE  positions'[u].qty <= held[u] + raced[u]
    BY <1>0 DEF FreeQty
  <2>1. CASE u = t
    BY <1>b2, <2>1
  <2>2. CASE u # t
    BY <1>b3, <2>2 DEF IInv, TypeOK, FreeQty
  <2> QED
    BY <2>1, <2>2
<1>5. Ledger'
  BY <1>0, <1>a, <1>d1, <1>b2, <1>b3, <1>r, <1>s, <1>q DEF IInv, TypeOK, Ledger
<1>6. Window'
  <2> SUFFICES ASSUME NEW j \in Tasks, pc'[j] \in {"cancel_halve", "confirm_halve"}
               PROVE  /\ positions'[cur'[j]].qty <= held'[cur'[j]] + raced'[cur'[j]]
                      /\ held'[cur'[j]] <= positions'[cur'[j]].qty
                      /\ recorded'[cur'[j]] + gap'[j] + positions'[cur'[j]].qty <= InitQty
    BY DEF Window, Trimming
  <2>1. j # k
    BY <1>p
  <2>2. Trimming(j) /\ Busy(j)
    BY <1>o, <2>1 DEF Trimming, Busy
  <2> QED
    BY <1>0, <1>o, <2>1, <2>2 DEF IInv, Window
<1>7. Promise'
  <2> SUFFICES ASSUME NEW j \in Tasks,
                      pc'[j] \in {"cancel_exit", "confirm_exit", "submit"}
               PROVE  /\ sell'[j].qty <= positions'[cur'[j]].qty
                      /\ positions'[cur'[j]].qty <= held'[cur'[j]] + raced'[cur'[j]]
    BY DEF Promise, Committed
  <2>1. CASE j = k
    <3>1. cur'[j] = t /\ held' = held /\ raced' = raced
      BY <1>0, <1>q, <2>1
    <3> QED
      BY <1>p, <1>b2, <2>1, <3>1
  <2>2. CASE j # k
    <3>1. Committed(j) /\ Busy(j)
      BY <1>o, <2>2 DEF Committed, Busy
    <3> QED
      BY <1>0, <1>o, <2>2, <3>1 DEF IInv, Promise
  <2> QED
    BY <2>1, <2>2
<1>8. Clean'
  <2> SUFFICES ASSUME NEW j \in Tasks, pc'[j] = "submit"
               PROVE  positions'[cur'[j]].pending = {}
    BY DEF Clean
  <2>1. CASE j = k
    BY <1>p, <1>b2, <1>q, <2>1
  <2>2. CASE j # k
    <3>1. pc[j] = "submit" /\ Busy(j)
      BY <1>o, <2>2 DEF Busy
    <3> QED
      BY <1>o, <2>2, <3>1 DEF IInv, Clean
  <2> QED
    BY <2>1, <2>2
<1>9. NoUntrackedLiveSell'
  BY <1>0, <1>a, <1>d1, <1>b2, <1>b3, <1>r, <1>s, <1>q DEF IInv, TypeOK,
     NoUntrackedLiveSell, Live
<1>10. AtMostOneLiveSell'
  BY <1>0, <1>a, <1>d1, <1>b2, <1>b3, <1>r, <1>s, <1>q DEF IInv, AtMostOneLiveSell, Live
<1>11. OversoldOnlyByRace'
  BY <1>0, <1>a, <1>d1, <1>b2, <1>b3, <1>r, <1>s, <1>q DEF IInv, OversoldOnlyByRace, Live
<1>12. ExitLogSound'
  BY <1>0, <1>a, <1>d1, <1>b2, <1>b3, <1>r, <1>s, <1>q DEF IInv, ExitLogSound
<1> QED
  BY <1>1, <1>2, <1>3, <1>4, <1>5, <1>6, <1>7, <1>8, <1>9, <1>10, <1>11, <1>12 DEF IInv

(* The pending exit filled: the position leaves the book and its shares    *)
(* are recorded once.                                                      *)
LEMMA ReadFlatInv ==
  ASSUME IInv, NEW k \in Tasks, ReadFlat(k)
  PROVE  IInv'
<1> DEFINE t == cur[k]
<1> USE InitQtyAssumption
<1>0. UNCHANGED <<todo, cur, orders, held, market, outage, raced>>
  BY DEF ReadFlat, Release, DropFrame, broker_vars, local_vars, frame_vars
<1>a. /\ t \in Tickers /\ positions[t] \in Meta
      /\ sell[k] \in Decision
  BY DEF IInv, TypeOK, Decision
<1>b. positions' = [positions EXCEPT ![t] = [@ EXCEPT !.pending = {}]]
  BY DEF ReadFlat
<1>b1. positions'[t] = [positions[t] EXCEPT !.pending = {}]
  BY <1>a, <1>b DEF IInv, TypeOK
<1>b2. /\ positions'[t] \in Meta
       /\ positions'[t].qty = positions[t].qty
       /\ positions'[t].halved = positions[t].halved
       /\ positions'[t].pending = {}
       /\ positions'[t].action = positions[t].action
  BY <1>a, <1>b1 DEF Meta, Actions, Decision
<1>b3. \A u \in Tickers \ {t} : positions'[u] = positions[u]
  BY <1>a, <1>b DEF IInv, TypeOK
<1>b4. positions' \in [Tickers -> Meta]
  BY <1>a, <1>b, <1>b1, <1>b2 DEF IInv, TypeOK
<1>r. /\ in_flight' = in_flight \ {t}
      /\ pc' = [pc EXCEPT ![k] = "loop"]
      /\ quote' = [quote EXCEPT ![k] = "noprice"]
      /\ sell' = [sell EXCEPT ![k] = NoDecision]
      /\ gap' = [gap EXCEPT ![k] = 0]
  BY DEF ReadFlat, Release, DropFrame
<1>c. /\ pc[k] = "read" /\ held[t] <= 0 /\ book' = book \ {t}
      /\ recorded' = [recorded EXCEPT ![t] = @ + positions[t].qty]
  BY DEF ReadFlat
<1>1. TypeOK'
  <2>1. book' \in SUBSET Tickers
    BY <1>a, <1>b2, <1>b3, <1>r, <1>c, SMTT(30) DEF IInv, TypeOK, Meta, Decision, Order,
       Marks, Actions, Steps
  <2>2. positions' \in [Tickers -> Meta]
    BY <1>b4
  <2>3. recorded' \in [Tickers -> Nat]
    BY <1>a, <1>b2, <1>b3, <1>r, <1>c, SMTT(30) DEF IInv, TypeOK, Meta, Decision, Order,
       Marks, Actions, Steps
  <2>4. in_flight' \in SUBSET Tickers
    BY <1>r DEF IInv, TypeOK
  <2>5. pc' \in [Tasks -> Steps]
    BY <1>r DEF IInv, TypeOK, Steps
  <2>6. quote' \in [Tasks -> Marks]
    BY <1>r DEF IInv, TypeOK, Marks
  <2>7. sell' \in [Tasks -> Decision]
    BY <1>r DEF IInv, TypeOK, Decision, NoDecision, Actions
  <2>8. gap' \in [Tasks -> Nat]
    BY <1>r DEF IInv, TypeOK
  <2> QED
    BY <1>0, <2>1, <2>2, <2>3, <2>4, <2>5, <2>6, <2>7, <2>8, SMTT(30) DEF IInv, TypeOK
<1>2. Owner'
  BY <1>0, <1>a, <1>b2, <1>b3, <1>r, <1>c DEF IInv, TypeOK, Owner, Excl, Busy, Trimming,
     Committed, Live
<1>3. Excl'
  BY <1>0, <1>a, <1>b2, <1>b3, <1>r, <1>c DEF IInv, Excl, Busy
<1>4. FreeQty'
  BY <1>0, <1>a, <1>b2, <1>b3, <1>r, <1>c DEF IInv, TypeOK, FreeQty
<1>5. Ledger'
  BY <1>0, <1>a, <1>b2, <1>b3, <1>r, <1>c DEF IInv, TypeOK, Ledger
<1>6. Window'
  BY <1>0, <1>a, <1>b2, <1>b3, <1>r, <1>c DEF IInv, TypeOK, Window, Excl, Owner, Ledger,
     Busy, Trimming, Committed, Live
<1>7. Promise'
  BY <1>0, <1>a, <1>b2, <1>b3, <1>r, <1>c DEF IInv, TypeOK, Promise, Committed
<1>8. Clean'
  BY <1>0, <1>a, <1>b2, <1>b3, <1>r, <1>c DEF IInv, TypeOK, Clean
<1>9. NoUntrackedLiveSell'
  <2> SUFFICES ASSUME NEW o \in Orders, Live(o), orders[o].ticker \in book \ {t}
               PROVE  o \in positions'[orders[o].ticker].pending
    BY <1>0, <1>c DEF NoUntrackedLiveSell, Live
  <2>1. orders[o].ticker \in Tickers \ {t}
    BY DEF IInv, TypeOK
  <2>2. o \in positions[orders[o].ticker].pending
    BY DEF IInv, NoUntrackedLiveSell
  <2> QED
    BY <2>1, <2>2, <1>b3
<1>10. AtMostOneLiveSell'
  BY <1>0, <1>a, <1>b2, <1>b3, <1>r, <1>c DEF IInv, AtMostOneLiveSell, Live
<1>11. OversoldOnlyByRace'
  BY <1>0, <1>a, <1>b2, <1>b3, <1>r, <1>c DEF IInv, OversoldOnlyByRace, Live
<1>12. ExitLogSound'
  BY <1>0, <1>a, <1>b2, <1>b3, <1>r, <1>c, SMTT(30) DEF IInv, TypeOK, Meta, Decision,
     Order, Marks, Actions, Steps, Busy, Trimming, Committed, Live, ExitLogSound, Ledger,
     Window, Promise, Owner, OversoldOnlyByRace
<1> QED
  BY <1>1, <1>2, <1>3, <1>4, <1>5, <1>6, <1>7, <1>8, <1>9, <1>10, <1>11, <1>12 DEF IInv

(* Sending the cancels changes only the state of tracked orders.           *)
LEMMA CancelStaleInv ==
  ASSUME IInv, NEW k \in Tasks, CancelStale(k)
  PROVE  IInv'
<1> DEFINE t == cur[k]
<1> USE InitQtyAssumption
<1>0. UNCHANGED <<book, positions, in_flight, recorded, todo, cur, quote, sell, gap,
                  held, market, outage, raced>>
  BY DEF CancelStale, broker_vars, local_vars, frame_vars
<1>a. /\ pc[k] \in {"cancel_halve", "cancel_exit"}
      /\ pc' = [pc EXCEPT ![k] =
            IF @ = "cancel_halve" THEN "confirm_halve" ELSE "confirm_exit"]
  BY DEF CancelStale
<1>b. PICK sent \in SUBSET positions[t].pending : orders' = [p \in Orders |->
             IF p \in sent /\ Live(p) THEN [orders[p] EXCEPT !.st = "cancelling"]
                                      ELSE orders[p]]
  BY DEF CancelStale
<1>c. \A p \in Orders : orders'[p] \in Order /\ orders'[p].ticker = orders[p].ticker
                          /\ orders'[p].left = orders[p].left /\ (Live(p)' <=> Live(p))
  BY <1>b DEF IInv, TypeOK, Order, Live
<1>d. orders' \in [Orders -> Order]
  BY <1>b, <1>c
<1>1. TypeOK'
  <2>1. orders' \in [Orders -> Order]
    BY <1>d
  <2>2. pc' \in [Tasks -> Steps]
    BY <1>a DEF IInv, TypeOK, Steps
  <2> QED
    BY <1>0, <2>1, <2>2, SMTT(30) DEF IInv, TypeOK
<1>2. Owner'
  BY <1>0, <1>a, <1>c, <1>d DEF IInv, Owner, Busy
<1>3. Excl'
  BY <1>0, <1>a, <1>c, <1>d DEF IInv, Excl, Busy
<1>4. FreeQty'
  BY <1>0, <1>a, <1>c, <1>d DEF IInv, FreeQty
<1>5. Ledger'
  BY <1>0, <1>a, <1>c, <1>d DEF IInv, Ledger
<1>6. Window'
  BY <1>0, <1>a, <1>c, <1>d DEF IInv, Window, Trimming
<1>7. Promise'
  BY <1>0, <1>a, <1>c, <1>d DEF IInv, Promise, Committed
<1>8. Clean'
  BY <1>0, <1>a, <1>c, <1>d DEF IInv, Clean
<1>9. NoUntrackedLiveSell'
  BY <1>0, <1>a, <1>c, <1>d DEF IInv, NoUntrackedLiveSell, Live
<1>10. AtMostOneLiveSell'
  BY <1>0, <1>a, <1>c, <1>d DEF IInv, AtMostOneLiveSell, Live
<1>11. OversoldOnlyByRace'
  BY <1>0, <1>a, <1>c, <1>d DEF IInv, OversoldOnlyByRace, Live
<1>12. ExitLogSound'
  BY <1>0, <1>a, <1>c, <1>d DEF IInv, ExitLogSound
<1> QED
  BY <1>1, <1>2, <1>3, <1>4, <1>5, <1>6, <1>7, <1>8, <1>9, <1>10, <1>11, <1>12 DEF IInv

(* Every tracked order has ended, so dropping the ids leaves no live order *)
(* untracked (Clean).                                                      *)
LEMMA ConfirmExitInv ==
  ASSUME IInv, NEW k \in Tasks, ConfirmExit(k)
  PROVE  IInv'
<1> DEFINE t == cur[k]
<1> USE InitQtyAssumption
<1>0. UNCHANGED <<book, in_flight, recorded, todo, cur, quote, sell, gap, orders, held,
                  market, outage, raced>>
  BY DEF ConfirmExit, broker_vars, local_vars, frame_vars
<1>a. /\ t \in Tickers /\ positions[t] \in Meta
      /\ sell[k] \in Decision
  BY DEF IInv, TypeOK, Decision
<1>b. positions' = [positions EXCEPT ![t] = [@ EXCEPT !.pending = {}]]
  BY DEF ConfirmExit
<1>b1. positions'[t] = [positions[t] EXCEPT !.pending = {}]
  BY <1>a, <1>b DEF IInv, TypeOK
<1>b2. /\ positions'[t] \in Meta
       /\ positions'[t].qty = positions[t].qty
       /\ positions'[t].halved = positions[t].halved
       /\ positions'[t].pending = {}
       /\ positions'[t].action = positions[t].action
  BY <1>a, <1>b1 DEF Meta, Actions, Decision
<1>b3. \A u \in Tickers \ {t} : positions'[u] = positions[u]
  BY <1>a, <1>b DEF IInv, TypeOK
<1>b4. positions' \in [Tickers -> Meta]
  BY <1>a, <1>b, <1>b1, <1>b2 DEF IInv, TypeOK
<1>c. /\ pc[k] = "confirm_exit" /\ pc' = [pc EXCEPT ![k] = "submit"]
      /\ \A o \in positions[t].pending : ~Live(o)
  BY DEF ConfirmExit, NoneOpen
<1>1. TypeOK'
  <2>1. positions' \in [Tickers -> Meta]
    BY <1>b4
  <2>2. pc' \in [Tasks -> Steps]
    BY <1>a, <1>b2, <1>b3, <1>c, SMTT(30) DEF IInv, TypeOK, Meta, Decision, Order,
       Marks, Actions, Steps
  <2> QED
    BY <1>0, <2>1, <2>2, SMTT(30) DEF IInv, TypeOK
<1>2. Owner'
  BY <1>0, <1>a, <1>b2, <1>b3, <1>c DEF IInv, Owner, Busy
<1>3. Excl'
  BY <1>0, <1>a, <1>b2, <1>b3, <1>c DEF IInv, Excl, Busy
<1>4. FreeQty'
  BY <1>0, <1>a, <1>b2, <1>b3, <1>c DEF IInv, TypeOK, FreeQty, Window, Promise,
     NoUntrackedLiveSell, Clean, Owner, Excl, Busy, Trimming, Committed, Live
<1>5. Ledger'
  BY <1>0, <1>a, <1>b2, <1>b3, <1>c DEF IInv, TypeOK, Ledger
<1>6. Window'
  BY <1>0, <1>a, <1>b2, <1>b3, <1>c DEF IInv, TypeOK, Window, Trimming
<1>7. Promise'
  BY <1>0, <1>a, <1>b2, <1>b3, <1>c DEF IInv, TypeOK, Promise, Committed
<1>8. Clean'
  BY <1>0, <1>a, <1>b2, <1>b3, <1>c DEF IInv, TypeOK, Clean
<1>9. NoUntrackedLiveSell'
  BY <1>0, <1>a, <1>b2, <1>b3, <1>c DEF IInv, TypeOK, NoUntrackedLiveSell, Live
<1>10. AtMostOneLiveSell'
  BY <1>0, <1>a, <1>b2, <1>b3, <1>c DEF IInv, AtMostOneLiveSell, Live
<1>11. OversoldOnlyByRace'
  BY <1>0, <1>a, <1>b2, <1>b3, <1>c DEF IInv, OversoldOnlyByRace, Live
<1>12. ExitLogSound'
  BY <1>0, <1>a, <1>b2, <1>b3, <1>c DEF IInv, ExitLogSound
<1> QED
  BY <1>1, <1>2, <1>3, <1>4, <1>5, <1>6, <1>7, <1>8, <1>9, <1>10, <1>11, <1>12 DEF IInv

(* An immediate fill is covered by Promise, so the account is oversold by  *)
(* at most what raced.                                                     *)
LEMMA SubmitFilledInv ==
  ASSUME IInv, NEW k \in Tasks, SubmitFilled(k)
  PROVE  IInv'
<1> DEFINE t == cur[k]
<1> USE InitQtyAssumption
<1>0. UNCHANGED <<todo, cur, orders, market, outage, raced>>
  BY DEF SubmitFilled, Release, DropFrame, broker_vars, local_vars, frame_vars
<1>a. /\ t \in Tickers /\ positions[t] \in Meta
      /\ sell[k] \in Decision
  BY DEF IInv, TypeOK, Decision
<1>a2. positions[t].qty \in Nat /\ sell[k].qty \in Nat /\ held[t] \in Int
       /\ recorded[t] \in Nat /\ raced[t] \in Nat /\ positions[t].pending \in SUBSET Orders
  BY <1>a DEF IInv, TypeOK, Meta, Decision
<1>c. pc[k] = "submit"
  BY DEF SubmitFilled
<1>d. /\ sell[k].qty <= positions[t].qty
      /\ positions[t].qty <= held[t] + raced[t]
      /\ positions[t].pending = {}
  BY <1>c DEF IInv, Promise, Committed, Clean
<1>l. t \in book /\ \A p \in Orders : Live(p) => orders[p].ticker # t
  BY <1>c DEF IInv, Clean, Owner, Busy, NoUntrackedLiveSell
<1>r. /\ pc[k] = "submit" /\ cur' = cur
      /\ in_flight' = in_flight \ {t}
      /\ pc' = [pc EXCEPT ![k] = "loop"]
      /\ quote' = [quote EXCEPT ![k] = "noprice"]
      /\ sell' = [sell EXCEPT ![k] = NoDecision]
      /\ gap' = [gap EXCEPT ![k] = 0]
  BY DEF SubmitFilled, Release, DropFrame
<1>o. \A j \in Tasks \ {k} :
           /\ pc'[j] = pc[j] /\ sell'[j] = sell[j] /\ gap'[j] = gap[j] /\ cur'[j] = cur[j]
           /\ Busy(j) => cur[j] \in Tickers \ {t}
  BY <1>r DEF IInv, TypeOK, Excl, Busy
<1>h. /\ held' = [held EXCEPT ![t] = @ - sell[k].qty]
      /\ recorded' = [recorded EXCEPT ![t] = @ + sell[k].qty]
  BY DEF SubmitFilled
<1>u. /\ \A u \in Tickers \ {t} : held'[u] = held[u] /\ recorded'[u] = recorded[u]
      /\ held'[t] = held[t] - sell[k].qty /\ recorded'[t] = recorded[t] + sell[k].qty
  BY <1>a, <1>h DEF IInv, TypeOK
<1>n. PICK n \in Meta :
        /\ positions' = [positions EXCEPT ![t] = n]
        /\ n.pending = {}
        /\ \/ book' = book \ {t} /\ n.qty = positions[t].qty
           \/ book' = book /\ n.qty = positions[t].qty - sell[k].qty
  <2>1. CASE sell[k].action = "exit"
    <3> DEFINE n == [positions[t] EXCEPT !.action = "none"]
    <3>1. positions' = [positions EXCEPT ![t] = n] /\ book' = book \ {t}
      BY <2>1 DEF SubmitFilled
    <3>2. n \in Meta /\ n.pending = {} /\ n.qty = positions[t].qty
      BY <1>a, <1>d DEF Meta, Actions
    <3> QED
      BY <3>1, <3>2
  <2>2. CASE sell[k].action # "exit"
    <3> DEFINE n == [positions[t] EXCEPT !.action = "none",
                                         !.qty = positions[t].qty - sell[k].qty,
                                         !.halved = TRUE]
    <3>1. positions' = [positions EXCEPT ![t] = n] /\ book' = book
      BY <2>2 DEF SubmitFilled
    <3>2. positions[t].qty - sell[k].qty \in Nat
      BY <1>a2, <1>d
    <3>3. n \in Meta /\ n.pending = {} /\ n.qty = positions[t].qty - sell[k].qty
      BY <1>a, <1>d, <3>2 DEF Meta, Actions
    <3> QED
      BY <3>1, <3>3
  <2> QED
    BY <2>1, <2>2
<1>b2. positions'[t] = n
  BY <1>a, <1>n DEF IInv, TypeOK
<1>b3. \A u \in Tickers \ {t} : positions'[u] = positions[u]
  BY <1>n DEF IInv, TypeOK
<1>b4. positions' \in [Tickers -> Meta]
  BY <1>n DEF IInv, TypeOK
<1>x. book' \subseteq book /\ book \ {t} \subseteq book'
  BY <1>n
<1>1. TypeOK'
  <2>1. book' \in SUBSET Tickers
    BY <1>x DEF IInv, TypeOK
  <2>2. positions' \in [Tickers -> Meta]
    BY <1>b4
  <2>3. recorded' \in [Tickers -> Nat]
    BY <1>a, <1>a2, <1>h DEF IInv, TypeOK
  <2>4. held' \in [Tickers -> Int]
    BY <1>a, <1>a2, <1>h DEF IInv, TypeOK
  <2>5. in_flight' \in SUBSET Tickers
    BY <1>r DEF IInv, TypeOK
  <2>6. pc' \in [Tasks -> Steps]
    BY <1>r DEF IInv, TypeOK, Steps
  <2>7. quote' \in [Tasks -> Marks]
    BY <1>r DEF IInv, TypeOK, Marks
  <2>8. sell' \in [Tasks -> Decision]
    BY <1>r DEF IInv, TypeOK, Decision, NoDecision, Actions
  <2>9. gap' \in [Tasks -> Nat]
    BY <1>r DEF IInv, TypeOK
  <2> QED
    BY <1>0, <2>1, <2>2, <2>3, <2>4, <2>5, <2>6, <2>7, <2>8, <2>9, SMTT(30) DEF IInv, TypeOK
<1>2. Owner'
  BY <1>0, <1>o, <1>r, <1>x DEF IInv, TypeOK, Owner, Busy
<1>3. Excl'
  BY <1>o, <1>r DEF IInv, TypeOK, Excl, Busy
<1>4. FreeQty'
  <2> SUFFICES ASSUME NEW u \in book', positions'[u].pending = {}
               PROVE  positions'[u].qty <= held'[u] + raced'[u]
    BY DEF FreeQty
  <2>0. u \in Tickers /\ u \in book
    BY <1>x DEF IInv, TypeOK
  <2>1. CASE u = t
    BY <1>0, <1>a2, <1>b2, <1>d, <1>n, <1>u, <2>1
  <2>2. CASE u # t
    BY <1>0, <1>b3, <1>u, <2>0, <2>2 DEF IInv, FreeQty
  <2> QED
    BY <2>1, <2>2
<1>5. Ledger'
  <2> SUFFICES ASSUME NEW u \in book'
               PROVE  recorded'[u] + positions'[u].qty <= InitQty
    BY DEF Ledger
  <2>0. u \in Tickers /\ u \in book
    BY <1>x DEF IInv, TypeOK
  <2>1. recorded[u] + positions[u].qty <= InitQty
    BY <2>0 DEF IInv, Ledger
  <2>2. CASE u = t
    BY <1>a2, <1>b2, <1>n, <1>u, <2>1, <2>2
  <2>3. CASE u # t
    BY <1>b3, <1>u, <2>0, <2>1, <2>3
  <2> QED
    BY <2>2, <2>3
<1>6. Window'
  <2> SUFFICES ASSUME NEW j \in Tasks, pc'[j] \in {"cancel_halve", "confirm_halve"}
               PROVE  /\ positions'[cur'[j]].qty <= held'[cur'[j]] + raced'[cur'[j]]
                      /\ held'[cur'[j]] <= positions'[cur'[j]].qty
                      /\ recorded'[cur'[j]] + gap'[j] + positions'[cur'[j]].qty <= InitQty
    BY DEF Window, Trimming
  <2>1. j # k
    BY <1>r DEF IInv, TypeOK
  <2>2. Trimming(j) /\ Busy(j) /\ cur[j] \in Tickers \ {t} /\ cur'[j] = cur[j]
    BY <1>o, <2>1 DEF Busy, Trimming, Committed
  <2>3. positions'[cur[j]] = positions[cur[j]]
    BY <1>b3, <2>2
  <2> QED
    BY <1>0, <1>o, <1>u, <2>1, <2>2, <2>3 DEF IInv, Window
<1>7. Promise'
  <2> SUFFICES ASSUME NEW j \in Tasks, pc'[j] \in {"cancel_exit", "confirm_exit", "submit"}
               PROVE  /\ sell'[j].qty <= positions'[cur'[j]].qty
                      /\ positions'[cur'[j]].qty <= held'[cur'[j]] + raced'[cur'[j]]
    BY DEF Promise, Committed
  <2>1. j # k
    BY <1>r DEF IInv, TypeOK
  <2>2. Committed(j) /\ Busy(j) /\ cur[j] \in Tickers \ {t} /\ cur'[j] = cur[j]
    BY <1>o, <2>1 DEF Busy, Trimming, Committed
  <2>3. positions'[cur[j]] = positions[cur[j]]
    BY <1>b3, <2>2
  <2> QED
    BY <1>0, <1>o, <1>u, <2>1, <2>2, <2>3 DEF IInv, Promise
<1>8. Clean'
  <2> SUFFICES ASSUME NEW j \in Tasks, pc'[j] = "submit"
               PROVE  positions'[cur'[j]].pending = {}
    BY DEF Clean
  <2>1. j # k
    BY <1>r DEF IInv, TypeOK
  <2>2. pc[j] = "submit" /\ Busy(j) /\ cur[j] \in Tickers \ {t} /\ cur'[j] = cur[j]
    BY <1>o, <2>1 DEF Busy, Trimming, Committed
  <2>3. positions'[cur[j]] = positions[cur[j]]
    BY <1>b3, <2>2
  <2> QED
    BY <1>0, <1>o, <1>u, <2>1, <2>2, <2>3 DEF IInv, Clean
<1>9. NoUntrackedLiveSell'
  <2> SUFFICES ASSUME NEW p \in Orders, Live(p), orders[p].ticker \in book'
               PROVE  p \in positions'[orders[p].ticker].pending
    BY <1>0 DEF NoUntrackedLiveSell, Live
  <2>1. orders[p].ticker \in book /\ orders[p].ticker \in Tickers \ {t}
    BY <1>l, <1>x DEF IInv, TypeOK
  <2> QED
    BY <1>b3, <2>1 DEF IInv, NoUntrackedLiveSell
<1>10. AtMostOneLiveSell'
  BY <1>0, <1>a, <1>a2, <1>c, <1>d, <1>l, <1>r, <1>o, <1>h, <1>u, <1>n, <1>b2, <1>b3,
     <1>b4, <1>x DEF IInv, AtMostOneLiveSell, Live
<1>11. OversoldOnlyByRace'
  <2> SUFFICES ASSUME NEW u \in Tickers
               PROVE  /\ held'[u] + raced[u] >= 0
                      /\ \A p \in Orders : Live(p) /\ orders[p].ticker = u
                                            => orders[p].left <= held'[u] + raced[u]
    BY <1>0 DEF OversoldOnlyByRace, Live
  <2>1. CASE u = t
    <3>1. held'[t] + raced[t] >= 0
      BY <1>a2, <1>d, <1>u
    <3> QED
      BY <1>l, <2>1, <3>1
  <2>2. CASE u # t
    BY <1>u, <2>2 DEF IInv, OversoldOnlyByRace
  <2> QED
    BY <2>1, <2>2
<1>12. ExitLogSound'
  <2> SUFFICES ASSUME NEW u \in Tickers
               PROVE  recorded'[u] <= InitQty - held'[u]
    BY DEF ExitLogSound
  <2>1. recorded[u] <= InitQty - held[u] /\ recorded[u] \in Nat /\ held[u] \in Int
    BY DEF IInv, TypeOK, ExitLogSound
  <2>2. CASE u = t
    BY <1>a2, <1>u, <2>1, <2>2
  <2>3. CASE u # t
    BY <1>u, <2>1, <2>3
  <2> QED
    BY <2>2, <2>3
<1> QED
  BY <1>1, <1>2, <1>3, <1>4, <1>5, <1>6, <1>7, <1>8, <1>9, <1>10, <1>11, <1>12 DEF IInv

(* The new order is tracked at once and is the ticker's only live one,     *)
(* since none was live before (Clean, NoUntrackedLiveSell).                *)
LEMMA SubmitWorkingInv ==
  ASSUME IInv, NEW k \in Tasks, SubmitWorking(k)
  PROVE  IInv'
<1> DEFINE t == cur[k]
<1> USE InitQtyAssumption
<1>0. UNCHANGED <<book, recorded, todo, cur, held, market, outage, raced>>
  BY DEF SubmitWorking, Release, DropFrame, broker_vars, local_vars, frame_vars
<1>a. /\ t \in Tickers /\ positions[t] \in Meta
      /\ sell[k] \in Decision
  BY DEF IInv, TypeOK, Decision
<1>a2. positions[t].qty \in Nat /\ sell[k].qty \in Nat /\ held[t] \in Int
       /\ sell[k].action \in Actions /\ raced[t] \in Nat /\ positions[t].pending \in SUBSET Orders
  BY <1>a DEF IInv, TypeOK, Meta, Decision
<1>c. pc[k] = "submit"
  BY DEF SubmitWorking
<1>d. /\ sell[k].qty <= positions[t].qty
      /\ positions[t].qty <= held[t] + raced[t]
      /\ positions[t].pending = {}
  BY <1>c DEF IInv, Promise, Committed, Clean
<1>l. t \in book /\ \A p \in Orders : Live(p) => orders[p].ticker # t
  BY <1>c DEF IInv, Clean, Owner, Busy, NoUntrackedLiveSell
<1>r. /\ pc[k] = "submit" /\ cur' = cur
      /\ in_flight' = in_flight \ {t}
      /\ pc' = [pc EXCEPT ![k] = "loop"]
      /\ quote' = [quote EXCEPT ![k] = "noprice"]
      /\ sell' = [sell EXCEPT ![k] = NoDecision]
      /\ gap' = [gap EXCEPT ![k] = 0]
  BY DEF SubmitWorking, Release, DropFrame
<1>o. \A j \in Tasks \ {k} :
           /\ pc'[j] = pc[j] /\ sell'[j] = sell[j] /\ gap'[j] = gap[j] /\ cur'[j] = cur[j]
           /\ Busy(j) => cur[j] \in Tickers \ {t}
  BY <1>r DEF IInv, TypeOK, Excl, Busy
<1>e. PICK new \in Orders :
        /\ ~Live(new)
        /\ orders' = [orders EXCEPT
               ![new] = [ticker |-> t, left |-> sell[k].qty, st |-> "working"]]
        /\ positions' = [positions EXCEPT ![t] =
               [positions[t] EXCEPT !.pending = @ \cup {new}, !.action = sell[k].action]]
  BY DEF SubmitWorking
<1>n. PICK n \in Meta :
        /\ positions' = [positions EXCEPT ![t] = n]
        /\ n.qty = positions[t].qty
        /\ n.pending = positions[t].pending \cup {new}
  <2> DEFINE n == [positions[t] EXCEPT !.pending = positions[t].pending \cup {new},
                                       !.action = sell[k].action]
  <2>1. positions' = [positions EXCEPT ![t] = n]
    BY <1>e
  <2>2. positions[t] \in Meta /\ positions[t].pending \cup {new} \in SUBSET Orders
    BY <1>a, <1>a2 DEF IInv, TypeOK
  <2>3. n \in Meta /\ n.qty = positions[t].qty /\ n.pending = positions[t].pending \cup {new}
    BY <1>a2, <2>2 DEF Meta
  <2> QED
    BY <2>1, <2>3
<1>b2. /\ positions'[t] \in Meta /\ positions'[t].qty = positions[t].qty
       /\ positions'[t].pending = positions[t].pending \cup {new}
  BY <1>a, <1>n DEF IInv, TypeOK
<1>b3. \A u \in Tickers \ {t} : positions'[u] = positions[u]
  BY <1>n DEF IInv, TypeOK
<1>b4. positions' \in [Tickers -> Meta]
  BY <1>n DEF IInv, TypeOK
<1>g. /\ orders' \in [Orders -> Order]
      /\ orders'[new].ticker = t /\ orders'[new].left = sell[k].qty
      /\ \A p \in Orders \ {new} : orders'[p] = orders[p]
  BY <1>a, <1>a2, <1>e DEF IInv, TypeOK, Order
<1>x. book' = book
  BY <1>0
<1>u. \A u \in Tickers : held'[u] = held[u] /\ recorded'[u] = recorded[u]
  BY <1>0
<1>1. TypeOK'
  <2>1. positions' \in [Tickers -> Meta]
    BY <1>b4
  <2>2. orders' \in [Orders -> Order]
    BY <1>g
  <2>3. in_flight' \in SUBSET Tickers
    BY <1>r DEF IInv, TypeOK
  <2>4. pc' \in [Tasks -> Steps]
    BY <1>r DEF IInv, TypeOK, Steps
  <2>5. quote' \in [Tasks -> Marks]
    BY <1>r DEF IInv, TypeOK, Marks
  <2>6. sell' \in [Tasks -> Decision]
    BY <1>r DEF IInv, TypeOK, Decision, NoDecision, Actions
  <2>7. gap' \in [Tasks -> Nat]
    BY <1>r DEF IInv, TypeOK
  <2> QED
    BY <1>0, <2>1, <2>2, <2>3, <2>4, <2>5, <2>6, <2>7, SMTT(30) DEF IInv, TypeOK
<1>2. Owner'
  BY <1>0, <1>o, <1>r, <1>x DEF IInv, TypeOK, Owner, Busy
<1>3. Excl'
  BY <1>o, <1>r DEF IInv, TypeOK, Excl, Busy
<1>4. FreeQty'
  <2> SUFFICES ASSUME NEW u \in book, positions'[u].pending = {}
               PROVE  positions'[u].qty <= held[u] + raced[u]
    BY <1>0 DEF FreeQty
  <2>1. u \in Tickers \ {t}
    BY <1>b2 DEF IInv, TypeOK
  <2> QED
    BY <1>b3, <2>1 DEF IInv, FreeQty
<1>5. Ledger'
  <2> SUFFICES ASSUME NEW u \in book
               PROVE  recorded[u] + positions'[u].qty <= InitQty
    BY <1>0 DEF Ledger
  <2>1. positions'[u].qty = positions[u].qty
    BY <1>b2, <1>b3 DEF IInv, TypeOK
  <2> QED
    BY <2>1 DEF IInv, Ledger
<1>6. Window'
  <2> SUFFICES ASSUME NEW j \in Tasks, pc'[j] \in {"cancel_halve", "confirm_halve"}
               PROVE  /\ positions'[cur'[j]].qty <= held'[cur'[j]] + raced'[cur'[j]]
                      /\ held'[cur'[j]] <= positions'[cur'[j]].qty
                      /\ recorded'[cur'[j]] + gap'[j] + positions'[cur'[j]].qty <= InitQty
    BY DEF Window, Trimming
  <2>1. j # k
    BY <1>r DEF IInv, TypeOK
  <2>2. Trimming(j) /\ Busy(j) /\ cur[j] \in Tickers \ {t} /\ cur'[j] = cur[j]
    BY <1>o, <2>1 DEF Busy, Trimming, Committed
  <2>3. positions'[cur[j]] = positions[cur[j]]
    BY <1>b3, <2>2
  <2> QED
    BY <1>0, <1>o, <1>u, <2>1, <2>2, <2>3 DEF IInv, Window
<1>7. Promise'
  <2> SUFFICES ASSUME NEW j \in Tasks, pc'[j] \in {"cancel_exit", "confirm_exit", "submit"}
               PROVE  /\ sell'[j].qty <= positions'[cur'[j]].qty
                      /\ positions'[cur'[j]].qty <= held'[cur'[j]] + raced'[cur'[j]]
    BY DEF Promise, Committed
  <2>1. j # k
    BY <1>r DEF IInv, TypeOK
  <2>2. Committed(j) /\ Busy(j) /\ cur[j] \in Tickers \ {t} /\ cur'[j] = cur[j]
    BY <1>o, <2>1 DEF Busy, Trimming, Committed
  <2>3. positions'[cur[j]] = positions[cur[j]]
    BY <1>b3, <2>2
  <2> QED
    BY <1>0, <1>o, <1>u, <2>1, <2>2, <2>3 DEF IInv, Promise
<1>8. Clean'
  <2> SUFFICES ASSUME NEW j \in Tasks, pc'[j] = "submit"
               PROVE  positions'[cur'[j]].pending = {}
    BY DEF Clean
  <2>1. j # k
    BY <1>r DEF IInv, TypeOK
  <2>2. pc[j] = "submit" /\ Busy(j) /\ cur[j] \in Tickers \ {t} /\ cur'[j] = cur[j]
    BY <1>o, <2>1 DEF Busy, Trimming, Committed
  <2>3. positions'[cur[j]] = positions[cur[j]]
    BY <1>b3, <2>2
  <2> QED
    BY <1>0, <1>o, <1>u, <2>1, <2>2, <2>3 DEF IInv, Clean
<1>9. NoUntrackedLiveSell'
  <2> SUFFICES ASSUME NEW p \in Orders, Live(p)', orders'[p].ticker \in book
               PROVE  p \in positions'[orders'[p].ticker].pending
    BY <1>0 DEF NoUntrackedLiveSell
  <2>1. CASE p = new
    BY <1>b2, <1>g, <2>1
  <2>2. CASE p # new
    <3>1. Live(p) /\ orders'[p].ticker = orders[p].ticker
      BY <1>g, <2>2 DEF Live
    <3>2. orders[p].ticker \in Tickers \ {t}
      BY <1>l, <3>1 DEF IInv, TypeOK
    <3> QED
      BY <1>b3, <3>1, <3>2 DEF IInv, NoUntrackedLiveSell
  <2> QED
    BY <2>1, <2>2
<1>10. AtMostOneLiveSell'
  <2> SUFFICES ASSUME NEW p1 \in Orders, NEW p2 \in Orders, Live(p1)', Live(p2)',
                      orders'[p1].ticker = orders'[p2].ticker
               PROVE  p1 = p2
    BY DEF AtMostOneLiveSell
  <2>1. \A p \in Orders \ {new} : Live(p)' => Live(p) /\ orders'[p].ticker = orders[p].ticker
    BY <1>g DEF Live
  <2>2. p1 = new => p2 = new
    BY <1>g, <1>l, <2>1
  <2>3. p2 = new => p1 = new
    BY <1>g, <1>l, <2>1
  <2> QED
    BY <2>1, <2>2, <2>3 DEF IInv, AtMostOneLiveSell
<1>11. OversoldOnlyByRace'
  <2> SUFFICES ASSUME NEW u \in Tickers
               PROVE  /\ held[u] + raced[u] >= 0
                      /\ \A p \in Orders : Live(p)' /\ orders'[p].ticker = u
                                            => orders'[p].left <= held[u] + raced[u]
    BY <1>0 DEF OversoldOnlyByRace
  <2>1. held[u] + raced[u] >= 0
    BY DEF IInv, OversoldOnlyByRace
  <2>2. ASSUME NEW p \in Orders, Live(p)', orders'[p].ticker = u
        PROVE  orders'[p].left <= held[u] + raced[u]
    <3>1. CASE p = new
      BY <1>a2, <1>d, <1>g, <2>2, <3>1
    <3>2. CASE p # new
      BY <1>g, <2>2, <3>2 DEF IInv, OversoldOnlyByRace, Live
    <3> QED
      BY <3>1, <3>2
  <2> QED
    BY <2>1, <2>2
<1>12. ExitLogSound'
  BY <1>0 DEF IInv, ExitLogSound
<1> QED
  BY <1>1, <1>2, <1>3, <1>4, <1>5, <1>6, <1>7, <1>8, <1>9, <1>10, <1>11, <1>12 DEF IInv

(* The book mirrors the account and no order is open.                      *)
LEMMA InitInv == Init => IInv
<1> SUFFICES ASSUME Init PROVE IInv
  OBVIOUS
<1> USE InitQtyAssumption
<1>1. TypeOK
  <2>1. positions \in [Tickers -> Meta]
    <3>1. [qty |-> InitQty, halved |-> FALSE, pending |-> {}, action |-> "none"] \in Meta
      BY DEF Meta, Actions
    <3> QED
      BY <3>1 DEF Init
  <2>2. sell \in [Tasks -> Decision]
    BY DEF Init, NoDecision, Decision, Actions
  <2>3. orders \in [Orders -> Order]
    BY DEF Init, Order
  <2>4. /\ quote \in [Tasks -> Marks]
        /\ market \in [Tickers -> Marks]
        /\ pc \in [Tasks -> Steps]
    BY DEF Init, Marks, Steps
  <2>5. /\ book \in SUBSET Tickers /\ in_flight \in SUBSET Tickers
        /\ todo \in [Tasks -> SUBSET Tickers] /\ cur \in [Tasks -> Tickers]
        /\ outage \in BOOLEAN
    BY DEF Init
  <2>6. held \in [Tickers -> Int]
    BY DEF Init
  <2>7. /\ recorded \in [Tickers -> Nat] /\ raced \in [Tickers -> Nat]
        /\ gap \in [Tasks -> Nat]
    BY DEF Init
  <2> QED
    BY <2>1, <2>2, <2>3, <2>4, <2>5, <2>6, <2>7 DEF TypeOK
<1>2. \A k \in Tasks : pc[k] = "idle"
  BY DEF Init
<1>3. \A o \in Orders : ~Live(o)
  BY DEF Init, Live
<1>4. \A t \in Tickers : /\ positions[t].qty = InitQty /\ held[t] = InitQty
                         /\ recorded[t] = 0 /\ raced[t] = 0
  BY DEF Init
<1>5. Owner /\ Excl /\ Window /\ Promise /\ Clean
  BY <1>2 DEF Owner, Excl, Window, Promise, Clean, Busy, Trimming, Committed
<1>6. FreeQty /\ Ledger /\ ExitLogSound
  BY <1>1, <1>4 DEF FreeQty, Ledger, ExitLogSound, TypeOK
<1>7. NoUntrackedLiveSell /\ AtMostOneLiveSell /\ OversoldOnlyByRace
  BY <1>3, <1>4 DEF NoUntrackedLiveSell, AtMostOneLiveSell, OversoldOnlyByRace
<1> QED
  BY <1>1, <1>5, <1>6, <1>7 DEF IInv

(* With no pending exit the mirror is covered (FreeQty) and no order is    *)
(* live; with one the daemon goes to read the position first.              *)
LEMMA FetchQuoteInv ==
  ASSUME IInv, NEW k \in Tasks, NEW mark \in Marks, FetchQuote(k, mark)
  PROVE  IInv'
<1> DEFINE t == cur[k]
<1>0. UNCHANGED <<book, recorded, todo, orders, held, market, outage, raced>>
  BY DEF FetchQuote, broker_vars
<1>a. pc[k] = "quote" /\ Busy(k)
  BY DEF FetchQuote, Busy
<1>b. t \in Tickers /\ t \in book /\ positions[t] \in Meta
  BY <1>a DEF IInv, TypeOK, Owner
<1>1. CASE positions[t].pending = {}
  <2>1. Evaluate(k, mark, positions[t])
    BY <1>1 DEF FetchQuote
  <2>2. positions[t].qty <= held[t] + raced[t]
    BY <1>1, <1>b DEF IInv, FreeQty
  <2>3. \A o \in Orders : Live(o) => orders[o].ticker # t
    BY <1>1, <1>b DEF IInv, NoUntrackedLiveSell
  <2>4. recorded[t] + positions[t].qty <= InitQty /\ recorded[t] <= InitQty - held[t]
    BY <1>b DEF IInv, Ledger, ExitLogSound
  <2>5. recorded' \in [Tickers -> Nat] /\ recorded' = recorded
    BY <1>0 DEF IInv, TypeOK
  <2>6. UNCHANGED <<book, todo, broker_vars>>
    BY DEF FetchQuote
  <2> QED
    BY <1>a, <1>b, <2>1, <2>2, <2>3, <2>4, <2>5, <2>6, EvaluateInv
<1>2. CASE positions[t].pending # {}
  <2>0. UNCHANGED <<book, positions, in_flight, recorded, todo, cur, sell, gap,
                    orders, held, market, outage, raced>>
    BY <1>0, <1>2 DEF FetchQuote
  <2>1. pc' = [pc EXCEPT ![k] = "read"] /\ quote' = [quote EXCEPT ![k] = mark]
    BY <1>2 DEF FetchQuote
  <2>2. TypeOK'
    <3>1. pc' \in [Tasks -> Steps] /\ quote' \in [Tasks -> Marks]
      BY <2>1 DEF IInv, TypeOK, Steps
    <3> QED
      BY <2>0, <3>1 DEF IInv, TypeOK
  <2>3. \A j \in Tasks : /\ Busy(j)' <=> Busy(j)
                         /\ Trimming(j)' <=> Trimming(j)
                         /\ Committed(j)' <=> Committed(j)
                         /\ pc'[j] = "submit" <=> pc[j] = "submit"
    BY <1>a, <2>1 DEF IInv, TypeOK, Busy, Trimming, Committed
  <2>4. Owner' /\ Excl'
    BY <2>0, <2>3 DEF IInv, Owner, Excl
  <2>5. Window' /\ Promise' /\ Clean'
    BY <2>0, <2>3 DEF IInv, Window, Promise, Clean
  <2>6. FreeQty' /\ Ledger' /\ ExitLogSound'
    BY <2>0 DEF IInv, FreeQty, Ledger, ExitLogSound
  <2>7. NoUntrackedLiveSell' /\ AtMostOneLiveSell' /\ OversoldOnlyByRace'
    BY <2>0 DEF IInv, NoUntrackedLiveSell, AtMostOneLiveSell, OversoldOnlyByRace, Live
  <2> QED
    BY <2>2, <2>4, <2>5, <2>6, <2>7 DEF IInv
<1> QED
  BY <1>1, <1>2

(* At least the mirror's shares are still held: the promise is made now.   *)
LEMMA ReadUnfilledInv ==
  ASSUME IInv, NEW k \in Tasks, ReadUnfilled(k)
  PROVE  IInv'
<1> DEFINE t == cur[k]
<1>0. UNCHANGED <<book, todo, broker_vars>> /\ recorded' = recorded
  BY DEF ReadUnfilled
<1>a. pc[k] = "read" /\ Busy(k)
  BY DEF ReadUnfilled, Busy
<1>b. t \in Tickers /\ t \in book /\ positions[t] \in Meta /\ quote[k] \in Marks
  BY <1>a DEF IInv, TypeOK, Owner
<1>c. held[t] \in Int /\ raced[t] \in Nat /\ positions[t].qty \in Nat
  BY <1>b DEF IInv, TypeOK, Meta
<1>1. Evaluate(k, quote[k], positions[t])
  BY DEF ReadUnfilled
<1>2. positions[t].qty <= held[t] + raced[t]
  BY <1>c DEF ReadUnfilled
<1>3. positions[t].pending = {} => \A o \in Orders : Live(o) => orders[o].ticker # t
  BY <1>b DEF IInv, NoUntrackedLiveSell
<1>4. recorded[t] + positions[t].qty <= InitQty /\ recorded[t] <= InitQty - held[t]
  BY <1>b DEF IInv, Ledger, ExitLogSound
<1>5. recorded' \in [Tickers -> Nat]
  BY <1>0 DEF IInv, TypeOK
<1> QED
  BY <1>0, <1>a, <1>b, <1>1, <1>2, <1>3, <1>4, <1>5, EvaluateInv

(* The smaller position is adopted, or a pending halve is cancelled first  *)
(* (Window).                                                               *)
LEMMA ReadPartialInv ==
  ASSUME IInv, NEW k \in Tasks, ReadPartial(k)
  PROVE  IInv'
<1> DEFINE t == cur[k]
           m == [positions[t] EXCEPT !.qty = held[t]]
<1> USE InitQtyAssumption
<1>0. UNCHANGED <<book, recorded, todo, broker_vars>>
  BY DEF ReadPartial
<1>a. /\ pc[k] = "read" /\ Busy(k)
      /\ held[t] > 0 /\ held[t] < positions[t].qty
  BY DEF ReadPartial, Busy
<1>b. t \in Tickers /\ t \in book /\ positions[t] \in Meta /\ quote[k] \in Marks
  BY <1>a DEF IInv, TypeOK, Owner
<1>c. /\ held[t] \in Nat /\ raced[t] \in Nat /\ positions[t].qty \in Nat
      /\ recorded[t] \in Nat
  BY <1>a, <1>b DEF IInv, TypeOK, Meta
<1>d. m \in Meta /\ m.qty = held[t] /\ m.pending = positions[t].pending
  BY <1>b, <1>c DEF Meta
<1>e. recorded[t] + positions[t].qty <= InitQty /\ recorded[t] <= InitQty - held[t]
  BY <1>b DEF IInv, Ledger, ExitLogSound
<1>f. recorded' \in [Tickers -> Nat] /\ recorded' = recorded
  BY <1>0 DEF IInv, TypeOK
<1>1. CASE m.action = "halve"
  <2>0. UNCHANGED <<book, in_flight, recorded, todo, cur, quote, sell,
                    orders, held, market, outage, raced>>
    BY <1>1 DEF ReadPartial, broker_vars
  <2>1. /\ positions' = [positions EXCEPT ![t] = m]
        /\ gap' = [gap EXCEPT ![k] = positions[t].qty - held[t]]
        /\ pc' = [pc EXCEPT ![k] = "cancel_halve"]
    BY <1>1 DEF ReadPartial
  <2>2. /\ positions' \in [Tickers -> Meta]
        /\ positions'[t].qty = held[t] /\ positions'[t].pending = positions[t].pending
        /\ \A u \in Tickers \ {t} : positions'[u] = positions[u]
    BY <1>b, <1>d, <2>1 DEF IInv, TypeOK
  <2>3. \A u \in Tickers : /\ positions'[u].qty <= positions[u].qty
                           /\ positions'[u].pending = positions[u].pending
    BY <1>a, <1>c, <2>2 DEF IInv, TypeOK, Meta
  <2>4. ASSUME NEW j \in Tasks \ {k}
        PROVE  /\ pc'[j] = pc[j] /\ gap'[j] = gap[j]
               /\ Busy(j) => cur[j] \in Tickers \ {t}
    BY <1>a, <2>1 DEF IInv, TypeOK, Excl, Busy
  <2>5. pc'[k] = "cancel_halve" /\ gap'[k] = positions[t].qty - held[t]
    BY <2>1 DEF IInv, TypeOK
  <2>t. TypeOK'
    <3>1. gap' \in [Tasks -> Nat]
      BY <1>a, <1>c, <2>1 DEF IInv, TypeOK
    <3>2. pc' \in [Tasks -> Steps]
      BY <2>1 DEF IInv, TypeOK, Steps
    <3> QED
      BY <2>0, <2>2, <3>1, <3>2 DEF IInv, TypeOK
  <2>u. Owner' /\ Excl'
    <3>1. \A j \in Tasks : Busy(j)' <=> Busy(j)
      BY <1>a, <2>4, <2>5 DEF Busy
    <3> QED
      BY <2>0, <3>1 DEF IInv, Owner, Excl
  <2>v. FreeQty' /\ Ledger'
    <3>1. ASSUME NEW u \in book
          PROVE  /\ u \in Tickers /\ recorded[u] \in Nat
                 /\ positions[u].qty \in Nat /\ positions'[u].qty \in Nat
                 /\ held[u] + raced[u] \in Int
      BY <2>2 DEF IInv, TypeOK, Meta
    <3>2. FreeQty'
      BY <2>0, <2>3, <3>1 DEF IInv, FreeQty
    <3>3. Ledger'
      BY <2>0, <2>3, <3>1 DEF IInv, Ledger
    <3> QED
      BY <3>2, <3>3
  <2>w. Window'
    <3> SUFFICES ASSUME NEW j \in Tasks, Trimming(j)'
                 PROVE  /\ positions'[cur[j]].qty <= held[cur[j]] + raced[cur[j]]
                        /\ held[cur[j]] <= positions'[cur[j]].qty
                        /\ recorded[cur[j]] + gap'[j] + positions'[cur[j]].qty <= InitQty
      BY <2>0 DEF Window
    <3>1. CASE j = k
      BY <1>c, <1>e, <2>2, <2>5, <3>1
    <3>2. CASE j # k
      <4>1. Trimming(j) /\ Busy(j) /\ gap'[j] = gap[j]
        BY <2>4, <3>2 DEF Trimming, Busy
      <4>2. positions'[cur[j]] = positions[cur[j]]
        BY <2>2, <2>4, <3>2, <4>1
      <4> QED
        BY <4>1, <4>2 DEF IInv, Window
    <3> QED
      BY <3>1, <3>2
  <2>x. Promise' /\ Clean'
    <3>1. ASSUME NEW j \in Tasks, Committed(j)'
          PROVE  Committed(j) /\ pc'[j] = pc[j] /\ positions'[cur[j]] = positions[cur[j]]
      <4>1. j # k
        BY <2>5, <3>1 DEF Committed
      <4>2. Committed(j) /\ Busy(j)
        BY <2>4, <3>1, <4>1 DEF Committed, Busy
      <4> QED
        BY <2>2, <2>4, <4>1, <4>2
    <3>2. Promise'
      BY <2>0, <3>1 DEF IInv, Promise
    <3>3. Clean'
      BY <2>0, <3>1 DEF IInv, Clean, Committed
    <3> QED
      BY <3>2, <3>3
  <2>y. NoUntrackedLiveSell'
    BY <2>0, <2>3 DEF IInv, TypeOK, NoUntrackedLiveSell, Live
  <2>z. AtMostOneLiveSell' /\ OversoldOnlyByRace' /\ ExitLogSound'
    BY <2>0 DEF IInv, AtMostOneLiveSell, OversoldOnlyByRace, ExitLogSound, Live
  <2> QED
    BY <2>t, <2>u, <2>v, <2>w, <2>x, <2>y, <2>z DEF IInv
<1>2. CASE m.action # "halve"
  <2>1. Evaluate(k, quote[k], m)
    BY <1>2 DEF ReadPartial
  <2>2. m.pending = {} => \A o \in Orders : Live(o) => orders[o].ticker # t
    BY <1>b, <1>d DEF IInv, NoUntrackedLiveSell
  <2>3. m.qty <= held[t] + raced[t] /\ recorded[t] + m.qty <= InitQty
    BY <1>a, <1>c, <1>d, <1>e
  <2> QED
    BY <1>0, <1>a, <1>b, <1>d, <1>e, <1>f, <2>1, <2>2, <2>3, EvaluateInv
<1> QED
  BY <1>1, <1>2

(* The reconciled halve is recorded once; the gap left the account before  *)
(* the position was read.                                                  *)
LEMMA ConfirmHalveInv ==
  ASSUME IInv, NEW k \in Tasks, ConfirmHalve(k)
  PROVE  IInv'
<1> DEFINE t == cur[k]
           m == [positions[t] EXCEPT !.halved = TRUE, !.pending = {}, !.action = "none"]
<1>0. UNCHANGED <<book, todo, broker_vars>>
  BY DEF ConfirmHalve
<1>a. pc[k] = "confirm_halve" /\ Busy(k) /\ Trimming(k) /\ NoneOpen(t)
  BY DEF ConfirmHalve, Busy, Trimming
<1>b. t \in Tickers /\ t \in book /\ positions[t] \in Meta /\ quote[k] \in Marks
  BY <1>a DEF IInv, TypeOK, Owner
<1>c. /\ held[t] \in Int /\ raced[t] \in Nat /\ positions[t].qty \in Nat
      /\ recorded[t] \in Nat /\ gap[k] \in Nat
  BY <1>b DEF IInv, TypeOK, Meta
<1>d. m \in Meta /\ m.qty = positions[t].qty /\ m.pending = {}
  BY <1>b DEF Meta, Actions
<1>e. /\ positions[t].qty <= held[t] + raced[t]
      /\ held[t] <= positions[t].qty
      /\ recorded[t] + gap[k] + positions[t].qty <= InitQty
  BY <1>a DEF IInv, Window
<1>f. /\ recorded' = [recorded EXCEPT ![t] = @ + gap[k]]
      /\ Evaluate(k, quote[k], m)
  BY DEF ConfirmHalve
<1>g. /\ recorded' \in [Tickers -> Nat]
      /\ recorded'[t] = recorded[t] + gap[k]
      /\ \A u \in Tickers \ {t} : recorded'[u] = recorded[u]
  BY <1>b, <1>c, <1>f DEF IInv, TypeOK
<1>h. \A o \in Orders : Live(o) => orders[o].ticker # t
  BY <1>a, <1>b DEF IInv, NoUntrackedLiveSell, NoneOpen
<1>i. recorded'[t] + m.qty <= InitQty /\ recorded'[t] <= InitQty - held[t]
  BY <1>c, <1>d, <1>e, <1>g, InitQtyAssumption
<1> QED
  BY <1>0, <1>a, <1>b, <1>d, <1>e, <1>f, <1>g, <1>h, <1>i, EvaluateInv

(* Every step of the daemon, its concurrent callers and the broker         *)
(* preserves the invariant.                                                *)
LEMMA NextInv == IInv /\ [Next]_vars => IInv'
<1> SUFFICES ASSUME IInv, [Next]_vars PROVE IInv'
  OBVIOUS
<1>1. CASE UNCHANGED vars
  <2>1. UNCHANGED <<book, positions, in_flight, recorded, pc, todo, cur, quote, sell, gap,
                    orders, held, market, outage, raced>>
    BY <1>1 DEF vars, local_vars, frame_vars, broker_vars
  <2>2. TypeOK'
    BY <2>1 DEF IInv, TypeOK
  <2>3. Owner' /\ Excl' /\ FreeQty' /\ Ledger' /\ Clean'
    BY <2>1 DEF IInv, Owner, Excl, FreeQty, Ledger, Clean, Busy
  <2>4. Window' /\ Promise'
    BY <2>1 DEF IInv, Window, Promise, Trimming, Committed
  <2>5. NoUntrackedLiveSell' /\ AtMostOneLiveSell' /\ OversoldOnlyByRace' /\ ExitLogSound'
    BY <2>1 DEF IInv, NoUntrackedLiveSell, AtMostOneLiveSell, OversoldOnlyByRace,
                ExitLogSound, Live
  <2> QED
    BY <2>2, <2>3, <2>4, <2>5 DEF IInv
<1>2. CASE Broker
  <2>1. ASSUME NEW o \in Orders, NEW n \in 1..InitQty, Fill(o, n) PROVE IInv'
    BY <2>1, FillInv
  <2>2. ASSUME NEW o \in Orders, OrderEnds(o) PROVE IInv'
    BY <2>2, OrderEndsInv
  <2>3. CASE (\E t \in Tickers : MarketMoves(t)) \/ OutageToggles
    BY <2>3, EnvironmentInv
  <2> QED
    BY <1>2, <2>1, <2>2, <2>3 DEF Broker
<1>3. ASSUME NEW k \in Tasks, Manage(k) PROVE IInv'
  <2>1. CASE StartTick(k)
    BY <2>1, StartTickInv
  <2>2. CASE EndTick(k)
    BY <2>2, EndTickInv
  <2>3. ASSUME NEW t \in Tickers, Claim(k, t) PROVE IInv'
    BY <2>3, ClaimInv
  <2>4. CASE QuoteTransientError(k)
    BY <2>4, QuoteTransientErrorInv
  <2>5. ASSUME NEW mark \in Marks, FetchQuote(k, mark) PROVE IInv'
    BY <2>5, FetchQuoteInv
  <2>6. CASE ReadFlat(k)
    BY <2>6, ReadFlatInv
  <2>7. CASE ReadPartial(k)
    BY <2>7, ReadPartialInv
  <2>8. CASE ReadUnfilled(k)
    BY <2>8, ReadUnfilledInv
  <2>9. CASE ReadTransientError(k)
    BY <2>9, ReadTransientErrorInv
  <2>10. CASE CancelStale(k)
    BY <2>10, CancelStaleInv
  <2>11. CASE ConfirmHalve(k)
    BY <2>11, ConfirmHalveInv
  <2>12. CASE ConfirmExit(k)
    BY <2>12, ConfirmExitInv
  <2>13. CASE ConfirmGivesUp(k)
    BY <2>13, ConfirmGivesUpInv
  <2>14. CASE SubmitFilled(k)
    BY <2>14, SubmitFilledInv
  <2>15. CASE SubmitDead(k)
    BY <2>15, SubmitDeadInv
  <2>16. CASE SubmitWorking(k)
    BY <2>16, SubmitWorkingInv
  <2>17. CASE SubmitRaises(k)
    BY <2>17, SubmitRaisesInv
  <2> QED
    BY <1>3, <2>1, <2>2, <2>3, <2>4, <2>5, <2>6, <2>7, <2>8, <2>9, <2>10, <2>11,
       <2>12, <2>13, <2>14, <2>15, <2>16, <2>17 DEF Manage, Process
<1> QED
  BY <1>1, <1>2, <1>3 DEF Next

(* The inductive invariant holds in every reachable state.                 *)
THEOREM InductiveInvariant == Spec => []IInv
  BY InitInv, NextInv, PTL DEF Spec

(* For every book, caller set, id set and holding the variables keep their *)
(* types; in particular the mirror quantities and the recorded exits never *)
(* go negative.                                                            *)
THEOREM TypeCorrect == Spec => []TypeOK
<1>1. IInv => TypeOK
  BY DEF IInv
<1> QED
  BY <1>1, InductiveInvariant, PTL

(* A sell the exit daemon placed is never forgotten while its position is  *)
(* in the book: the id leaves pending_exits only once the order has ended  *)
(* (lifecycle.py 187-191, 254-274).                                        *)
THEOREM LiveSellIsTracked == Spec => []NoUntrackedLiveSell
<1>1. IInv => NoUntrackedLiveSell
  BY DEF IInv
<1> QED
  BY <1>1, InductiveInvariant, PTL

(* However many callers of manage_positions interleave, one ticker never   *)
(* has two fillable sells (lifecycle.py 353-369, 254-274).                 *)
THEOREM OneLiveSell == Spec => []AtMostOneLiveSell
<1>1. IInv => AtMostOneLiveSell
  BY DEF IInv
<1> QED
  BY <1>1, InductiveInvariant, PTL

(* Shares sold and on offer exceed the shares held by no more than the     *)
(* fills that landed between a position read and the end of the cancel     *)
(* that followed it (lifecycle.py 142-283).                                *)
THEOREM OversellIsBounded == Spec => []OversoldOnlyByRace
<1>1. IInv => OversoldOnlyByRace
  BY DEF IInv
<1> QED
  BY <1>1, InductiveInvariant, PTL

(* The exit history never claims more shares than have left the account    *)
(* (lifecycle.py 163, 204, 307).                                           *)
THEOREM ExitLogIsSound == Spec => []ExitLogSound
<1>1. IInv => ExitLogSound
  BY DEF IInv
<1> QED
  BY <1>1, InductiveInvariant, PTL

-----------------------------------------------------------------------------
(* The daemon is a seller as Sale describes one. *)

(* As there is one live sell of a ticker at most, what is on offer of it   *)
(* is what that sell has left.                                             *)
OfferIsTheSell ==
    \A t \in Tickers :
        /\ (\A o \in Orders : Live(o) => orders[o].ticker # t) => OnOffer(t) = 0
        /\ \A o \in Orders : Live(o) /\ orders[o].ticker = t => OnOffer(t) = orders[o].left

LEMMA Offers == TypeOK /\ AtMostOneLiveSell => OfferIsTheSell
<1> SUFFICES ASSUME TypeOK, AtMostOneLiveSell, NEW t \in Tickers
             PROVE  /\ (\A o \in Orders : Live(o) => orders[o].ticker # t) => OnOffer(t) = 0
                    /\ \A o \in Orders : Live(o) /\ orders[o].ticker = t
                                          => OnOffer(t) = orders[o].left
  BY DEF OfferIsTheSell
<1> DEFINE f == [o \in Orders |-> orders[o].left]
           S == {o \in Orders : Live(o) /\ orders[o].ticker = t}
<1>1. ASSUME \A o \in Orders : Live(o) => orders[o].ticker # t PROVE OnOffer(t) = 0
  <2>1. S = {}
    BY <1>1
  <2> QED
    BY <2>1, SumEmpty DEF OnOffer
<1>2. ASSUME NEW o \in Orders, Live(o), orders[o].ticker = t PROVE OnOffer(t) = orders[o].left
  <2>1. S = {o}
    BY <1>2 DEF AtMostOneLiveSell
  <2>2. f[o] = orders[o].left /\ f[o] \in Int
    BY DEF TypeOK, Order
  <2>3. SumFunctionOnSet(f, {o}) = f[o]
    <3> HIDE DEF f
    <3> QED
      BY <2>2, SumOne
  <2> QED
    BY <2>1, <2>2, <2>3 DEF OnOffer
<1> QED
  BY <1>1, <1>2

LEMMA OffersNext == TypeOK' /\ AtMostOneLiveSell' => OfferIsTheSell'
  BY Offers, PTL

(* An order of t that changes leaves what is on offer of the other names.  *)
LEMMA OtherOffers ==
  ASSUME IInv, IInv', NEW o \in Orders, NEW t, NEW u \in Tickers \ {t},
         \A p \in Orders \ {o} : orders'[p] = orders[p],
         Live(o) => orders[o].ticker = t,
         Live(o)' => orders'[o].ticker = t
  PROVE  OnOffer(u)' = OnOffer(u)
<1>1. OfferIsTheSell /\ OfferIsTheSell'
  BY Offers, OffersNext DEF IInv
<1>2. CASE \E p \in Orders : Live(p) /\ orders[p].ticker = u
  <2>1. PICK p \in Orders : Live(p) /\ orders[p].ticker = u
    BY <1>2
  <2>2. Live(p)' /\ orders'[p] = orders[p]
    BY <2>1 DEF Live
  <2> QED
    BY <1>1, <2>1, <2>2 DEF OfferIsTheSell
<1>3. CASE \A p \in Orders : Live(p) => orders[p].ticker # u
  <2>1. \A p \in Orders : Live(p)' => orders'[p].ticker # u
    BY <1>3 DEF Live
  <2> QED
    BY <1>1, <1>3, <2>1 DEF OfferIsTheSell
<1> QED
  BY <1>2, <1>3

(* While nothing of a ticker changes that the seller of Sale knows of, its *)
(* offer stays: an order that was sent a cancel can still fill.            *)
LEMMA SaleStutters ==
  ASSUME IInv, IInv', UNCHANGED <<held, raced, recorded>>,
         \A o \in Orders : /\ Live(o)' <=> Live(o)
                           /\ orders'[o].ticker = orders[o].ticker
                           /\ orders'[o].left = orders[o].left
  PROVE  UNCHANGED Sells!vars
<1>1. OfferIsTheSell /\ OfferIsTheSell'
  BY Offers, OffersNext DEF IInv
<1>2. \A t \in Tickers : OnOffer(t)' = OnOffer(t)
  BY <1>1 DEF OfferIsTheSell
<1> QED
  BY <1>2 DEF Sells!vars

(* The steps that move neither an order nor the account.                   *)
LEMMA IdleRefines ==
  ASSUME IInv, IInv', UNCHANGED <<held, raced, recorded, orders>>
  PROVE  UNCHANGED Sells!vars
<1>1. \A o \in Orders : /\ Live(o)' <=> Live(o)
                        /\ orders'[o].ticker = orders[o].ticker
                        /\ orders'[o].left = orders[o].left
  BY DEF Live
<1> QED
  BY <1>1, SaleStutters

LEMMA CancelStaleRefines ==
  ASSUME IInv, IInv', NEW k \in Tasks, CancelStale(k)
  PROVE  UNCHANGED Sells!vars
<1>1. UNCHANGED <<held, raced, recorded>>
  BY DEF CancelStale
<1>2. \A o \in Orders : /\ Live(o)' <=> Live(o)
                        /\ orders'[o].ticker = orders[o].ticker
                        /\ orders'[o].left = orders[o].left
  BY DEF CancelStale, Live, IInv, TypeOK, Order
<1> QED
  BY <1>1, <1>2, SaleStutters

(* A fill is a part of the offer that is taken, late inside a cancel window. *)
LEMMA FillRefines ==
  ASSUME IInv, IInv', NEW o \in Orders, NEW n \in 1..InitQty, Fill(o, n)
  PROVE  Sells!Next
<1>0. PICK t \in Tickers : t = orders[o].ticker
  BY DEF IInv, TypeOK, Order
<1>1. OfferIsTheSell /\ OfferIsTheSell'
  BY Offers, OffersNext DEF IInv
<1>2. /\ Live(o) /\ n <= orders[o].left /\ orders[o].left \in Nat /\ n \in Nat
      /\ \A p \in Orders \ {o} : orders'[p] = orders[p]
      /\ orders'[o].ticker = t /\ orders'[o].left = orders[o].left - n
      /\ ~Live(o)' => n = orders[o].left
  BY <1>0 DEF IInv, TypeOK, Order, Fill, Live
<1>3. OnOffer(t) = orders[o].left
  BY <1>0, <1>1, <1>2 DEF OfferIsTheSell
<1>4. OnOffer(t)' = OnOffer(t) - n
  <2>1. CASE Live(o)'
    BY <1>1, <1>2, <1>3, <2>1 DEF OfferIsTheSell
  <2>2. CASE ~Live(o)'
    <3>1. \A p \in Orders : Live(p)' => orders'[p].ticker # t
      BY <1>0, <1>2, <2>2 DEF IInv, AtMostOneLiveSell, Live
    <3> QED
      BY <1>1, <1>2, <1>3, <2>2, <3>1 DEF OfferIsTheSell
  <2> QED
    BY <2>1, <2>2
<1>5. \A u \in Tickers \ {t} : OnOffer(u)' = OnOffer(u)
  BY <1>0, <1>2, OtherOffers
<1> DEFINE late == \E k \in Tasks : InWindow(k, t)
<1>6. Sells!Take(t, n, late)
  <2>1. /\ held' = [held EXCEPT ![t] = @ - n]
        /\ raced' = IF late THEN [raced EXCEPT ![t] = @ + n] ELSE raced
        /\ UNCHANGED recorded
    BY <1>0 DEF Fill
  <2> HIDE DEF late
  <2> QED
    BY <1>2, <1>3, <1>4, <1>5, <2>1 DEF Sells!Take
<1>7. n \in 0..OnOffer(t) /\ late \in BOOLEAN
  BY <1>2, <1>3
<1> HIDE DEF late
<1> QED
  BY <1>6, <1>7 DEF Sells!Next

(* The order of a ticker that ends is all that was on offer of it.         *)
LEMMA OrderEndsRefines ==
  ASSUME IInv, IInv', NEW o \in Orders, OrderEnds(o)
  PROVE  Sells!Next
<1>0. PICK t \in Tickers : t = orders[o].ticker
  BY DEF IInv, TypeOK, Order
<1>1. OfferIsTheSell /\ OfferIsTheSell'
  BY Offers, OffersNext DEF IInv
<1>2. /\ Live(o) /\ ~Live(o)'
      /\ \A p \in Orders \ {o} : orders'[p] = orders[p]
  BY DEF IInv, TypeOK, Order, OrderEnds, Live
<1>3. OnOffer(t)' = 0
  <2>1. \A p \in Orders : Live(p)' => orders'[p].ticker # t
    BY <1>0, <1>2 DEF IInv, AtMostOneLiveSell, Live
  <2> QED
    BY <1>1, <2>1 DEF OfferIsTheSell
<1>4. \A u \in Tickers \ {t} : OnOffer(u)' = OnOffer(u)
  BY <1>0, <1>2, OtherOffers
<1>5. Sells!Withdraw(t)
  <2>1. UNCHANGED <<held, raced, recorded>>
    BY DEF OrderEnds
  <2> QED
    BY <1>3, <1>4, <2>1 DEF Sells!Withdraw
<1> QED
  BY <1>5 DEF Sells!Next

(* A caller about to submit has confirmed that nothing of its ticker is on *)
(* offer, and its decision is covered by what it read.                     *)
LEMMA SubmitMayOffer ==
  ASSUME IInv, NEW k \in Tasks, pc[k] = "submit"
  PROVE  /\ \A p \in Orders : Live(p) => orders[p].ticker # cur[k]
         /\ OnOffer(cur[k]) = 0
         /\ sell[k].qty \in 0..(held[cur[k]] + raced[cur[k]])
<1>1. cur[k] \in Tickers /\ cur[k] \in book /\ positions[cur[k]].pending = {}
  BY DEF IInv, TypeOK, Owner, Busy, Clean
<1>2. \A p \in Orders : Live(p) => orders[p].ticker # cur[k]
  BY <1>1 DEF IInv, NoUntrackedLiveSell
<1>3. OnOffer(cur[k]) = 0
  BY <1>1, <1>2, Offers DEF IInv, OfferIsTheSell
<1>4. /\ sell[k].qty <= positions[cur[k]].qty
      /\ positions[cur[k]].qty <= held[cur[k]] + raced[cur[k]]
  BY DEF IInv, Promise, Committed
<1>5. /\ sell[k].qty \in Nat /\ positions[cur[k]].qty \in Nat
      /\ held[cur[k]] + raced[cur[k]] \in Int
  BY <1>1 DEF IInv, TypeOK, Meta, Decision
<1> QED
  BY <1>2, <1>3, <1>4, <1>5

(* A sell the broker fills at once was offered, taken and logged at once.  *)
LEMMA SubmitFilledRefines ==
  ASSUME IInv, IInv', NEW k \in Tasks, SubmitFilled(k)
  PROVE  Sells!Next
<1>0. PICK t \in Tickers : t = cur[k]
  BY DEF IInv, TypeOK
<1>1. PICK n : n = sell[k].qty
  OBVIOUS
<1>2. OnOffer(t) = 0 /\ n \in 0..(held[t] + raced[t])
  BY <1>0, <1>1, SubmitMayOffer DEF SubmitFilled
<1>3. /\ held' = [held EXCEPT ![t] = @ - n]
      /\ recorded' = [recorded EXCEPT ![t] = @ + n]
      /\ UNCHANGED <<orders, raced>>
  BY <1>0, <1>1 DEF SubmitFilled
<1>4. \A u \in Tickers : OnOffer(u)' = OnOffer(u)
  BY <1>3 DEF OnOffer, Live
<1>5. n <= held[t] + raced[t]
  BY <1>2
<1>6. Sells!SellAtOnce(t, n)
  BY <1>2, <1>3, <1>4, <1>5 DEF Sells!SellAtOnce, Sells!MayOffer
<1> QED
  BY <1>2, <1>6 DEF Sells!Next

(* A sell that works at the broker is an offer, made when none was open.   *)
LEMMA SubmitWorkingRefines ==
  ASSUME IInv, IInv', NEW k \in Tasks, SubmitWorking(k)
  PROVE  Sells!Next
<1>0. PICK t \in Tickers : t = cur[k]
  BY DEF IInv, TypeOK
<1>1. PICK n : n = sell[k].qty
  OBVIOUS
<1>2. /\ OnOffer(t) = 0 /\ n \in 0..(held[t] + raced[t])
      /\ \A p \in Orders : Live(p) => orders[p].ticker # t
  BY <1>0, <1>1, SubmitMayOffer DEF SubmitWorking
<1>3. PICK o \in Orders :
         /\ ~Live(o)
         /\ orders' = [orders EXCEPT ![o] = [ticker |-> t, left |-> n, st |-> "working"]]
  BY <1>0, <1>1 DEF SubmitWorking
<1>4. UNCHANGED <<held, raced, recorded>>
  BY DEF SubmitWorking
<1>5. /\ \A p \in Orders \ {o} : orders'[p] = orders[p]
      /\ Live(o)' /\ orders'[o].ticker = t /\ orders'[o].left = n
  BY <1>3 DEF IInv, TypeOK, Live
<1>6. OnOffer(t)' = n
  BY <1>5, OffersNext DEF IInv, OfferIsTheSell
<1>7. \A u \in Tickers \ {t} : OnOffer(u)' = OnOffer(u)
  BY <1>3, <1>5, OtherOffers
<1>8. n <= held[t] + raced[t]
  BY <1>2
<1>9. Sells!Offer(t, n)
  BY <1>2, <1>4, <1>6, <1>7, <1>8 DEF Sells!Offer, Sells!MayOffer
<1> QED
  BY <1>2, <1>9 DEF Sells!Next

(* Logging shares of one ticker that have left the account, and no more.   *)
LEMMA LogRefines ==
  ASSUME IInv, IInv', NEW t \in Tickers, NEW n \in Nat,
         recorded[t] + n <= InitQty - held[t], n <= InitQty,
         recorded' = [recorded EXCEPT ![t] = @ + n],
         UNCHANGED <<held, raced, orders>>
  PROVE  Sells!Next
<1>1. \A u \in Tickers : OnOffer(u)' = OnOffer(u)
  BY DEF OnOffer, Live
<1>2. Sells!Log(t, n)
  BY <1>1 DEF Sells!Log
<1>3. n \in 0..InitQty
  BY InitQtyAssumption
<1> QED
  BY <1>2, <1>3 DEF Sells!Next

(* A pending exit that left the broker flat sold what the book still had.  *)
LEMMA ReadFlatRefines ==
  ASSUME IInv, IInv', NEW k \in Tasks, ReadFlat(k)
  PROVE  Sells!Next
<1>0. PICK t \in Tickers : t = cur[k]
  BY DEF IInv, TypeOK
<1>1. PICK n : n = positions[t].qty
  OBVIOUS
<1>2. /\ t \in book /\ held[t] <= 0
      /\ recorded' = [recorded EXCEPT ![t] = @ + n]
      /\ UNCHANGED <<held, raced, orders>>
  BY <1>0, <1>1 DEF ReadFlat, broker_vars, IInv, Owner, Busy
<1>3. n \in Nat /\ recorded[t] \in Nat /\ held[t] \in Int
  BY <1>1 DEF IInv, TypeOK, Meta
<1>4. recorded[t] + n <= InitQty
  BY <1>1, <1>2 DEF IInv, Ledger
<1> QED
  <2>1. recorded[t] + n <= InitQty - held[t] /\ n <= InitQty
    BY <1>2, <1>3, <1>4, InitQtyAssumption
  <2> QED
    BY <1>2, <1>3, <2>1, LogRefines

(* The gap of a reconciled halve left the account before the read.         *)
LEMMA ConfirmHalveRefines ==
  ASSUME IInv, IInv', NEW k \in Tasks, ConfirmHalve(k)
  PROVE  Sells!Next
<1>0. PICK t \in Tickers : t = cur[k]
  BY DEF IInv, TypeOK
<1>1. PICK n : n = gap[k]
  OBVIOUS
<1>2. /\ Trimming(k)
      /\ recorded' = [recorded EXCEPT ![t] = @ + n]
      /\ UNCHANGED <<held, raced, orders>>
  BY <1>0, <1>1 DEF ConfirmHalve, broker_vars, Trimming
<1>3. n \in Nat /\ recorded[t] \in Nat /\ held[t] \in Int /\ positions[t].qty \in Nat
  BY <1>1 DEF IInv, TypeOK, Meta
<1>4. held[t] <= positions[t].qty /\ recorded[t] + n + positions[t].qty <= InitQty
  BY <1>0, <1>1, <1>2 DEF IInv, Window
<1> QED
  <2>1. recorded[t] + n <= InitQty - held[t] /\ n <= InitQty
    BY <1>2, <1>3, <1>4, InitQtyAssumption
  <2> QED
    BY <1>2, <1>3, <2>1, LogRefines

(* The daemon starts with nothing on offer. *)
LEMMA SaleInit == Init => Sells!Init
<1> SUFFICES ASSUME Init PROVE Sells!Init
  OBVIOUS
<1>1. ASSUME NEW t \in Tickers PROVE OnOffer(t) = 0
  <2>1. OfferIsTheSell
    BY InitInv, Offers DEF IInv
  <2>2. \A o \in Orders : ~Live(o)
    BY DEF Init, Live
  <2> QED
    BY <2>1, <2>2 DEF OfferIsTheSell
<1>2. [t \in Tickers |-> OnOffer(t)] = [t \in Tickers |-> 0]
  BY <1>1
<1> QED
  BY <1>2 DEF Init, Sells!Init

(* Every step is a step of the seller, or one the seller does not see.     *)
LEMMA SaleNext == IInv /\ IInv' /\ [Next]_vars => [Sells!Next]_Sells!vars
<1> SUFFICES ASSUME IInv, IInv', [Next]_vars PROVE Sells!Next \/ UNCHANGED Sells!vars
  OBVIOUS
<1>1. CASE UNCHANGED vars
  BY <1>1, IdleRefines DEF vars, broker_vars
<1>2. CASE Broker
  <2>1. ASSUME NEW o \in Orders, NEW n \in 1..InitQty, Fill(o, n) PROVE Sells!Next
    BY <2>1, FillRefines
  <2>2. ASSUME NEW o \in Orders, OrderEnds(o) PROVE Sells!Next
    BY <2>2, OrderEndsRefines
  <2>3. ASSUME NEW t \in Tickers, MarketMoves(t) PROVE UNCHANGED Sells!vars
    BY <2>3, IdleRefines DEF MarketMoves
  <2>4. CASE OutageToggles
    BY <2>4, IdleRefines DEF OutageToggles
  <2> QED
    BY <1>2, <2>1, <2>2, <2>3, <2>4 DEF Broker
<1>3. ASSUME NEW k \in Tasks, Manage(k) PROVE Sells!Next \/ UNCHANGED Sells!vars
  <2>1. CASE StartTick(k) \/ EndTick(k) \/ \E t \in Tickers : Claim(k, t)
    BY <2>1, IdleRefines DEF StartTick, EndTick, Claim, broker_vars
  <2>2. CASE QuoteTransientError(k) \/ \E mark \in Marks : FetchQuote(k, mark)
    BY <2>2, IdleRefines DEF QuoteTransientError, FetchQuote, broker_vars
  <2>3. CASE ReadFlat(k)
    BY <2>3, ReadFlatRefines
  <2>4. CASE ReadPartial(k) \/ ReadUnfilled(k) \/ ReadTransientError(k)
    BY <2>4, IdleRefines DEF ReadPartial, ReadUnfilled, ReadTransientError, broker_vars
  <2>5. CASE CancelStale(k)
    BY <2>5, CancelStaleRefines
  <2>6. CASE ConfirmHalve(k)
    BY <2>6, ConfirmHalveRefines
  <2>7. CASE ConfirmExit(k) \/ ConfirmGivesUp(k)
    BY <2>7, IdleRefines DEF ConfirmExit, ConfirmGivesUp, broker_vars
  <2>8. CASE SubmitFilled(k)
    BY <2>8, SubmitFilledRefines
  <2>9. CASE SubmitDead(k) \/ SubmitRaises(k)
    BY <2>9, IdleRefines DEF SubmitDead, SubmitRaises, broker_vars
  <2>10. CASE SubmitWorking(k)
    BY <2>10, SubmitWorkingRefines
  <2> QED
    BY <1>3, <2>1, <2>2, <2>3, <2>4, <2>5, <2>6, <2>7, <2>8, <2>9, <2>10 DEF Manage, Process
<1> QED
  BY <1>1, <1>2, <1>3 DEF Next

(* For every book, caller set, id set and holding the daemon implements    *)
(* Sale: nothing is offered while something is on offer or beyond what     *)
(* there is and raced, and only what was sold is logged                    *)
(* (lifecycle.py 142-345).                                                 *)
THEOREM ImplementsTheSale == Spec => ImplementsSale
<1>1. IInv /\ IInv' /\ [Next]_vars => [Sells!Next]_Sells!vars
  BY SaleNext
<1>2. Init => Sells!Init
  BY SaleInit
<1> QED
  BY <1>1, <1>2, InductiveInvariant, PTL DEF Spec, ImplementsSale, Sells!Spec
=============================================================================
