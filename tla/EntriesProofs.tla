---------------------------- MODULE EntriesProofs ----------------------------
(***************************************************************************)
(* Proofs about the entry path, for any tickers, ids, quantity and number  *)
(* of crashes: its types, that the mirror is covered when the exit daemon  *)
(* runs, that no fill is lost and that no name is bought twice.            *)
(*                                                                         *)
(* None of these is inductive.  The argument is the course of a day.  A    *)
(* plan is made when no order is live (DayOrders), so the planned names    *)
(* that are still tracked have dead orders; a tick settles these before it *)
(* buys (Unsettled); hence a bought name is tracked by one order and is    *)
(* not in the book (One); what that order filled is held (Backed), and     *)
(* settling it, or a reconcile, counts the fill once (Covered).  Sells     *)
(* that fill between the jobs lower the holding of names whose exit is     *)
(* pending; these are in the book (ExitsHeld), so by One no tracked buy    *)
(* needs the shares.  What other sells take is remembered (unseen) until   *)
(* the book looks.  A snapshot is taken between jobs and keeps what One    *)
(* and Unsettled say (OneSaved), though it may be old: an order placed     *)
(* since is not in it, and one that has ended since is unknown to the      *)
(* broker session of the next process (Kept, Ids).                         *)
(*                                                                         *)
(* What is lost is counted (Accounted): shares held, or on offer, that     *)
(* neither the mirror nor the tracked order of the name explains come from *)
(* the deaths of the process, one entry each.  While it lives a name is    *)
(* bought only when nothing explains a share of it, and settling moves     *)
(* shares from the order to the mirror; when it dies all it had goes out   *)
(* of sight at once, and that is at most one entry more than before.       *)
(***************************************************************************)
EXTENDS Entries, Sums

(* o is tracked in these records for a buy of t. *)
For(recs, o, t) == recs[o].st # "none" /\ recs[o].ticker = t

(* Control: which job the runtime may be in, and what its locals hold.     *)
Control ==
    /\ pc \in {"idle", "down"} => job = "none"
    /\ pc \in {"settle", "cancel"} => job \in {"tick", "setup"} /\ todo \subseteq Open(pending)
    /\ pc \in {"buy", "submit", "manage"} => job = "tick"
    /\ pc = "cancel" => /\ cur \in Orders /\ cur \notin todo
                        /\ pending[cur].st # "none" /\ Known(cur)
    /\ pc = "submit" => /\ cur \in Tickers /\ cur \notin buying
                        /\ positions[cur] = 0
    /\ job = "tick" => clock \in {"opening", "window", "late"}
    /\ pc \notin {"buy", "submit"} => buying = {}
    /\ pc # "manage" => managing = {}
    /\ pc = "submit" \/ buying # {} => planned = {}

(* Ids: an id that is tracked, in memory or on disk, is the order it was.  *)
Ids ==
    \A o \in Orders :
        /\ Known(o) => orders[o].left + orders[o].filled = Size
        /\ Known(o) /\ pending[o].st # "none" => pending[o].ticker = orders[o].ticker
        /\ Known(o) /\ snap.pending[o].st # "none" => snap.pending[o].ticker = orders[o].ticker

(* DayOrders: outside the session no order is live.                        *)
DayOrders ==
    clock \notin {"opening", "window", "late"} => \A o \in Orders : ~Live(o)

(* One: a name is tracked by one known order at most, and by none when it  *)
(* is in the book.                                                         *)
One ==
    \A t \in Tickers : \A o \in Orders : For(pending, o, t) /\ Known(o) =>
        /\ positions[t] = 0
        /\ \A p \in Orders : For(pending, p, t) /\ Known(p) => p = o

(* OneSaved: the same of the snapshot, for the orders a restart will know. *)
OneSaved ==
    \A t \in Tickers : \A o \in Orders : For(snap.pending, o, t) /\ Live(o) =>
        /\ snap.positions[t] = 0 /\ t \notin snap.planned
        /\ \A p \in Orders : For(snap.pending, p, t) /\ Live(p) => p = o

(* Unsettled: when a name is about to be bought, no order known to the     *)
(* broker is tracked for it; what the plan made in the morning did not     *)
(* know of is dead and in the list to be settled.                          *)
Unsettled ==
    \A t \in Tickers : \A o \in Orders : For(pending, o, t) /\ Known(o) =>
        /\ t \in planned => ~Live(o)
        /\ t \in planned /\ job = "tick" => pc \in {"settle", "cancel"} /\ o \in todo
        /\ t \notin buying
        /\ pc = "submit" => t # cur

(* Kept: a live order of the snapshot is tracked by the running process.   *)
Kept ==
    pc # "down" => \A o \in Orders : Live(o) /\ snap.pending[o].st # "none"
                                     => pending[o].st # "none"

Reconciling == job = "setup" /\ pc \in {"settle", "cancel", "reconcile"}

(* ExitsHeld: a position that is gone has no exit pending.                 *)
ExitsHeld ==
    \A t \in Tickers : /\ exits[t] # {} => positions[t] > 0
                       /\ snap.exits[t] # {} => snap.positions[t] > 0

(* Backed: what a tracked order has filled is held, but for what was sold  *)
(* unseen, and nothing is owed that was not.                               *)
Backed ==
    /\ \A t \in Tickers : held[t] + unseen[t] >= 0
    /\ pc # "down" => \A o \in Orders : pending[o].st # "none" /\ Known(o)
           => orders[o].filled <= held[pending[o].ticker] + unseen[pending[o].ticker]
    /\ pc = "down" => \A o \in Orders : snap.pending[o].st # "none" /\ Live(o)
           => orders[o].filled <= held[snap.pending[o].ticker] + unseen[snap.pending[o].ticker]

(* Covered: so is the mirror of a name without a pending exit, from the    *)
(* first reconcile on.                                                     *)
Covered ==
    ~blind /\ pc # "down" /\ ~Reconciling =>
        \A t \in Tickers : exits[t] = {} => positions[t] <= held[t] + unseen[t]

IInv == TypeOK /\ Control /\ Ids /\ DayOrders /\ One /\ OneSaved /\ Unsettled /\ Kept
        /\ ExitsHeld /\ Backed /\ Covered

-----------------------------------------------------------------------------
(* What the steps have in common *)

USE DEF book_vars, broker_vars, day, history

LEMMA NobodyIs == Nobody \in Tickers
BY SetsAssumption DEF Nobody

(* Forgetting an order leaves records.                                     *)
LEMMA RecordTypes ==
    ASSUME NEW o, NEW recs \in [Orders -> Record]
    PROVE  /\ NoRecord(Nobody) \in Record
           /\ [recs EXCEPT ![o] = NoRecord(Nobody)] \in [Orders -> Record]
<1>1. NoRecord(Nobody) \in Record
    BY NobodyIs, SizeAssumption DEF NoRecord, Record, Ages
<1> QED BY <1>1

(* An order that is polled and still works keeps its ticker.               *)
LEMMA AdvanceTypes ==
    ASSUME TypeOK, NEW o \in Orders, pending[o].st # "none", Status(o) \notin TERMINAL_STATES,
           pending' = [pending EXCEPT ![o].st = Status(o), ![o].filled = orders[o].filled]
    PROVE  /\ pending' \in [Orders -> Record]
           /\ pending'[o].st # "none" /\ pending'[o].ticker = pending[o].ticker
           /\ \A p \in Orders \ {o} : pending'[p] = pending[p]
<1>1. Status(o) \in {"open", "partial"}
    BY DEF Status, TERMINAL_STATES
<1>2. pending[o] \in Record /\ orders[o] \in Order
    BY DEF TypeOK
<1>3. [pending[o] EXCEPT !.st = Status(o), !.filled = orders[o].filled] \in Record
    BY <1>1, <1>2 DEF Record, Order
<1>4. pending' = [pending EXCEPT ![o] = [pending[o] EXCEPT !.st = Status(o), !.filled = orders[o].filled]]
    OBVIOUS
<1>5. pending'[o] = [pending[o] EXCEPT !.st = Status(o), !.filled = orders[o].filled]
    BY <1>4 DEF TypeOK
<1>6. pending'[o].st = Status(o) /\ pending'[o].ticker = pending[o].ticker
  <2>1. [pending[o] EXCEPT !.st = Status(o), !.filled = orders[o].filled].st = Status(o)
      BY <1>2 DEF Record
  <2>2. [pending[o] EXCEPT !.st = Status(o), !.filled = orders[o].filled].ticker = pending[o].ticker
      BY <1>2 DEF Record
  <2> QED BY <1>5, <2>1, <2>2
<1>7. pending' \in [Orders -> Record] /\ \A p \in Orders \ {o} : pending'[p] = pending[p]
    BY <1>3, <1>4 DEF TypeOK
<1> QED BY <1>1, <1>6, <1>7

(* Records grow older and stay what they are.                              *)
LEMMA OlderKeeps ==
    ASSUME NEW recs \in [Orders -> Record]
    PROVE  /\ Older(recs) \in [Orders -> Record]
           /\ \A o \in Orders : /\ Older(recs)[o].st = recs[o].st
                                /\ Older(recs)[o].ticker = recs[o].ticker
<1> SUFFICES ASSUME NEW o \in Orders
             PROVE  /\ Older(recs)[o] \in Record
                    /\ Older(recs)[o].st = recs[o].st
                    /\ Older(recs)[o].ticker = recs[o].ticker
    BY DEF Older
<1> DEFINE a == IF recs[o].age = "today" THEN "yesterday" ELSE "old"
<1>1. recs[o] \in Record /\ a \in Ages
    BY DEF Ages
<1>2. Older(recs)[o] \in {recs[o], [recs[o] EXCEPT !.age = a]}
    BY DEF Older
<1>3. [recs[o] EXCEPT !.age = a] \in Record
    BY <1>1 DEF Record
<1>4. [recs[o] EXCEPT !.age = a].st = recs[o].st
    BY <1>1 DEF Record
<1>5. [recs[o] EXCEPT !.age = a].ticker = recs[o].ticker
    BY <1>1 DEF Record
<1> QED BY <1>1, <1>2, <1>3, <1>4, <1>5

-----------------------------------------------------------------------------
(* settle_pending *)

(* An order the broker does not know may be forgotten: One and Covered are *)
(* about known orders, and a process that never died tracks no other.      *)
LEMMA PollUnknownInv == ASSUME IInv, NEW o \in Orders, PollUnknown(o) PROVE IInv'
<1>1. /\ pending' \in [Orders -> Record]
      /\ \A p \in Orders \ {o} : pending'[p] = pending[p]
    BY RecordTypes DEF IInv, TypeOK, PollUnknown, forget
<1>2. UNCHANGED <<positions, orders>> /\ ~Known(o)
    BY DEF PollUnknown
<1>3. TypeOK'
    BY <1>1 DEF IInv, TypeOK, PollUnknown
<1>4. Control'
    BY <1>1, <1>2 DEF IInv, TypeOK, Control, PollUnknown, Known, Open
<1>5. Ids' /\ One' /\ Unsettled'
    BY <1>1, <1>2 DEF IInv, Ids, One, Unsettled, PollUnknown, For, Known, Live
<1>6. DayOrders' /\ OneSaved'
    BY DEF IInv, DayOrders, OneSaved, PollUnknown, For, Live
<1>7. Kept'
    BY <1>1, <1>2 DEF IInv, Kept, PollUnknown, Known, Live
<1>8. ExitsHeld' /\ Backed' /\ Covered'
    BY <1>1, <1>2 DEF IInv, ExitsHeld, Backed, Covered, Live, PollUnknown, Known, Reconciling
<1> QED BY <1>3, <1>4, <1>5, <1>6, <1>7, <1>8 DEF IInv

(* An answer that the tracker refuses ends the job where it is.            *)
LEMMA PollInvalidInv == ASSUME IInv, NEW o \in Orders, PollInvalid(o) PROVE IInv'
<1> USE DEF IInv, PollInvalid, Raises
<1>1. TypeOK'
    BY NobodyIs DEF TypeOK
<1>2. Control'
    BY DEF Control
<1>3. Ids' /\ DayOrders' /\ One' /\ OneSaved'
    BY DEF Ids, DayOrders, One, OneSaved, Known, Live
<1>4. Unsettled'
    BY DEF Unsettled, Known, Live
<1>5. Kept'
    BY DEF Kept, Live, Settling
<1>6. ExitsHeld' /\ Backed' /\ Covered'
    BY DEF ExitsHeld, Backed, Covered, Live, Ids, Kept, Known, Settling, Reconciling
<1> QED BY <1>1, <1>2, <1>3, <1>4, <1>5, <1>6

(* An order that is over leaves the tracker and its fill enters the mirror, *)
(* which by One had nothing of the name: what the mirror claims now is     *)
(* what the order filled, and by Backed that is held.                      *)
LEMMA PollTerminalInv == ASSUME IInv, NEW o \in Orders, PollTerminal(o) PROVE IInv'
<1> USE DEF IInv, PollTerminal
<1>1. TypeOK'
    BY NobodyIs, SizeAssumption DEF TypeOK, Finish, forget, NoRecord, Record, Order,
        Ages
<1>2. Control'
    BY DEF Control, Finish, Open, Settling, forget
<1>3. Ids'
    BY DEF Ids, Finish, Known, forget, NoRecord
<1>4. DayOrders' /\ OneSaved'
    BY DEF DayOrders, OneSaved, Live
<1>5. One'
    BY DEF One, TypeOK, Control, Finish, For, Known, Open, Settling, forget, NoRecord
<1>6. Unsettled'
    BY DEF Unsettled, TypeOK, Finish, For, Known, Live, forget, NoRecord
<1>7. Kept'
    BY DEF Kept, Finish, Live, forget, Status, TERMINAL_STATES
<1>8. ExitsHeld' /\ Backed' /\ Covered'
    BY DEF ExitsHeld, Backed, Covered, Live, TypeOK, Control, One, Finish, For, Known, Open,
        Settling, forget,
        NoRecord, Order, Reconciling
<1> QED BY <1>1, <1>2, <1>3, <1>4, <1>5, <1>6, <1>7, <1>8

(* An order that works on: its record takes over the new state.            *)
LEMMA PollWorkingInv == ASSUME IInv, NEW o \in Orders, PollWorking(o) PROVE IInv'
<1>0. pending[o].st # "none"
    BY DEF IInv, Control, PollWorking, Settling, Open
<1>1. /\ pending' \in [Orders -> Record]
      /\ pending'[o].st # "none" /\ pending'[o].ticker = pending[o].ticker
      /\ \A p \in Orders \ {o} : pending'[p] = pending[p]
    BY <1>0, AdvanceTypes DEF IInv, PollWorking
<1>2. \A p \in Orders : /\ pending'[p].st # "none" <=> pending[p].st # "none"
                        /\ pending'[p].ticker = pending[p].ticker
    BY <1>0, <1>1
<1>3. UNCHANGED <<positions, exits, planned, job, buying, managing, snap, orders, held, clock,
                  crashes, history>>
      /\ pc = "settle" /\ pc' \in {"settle", "cancel"}
    BY DEF PollWorking, Settling
<1>3a. Live(o)
    BY DEF IInv, TypeOK, Order, PollWorking, Known, Live, Status, TERMINAL_STATES
<1>4. TypeOK'
    BY <1>1, <1>3 DEF IInv, TypeOK, PollWorking
<1>5. Control'
    BY <1>2, <1>3 DEF IInv, Control, PollWorking, Settling, Known, Open
<1>6. Ids' /\ One'
    BY <1>2, <1>3 DEF IInv, Ids, One, For, Known
<1>6a. DayOrders' /\ OneSaved'
    BY <1>3 DEF IInv, DayOrders, OneSaved, For, Live
<1>7. Unsettled'
    BY <1>2, <1>3, <1>3a DEF IInv, Unsettled, PollWorking, For, Known, Live
<1>8. Kept'
    BY <1>2, <1>3 DEF IInv, Kept, PollWorking, Settling, Live
<1>9. ExitsHeld' /\ Backed' /\ Covered'
    BY <1>2, <1>3 DEF IInv, ExitsHeld, Backed, Covered, Live, Reconciling, Known
<1> QED BY <1>4, <1>5, <1>6, <1>6a, <1>7, <1>8, <1>9 DEF IInv

(* After the cancel the order is over and settled as in PollTerminal, or it *)
(* stays in the tracker.                                                   *)
LEMMA CancelLateInv == ASSUME IInv, CancelLate PROVE IInv'
<1>a. PICK q \in Orders : q = cur
    BY DEF IInv, Control, CancelLate
<1>0. q \notin todo /\ pending[q].st # "none" /\ Known(q)
      /\ pc = "cancel" /\ job \in {"tick", "setup"} /\ buying = {}
    BY <1>a DEF IInv, Control, CancelLate
<1>1. UNCHANGED <<exits, planned, job, todo, buying, managing, snap, sells, held, day, outage,
                  crashes, history>>
      /\ pc' = "settle" /\ cur' = Nobody
    BY DEF CancelLate
<1>2. /\ orders' \in [Orders -> Order]
      /\ \A o \in Orders : /\ orders'[o].ticker = orders[o].ticker
                           /\ orders'[o].left = orders[o].left
                           /\ orders'[o].filled = orders[o].filled
                           /\ Known(o)' <=> Known(o)
                           /\ Live(o)' => Live(o)
    BY <1>a, <1>0 DEF IInv, TypeOK, CancelLate, Order, Known, Live
<1>3. /\ pending' \in [Orders -> Record]
      /\ \A o \in Orders \ {q} : pending'[o] = pending[o]
      /\ pending'[q].st # "none" => pending'[q].ticker = pending[q].ticker
  <2>1. CASE pending' = forget(q)
      BY <1>0, <2>1, RecordTypes DEF IInv, TypeOK, forget, NoRecord
  <2>2. CASE pending' = pending
      BY <2>2 DEF IInv, TypeOK
  <2>3. CASE Live(q) /\ pending' = [pending EXCEPT ![q].st = Status(q), ![q].filled = orders[q].filled]
    <3>1. Status(q) \notin TERMINAL_STATES
        BY <2>3 DEF Status, TERMINAL_STATES, Live
    <3> QED BY <1>0, <2>3, <3>1, AdvanceTypes DEF IInv
  <2> QED BY <1>a, <2>1, <2>2, <2>3 DEF CancelLate, Finish
<1>3a. \A o \in Orders : pending'[o].st # "none" => /\ pending[o].st # "none"
                                                   /\ pending'[o].ticker = pending[o].ticker
    BY <1>0, <1>3
<1>4. \/ positions' = positions /\ pending'[q].st # "none"
      \/ /\ pending'[q].st = "none" /\ ~Live(q)'
         /\ positions' = [positions EXCEPT ![pending[q].ticker] = @ + orders[q].filled]
  <2>1. CASE Finish(q) /\ Status(q) \in TERMINAL_STATES /\ orders' = orders
    <3>1. ~Live(q)
        BY <2>1 DEF Status, TERMINAL_STATES, Live
    <3>2. orders'[q].st = orders[q].st
        BY <2>1
    <3> QED BY <1>0, <2>1, <3>1, <3>2 DEF IInv, TypeOK, Finish, forget, NoRecord, Live
  <2>2. CASE Finish(q) /\ orders' = [orders EXCEPT ![q].st = "done"]
    <3>1. ~Live(q)'
      <4>1. orders[q] \in Order
          BY <1>0 DEF IInv, TypeOK
      <4>2. [orders[q] EXCEPT !.st = "done"].st = "done"
          BY <4>1 DEF Order
      <4>3. orders'[q] = [orders[q] EXCEPT !.st = "done"]
          BY <1>0, <2>2 DEF IInv, TypeOK
      <4> QED BY <4>2, <4>3 DEF Live
    <3> QED BY <1>0, <2>2, <3>1 DEF IInv, TypeOK, Finish, forget, NoRecord
  <2>3. CASE positions' = positions /\ pending' = pending
      BY <1>0, <2>3
  <2>4. CASE Live(q) /\ positions' = positions /\ pending' = [pending EXCEPT ![q].st = Status(q), ![q].filled = orders[q].filled]
    <3>1. Status(q) \notin TERMINAL_STATES
        BY <2>4 DEF Status, TERMINAL_STATES, Live
    <3> QED BY <1>0, <2>4, <3>1, AdvanceTypes DEF IInv
  <2> QED BY <1>a, <2>1, <2>2, <2>3, <2>4 DEF CancelLate
<1>5. pending[q] \in Record /\ orders[q] \in Order
    BY <1>0 DEF IInv, TypeOK
<1>6. TypeOK'
  <2>1. positions' \in [Tickers -> Nat]
      BY <1>4, <1>5, SizeAssumption DEF IInv, TypeOK, Record, Order
  <2> QED BY <1>1, <1>2, <1>3, <2>1, NobodyIs DEF IInv, TypeOK
<1>7. Control'
    BY <1>0, <1>1, <1>3 DEF IInv, TypeOK, Control, Open
<1>8. Ids'
    BY <1>1, <1>2, <1>3a DEF IInv, Ids, Known
<1>8a. DayOrders' /\ OneSaved'
    BY <1>1, <1>2 DEF IInv, DayOrders, OneSaved, For
<1>9. One'
  <2> SUFFICES ASSUME NEW t \in Tickers, NEW o \in Orders, For(pending', o, t), Known(o)'
               PROVE  /\ positions'[t] = 0
                      /\ \A p \in Orders : For(pending', p, t) /\ Known(p)' => p = o
      BY DEF One
  <2>1. For(pending, o, t) /\ Known(o)
      BY <1>2, <1>3a DEF For
  <2>2. positions[t] = 0 /\ \A p \in Orders : For(pending, p, t) /\ Known(p) => p = o
      BY <2>1 DEF IInv, One
  <2>3. \A p \in Orders : For(pending', p, t) /\ Known(p)' => p = o
      BY <1>2, <1>3a, <2>2 DEF For
  <2>4. o # q => t # pending[q].ticker
      BY <1>0, <2>2 DEF For
  <2>5. positions'[t] = positions[t]
      BY <1>4, <1>5, <2>4 DEF IInv, TypeOK, For, Record
  <2> QED BY <2>2, <2>3, <2>5
<1>10. Unsettled'
    BY <1>0, <1>1, <1>2, <1>3 DEF IInv, Unsettled, For
<1>11. Kept'
    BY <1>0, <1>1, <1>2, <1>3, <1>4 DEF IInv, Kept, Live
<1>12. ExitsHeld' /\ Backed' /\ Covered'
  <2>0. \A t \in Tickers : positions[t] \in Nat /\ positions'[t] >= positions[t]
      BY <1>4, <1>5 DEF IInv, TypeOK, Order
  <2>1. ASSUME job # "setup", ~blind, NEW t \in Tickers, exits[t] = {}
        PROVE  positions'[t] <= held[t] + unseen[t]
    <3>1. CASE t = pending[q].ticker /\ pending'[q].st = "none"
      <4>1. positions[t] = 0 /\ orders[q].filled <= held[t] + unseen[t]
          BY <1>0, <2>1, <3>1 DEF IInv, One, For, Backed
      <4> QED BY <1>4, <1>5, <4>1, <3>1 DEF IInv, TypeOK, Order
    <3>2. CASE ~(t = pending[q].ticker /\ pending'[q].st = "none")
      <4>1. positions'[t] = positions[t]
          BY <1>4, <3>2 DEF IInv, TypeOK
      <4> QED BY <1>0, <2>1, <4>1 DEF IInv, Covered, Reconciling
    <3> QED BY <3>1, <3>2
  <2>2. ExitsHeld'
    <3>1. \A t \in Tickers : positions[t] > 0 => positions'[t] > 0
        BY <2>0, <1>4, <1>5 DEF IInv, TypeOK, Order
    <3> QED BY <1>1, <3>1 DEF IInv, ExitsHeld
  <2>3. Backed'
      BY <1>0, <1>1, <1>2, <1>3 DEF IInv, Backed
  <2>4. Covered'
      BY <1>0, <1>1, <2>1 DEF Covered, Reconciling
  <2> QED BY <2>2, <2>3, <2>4
<1> QED BY <1>6, <1>7, <1>8, <1>8a, <1>9, <1>10, <1>11, <1>12 DEF IInv

(* As PollInvalid, at the look after the cancel.                           *)
LEMMA CancelInvalidInv == ASSUME IInv, CancelInvalid PROVE IInv'
<1> USE DEF IInv, CancelInvalid, Raises
<1>1. TypeOK'
    BY NobodyIs DEF TypeOK
<1>2. Control'
    BY DEF Control
<1>3. Ids' /\ DayOrders' /\ One' /\ OneSaved'
    BY DEF Ids, DayOrders, One, OneSaved, Known, Live
<1>4. Unsettled'
    BY DEF Unsettled, Known, Live
<1>5. Kept'
    BY DEF Kept, Live
<1>6. ExitsHeld' /\ Backed' /\ Covered'
    BY DEF ExitsHeld, Backed, Covered, Live, Ids, Kept, Known, Status, Reconciling
<1> QED BY <1>1, <1>2, <1>3, <1>4, <1>5, <1>6

(* The list is done; by Unsettled no planned name is tracked any more.     *)
LEMMA SettledInv == ASSUME IInv, Settled PROVE IInv'
<1> USE DEF IInv, Settled
<1>1. TypeOK'
    BY DEF TypeOK
<1>2. Control'
    BY DEF Control
<1>3. Ids' /\ DayOrders' /\ One' /\ OneSaved'
    BY DEF Ids, DayOrders, One, OneSaved, Known, Live
<1>4. Unsettled'
    BY DEF Unsettled, Known, Live
<1>5. Kept'
    BY DEF Kept, Live
<1>6. ExitsHeld' /\ Backed' /\ Covered'
    BY DEF ExitsHeld, Backed, Covered, Live, Known, Reconciling
<1> QED BY <1>1, <1>2, <1>3, <1>4, <1>5, <1>6

-----------------------------------------------------------------------------
(* execute_planned *)

(* Without a plan, or before the window, the tick goes on to the exits.    *)
LEMMA NothingToBuyInv == ASSUME IInv, NothingToBuy PROVE IInv'
<1> USE DEF IInv, NothingToBuy
<1>1. TypeOK'
    BY DEF TypeOK
<1>2. Control'
    BY DEF Control
<1>3. Ids' /\ DayOrders' /\ One' /\ OneSaved'
    BY DEF Ids, DayOrders, One, OneSaved, Known, Live
<1>4. Unsettled'
    BY DEF Unsettled, Control, Known
<1>5. Kept'
    BY DEF Kept, Live
<1>6. ExitsHeld' /\ Backed' /\ Covered'
    BY DEF ExitsHeld, Backed, Covered, Live, Known, Reconciling
<1> QED BY <1>1, <1>2, <1>3, <1>4, <1>5, <1>6

(* The plan becomes the list to buy: what Unsettled says of planned names  *)
(* it now says of these.                                                   *)
LEMMA TakePlannedInv == ASSUME IInv, TakePlanned PROVE IInv'
<1> USE DEF IInv, TakePlanned
<1>1. TypeOK'
    BY DEF TypeOK
<1>2. Control'
    BY DEF Control
<1>3. Ids' /\ DayOrders' /\ One' /\ OneSaved' /\ Kept' /\ ExitsHeld' /\ Backed' /\ Covered'
    BY DEF Ids, DayOrders, One, OneSaved, Kept, ExitsHeld, Backed, Covered, Live, Known,
        Reconciling
<1>4. Unsettled'
    BY DEF Unsettled, Control, Known
<1> QED BY <1>1, <1>2, <1>3, <1>4

(* A name that is skipped is bought by nobody.                             *)
LEMMA SkipEntryInv == ASSUME IInv, NEW t \in Tickers, SkipEntry(t) PROVE IInv'
<1> USE DEF IInv, SkipEntry
<1>1. TypeOK'
    BY DEF TypeOK
<1>2. Control'
    BY DEF Control
<1>3. Ids' /\ DayOrders' /\ One' /\ OneSaved' /\ Kept' /\ ExitsHeld' /\ Backed' /\ Covered'
    BY DEF Ids, DayOrders, One, OneSaved, Kept, ExitsHeld, Backed, Covered, Live, Known,
        Reconciling
<1>4. Unsettled'
    BY DEF Unsettled, Control, Known
<1> QED BY <1>1, <1>2, <1>3, <1>4

(* The name about to be bought is neither tracked nor in the book.         *)
LEMMA QuoteEntryInv == ASSUME IInv, NEW t \in Tickers, QuoteEntry(t) PROVE IInv'
<1> USE DEF IInv, QuoteEntry
<1>1. TypeOK'
    BY DEF TypeOK
<1>2. Control'
    BY DEF Control
<1>3. Ids' /\ DayOrders' /\ One' /\ OneSaved'
    BY DEF Ids, DayOrders, One, OneSaved, Known, Live
<1>4. Unsettled'
    BY DEF Unsettled, Control, Known
<1>5. Kept'
    BY DEF Kept, Live
<1>6. ExitsHeld' /\ Backed' /\ Covered'
    BY DEF ExitsHeld, Backed, Covered, Live, Known, Reconciling
<1> QED BY <1>1, <1>2, <1>3, <1>4, <1>5, <1>6

(* The new order has an id that nobody tracks, and by Unsettled it is the  *)
(* only tracked order of its name.                                         *)
LEMMA SubmitWorkingInv == ASSUME IInv, SubmitWorking PROVE IInv'
<1> USE DEF IInv, SubmitWorking
<1>1. TypeOK'
    BY NobodyIs, SizeAssumption DEF TypeOK, Control, Record, Order, Ages
<1>2. Control'
    BY DEF Control
<1>3. Ids'
    BY SizeAssumption DEF Ids, TypeOK, Unused, Known
<1>4. DayOrders'
    BY DEF DayOrders, Control
<1>5. One'
    BY DEF One, TypeOK, Control, Unsettled, For, Known
<1>6. OneSaved'
    BY DEF OneSaved, Unused, For, Live
<1>7. Unsettled'
    BY DEF Unsettled, TypeOK, Control, For, Known
<1>8. Kept'
    BY DEF Kept, TypeOK, Live
<1>9. ExitsHeld' /\ Backed' /\ Covered'
    BY DEF ExitsHeld, Backed, Covered, Live, TypeOK, Control, Known, Reconciling
<1> QED BY <1>1, <1>2, <1>3, <1>4, <1>5, <1>6, <1>7, <1>8, <1>9

(* A fill at once enters the mirror and the account alike.                 *)
LEMMA SubmitFilledInv == ASSUME IInv, SubmitFilled PROVE IInv'
<1> USE DEF IInv, SubmitFilled
<1>1. TypeOK'
    BY NobodyIs, SizeAssumption DEF TypeOK, Control
<1>2. Control'
    BY DEF Control
<1>3. Ids' /\ DayOrders' /\ OneSaved'
    BY DEF Ids, DayOrders, OneSaved, Known, Live
<1>4. One'
    BY DEF One, Unsettled, Known
<1>5. Unsettled'
    BY DEF Unsettled, Control, Known
<1>6. Kept'
    BY DEF Kept, Live
<1>7. ExitsHeld' /\ Backed' /\ Covered'
    BY SizeAssumption DEF ExitsHeld, Backed, Covered, Live, TypeOK, Known, Order, Reconciling
<1> QED BY <1>1, <1>2, <1>3, <1>4, <1>5, <1>6, <1>7

(* A refused order leaves nothing.                                         *)
LEMMA SubmitDeadInv == ASSUME IInv, SubmitDead PROVE IInv'
<1> USE DEF IInv, SubmitDead
<1>1. TypeOK'
    BY NobodyIs DEF TypeOK
<1>2. Control'
    BY DEF Control
<1>3. Ids' /\ DayOrders' /\ One' /\ OneSaved'
    BY DEF Ids, DayOrders, One, OneSaved, Known, Live
<1>4. Unsettled'
    BY DEF Unsettled, Control, Known
<1>5. Kept'
    BY DEF Kept, Live
<1>6. ExitsHeld' /\ Backed' /\ Covered'
    BY DEF ExitsHeld, Backed, Covered, Live, Known, Reconciling
<1> QED BY <1>1, <1>2, <1>3, <1>4, <1>5, <1>6

(* Nothing was placed, and the job ends.                                   *)
LEMMA SubmitRaisesInv == ASSUME IInv, SubmitRaises PROVE IInv'
<1> USE DEF IInv, SubmitRaises, Raises
<1>1. TypeOK'
    BY NobodyIs DEF TypeOK
<1>2. Control'
    BY DEF Control
<1>3. Ids' /\ DayOrders' /\ One' /\ OneSaved'
    BY DEF Ids, DayOrders, One, OneSaved, Known, Live
<1>4. Unsettled'
    BY DEF Unsettled, Control
<1>5. Kept'
    BY DEF Kept, Live
<1>6. ExitsHeld' /\ Backed' /\ Covered'
    BY DEF ExitsHeld, Backed, Covered, Live, Control, Known, Reconciling
<1> QED BY <1>1, <1>2, <1>3, <1>4, <1>5, <1>6

-----------------------------------------------------------------------------
(* The rest of the tick, the other jobs, crash and restart *)

(* What the exits, and the sells at the broker, leave as it is: no order   *)
(* and no record, and no name enters the book.                             *)
LEMMA ExitStep ==
    ASSUME IInv,
           UNCHANGED <<planned, pending, pc, job, todo, buying, cur, snap, orders, clock>>,
           pc # "manage" => managing' = managing,
           \A t \in Tickers : positions[t] = 0 => positions'[t] = 0
    PROVE  Control' /\ Ids' /\ DayOrders' /\ One' /\ OneSaved' /\ Unsettled' /\ Kept'
<1> USE DEF IInv
<1>1. Control'
    BY DEF Control, Known
<1>2. Ids' /\ DayOrders' /\ OneSaved'
    BY DEF Ids, DayOrders, OneSaved, Known, Live
<1>3. One'
    BY DEF One, Known
<1>4. Unsettled'
    BY DEF Unsettled, Known, Live
<1>5. Kept'
    BY DEF Kept, Live
<1> QED BY <1>1, <1>2, <1>3, <1>4, <1>5

(* The position stays as it is.                                            *)
LEMMA LeaveAloneInv == ASSUME IInv, NEW t \in Tickers, LeaveAlone(t) PROVE IInv'
<1> USE DEF IInv, LeaveAlone, Managing
<1>1. TypeOK'
    BY DEF TypeOK
<1>2. Control' /\ Ids' /\ DayOrders' /\ One' /\ OneSaved' /\ Unsettled' /\ Kept'
    BY ExitStep
<1>3. ExitsHeld' /\ Backed' /\ Covered'
    BY DEF ExitsHeld, Backed, Covered, Known, Live, Reconciling
<1> QED BY <1>1, <1>2, <1>3

(* Nothing more than the mirror had is adopted, and no more than is held.  *)
LEMMA AdoptedIs ==
    ASSUME TypeOK, NEW t \in Tickers
    PROVE  /\ Adopted(t) \in Nat /\ Adopted(t) <= positions[t]
           /\ Adopted(t) = positions[t] \/ held[t] <= Adopted(t)
           /\ held[t] > 0 => Adopted(t) <= held[t]
           /\ held[t] <= 0 => Adopted(t) = 0
BY DEF Adopted, TypeOK

(* A position with an exit pending is in the book, hence its name is       *)
(* tracked by no order: Backed has nothing to say of it.                   *)
LEMMA InBook ==
    ASSUME IInv, NEW t \in Tickers, positions[t] > 0
    PROVE  \A o \in Orders : pending[o].st # "none" /\ Known(o) => pending[o].ticker # t
BY DEF IInv, TypeOK, One, For

(* What is left of the position is what is held, or its exit is pending.   *)
LEMMA ReadExitInv == ASSUME IInv, NEW t \in Tickers, ReadExit(t) PROVE IInv'
<1> USE DEF IInv, ReadExit, Managing
<1>1. /\ positions' = [positions EXCEPT ![t] = Adopted(t)] /\ positions[t] > 0
      /\ Adopted(t) \in Nat /\ Adopted(t) <= positions[t]
    BY AdoptedIs DEF ExitsHeld
<1>2. TypeOK'
    BY <1>1 DEF TypeOK, Short
<1>3. Control' /\ Ids' /\ DayOrders' /\ One' /\ OneSaved' /\ Unsettled' /\ Kept'
    BY <1>1, ExitStep DEF TypeOK
<1>4. ExitsHeld'
    BY <1>1 DEF ExitsHeld, TypeOK
<1>5. Backed'
    BY <1>1, InBook DEF Backed, TypeOK, Record, Known, Live, Short
<1>6. Covered'
    BY <1>1, <1>5 DEF Covered, Backed, TypeOK, Reconciling
<1> QED BY <1>2, <1>3, <1>4, <1>5, <1>6

(* What fills in the window of the cancel is remembered as unseen.         *)
LEMMA CancelExitInv == ASSUME IInv, NEW t \in Tickers, CancelExit(t) PROVE IInv'
<1> USE DEF IInv, CancelExit, Managing
<1>s. PICK s \in exits[t] : \E n \in 0..sells[s].left :
         /\ held' = [held EXCEPT ![t] = @ - n]
         /\ unseen' = [unseen EXCEPT ![t] = n]
         /\ sells' = [sells EXCEPT ![s].left = 0]
    OBVIOUS
<1>0. PICK n \in 0..sells[s].left :
         /\ held' = [held EXCEPT ![t] = @ - n]
         /\ unseen' = [unseen EXCEPT ![t] = n]
         /\ sells' = [sells EXCEPT ![s].left = 0]
    BY <1>s
<1>1. /\ positions' = [positions EXCEPT ![t] = Adopted(t)] /\ positions[t] > 0
      /\ Adopted(t) \in Nat /\ Adopted(t) <= positions[t] /\ Adopted(t) <= held[t]
    BY <1>0, AdoptedIs DEF ExitsHeld
<1>2. TypeOK'
    BY <1>0, <1>1 DEF TypeOK, Sell
<1>3. Control' /\ Ids' /\ DayOrders' /\ One' /\ OneSaved' /\ Unsettled' /\ Kept'
    BY <1>1, ExitStep DEF TypeOK
<1>4. ExitsHeld'
    BY <1>1 DEF ExitsHeld, TypeOK
<1>5. n \in Nat /\ held[t] \in Int /\ held[t] > 0
    BY <1>0 DEF TypeOK, Sell
<1>6. Backed'
    BY <1>0, <1>1, <1>5, InBook DEF Backed, TypeOK, Record, Known, Live
<1>7. Covered'
    BY <1>0, <1>1, <1>5 DEF Covered, TypeOK, Reconciling
<1> QED BY <1>2, <1>3, <1>4, <1>6, <1>7

(* The same leaves the mirror and the account.                             *)
LEMMA SellFilledInv ==
    ASSUME IInv, NEW t \in Tickers, NEW q, SellFilled(t, q) PROVE IInv'
<1> USE DEF IInv, SellFilled, Selling, Managing, Sold
<1>1. q \in Nat /\ q <= positions[t] /\ positions[t] > 0 /\ exits[t] = {}
    BY DEF TypeOK
<1>2. TypeOK'
    BY <1>1 DEF TypeOK, Short
<1>3. Control' /\ Ids' /\ DayOrders' /\ One' /\ OneSaved' /\ Unsettled' /\ Kept'
    BY <1>1, ExitStep DEF TypeOK
<1>4. ExitsHeld'
    BY <1>1 DEF ExitsHeld, TypeOK
<1>5. held'[t] = held[t] - q /\ unseen'[t] >= unseen[t] /\ held'[t] + unseen'[t] >= 0
    BY <1>1 DEF TypeOK, Short
<1>6. Backed'
    BY <1>1, <1>5, InBook DEF Backed, TypeOK, Record, Known, Live
<1>7. Covered'
  <2>1. \A u \in Tickers \ {t} : positions'[u] = positions[u] /\ held'[u] = held[u]
                                 /\ unseen'[u] = unseen[u]
      BY DEF TypeOK
  <2>2. positions'[t] = positions[t] - q
      BY <1>1 DEF TypeOK
  <2> SUFFICES ASSUME ~blind, ~Reconciling, NEW u \in Tickers, exits'[u] = {}
               PROVE  positions'[u] <= held'[u] + unseen'[u]
      BY DEF Covered, Reconciling
  <2>3. positions[u] <= held[u] + unseen[u]
      BY DEF Covered
  <2>4. CASE u = t
    <3>1. /\ positions[t] \in Nat /\ held[t] \in Int /\ unseen[t] \in Nat /\ unseen'[t] \in Nat
        BY <1>2 DEF TypeOK
    <3> QED BY <1>1, <1>5, <2>2, <2>3, <2>4, <3>1
  <2>5. CASE u # t
      BY <2>1, <2>3, <2>5
  <2> QED BY <2>4, <2>5
<1> QED BY <1>2, <1>3, <1>4, <1>6, <1>7

(* The position has an exit pending now.                                   *)
LEMMA SellPendingInv ==
    ASSUME IInv, NEW t \in Tickers, NEW q, SellPending(t, q) PROVE IInv'
<1> USE DEF IInv, SellPending, Selling, Managing
<1>1. q \in Nat /\ positions[t] > 0
    BY DEF TypeOK
<1>2. PICK s \in Exits : /\ sells' = [sells EXCEPT ![s] = [ticker |-> t, left |-> q]]
                         /\ exits' = [exits EXCEPT ![t] = {s}]
    OBVIOUS
<1>3. TypeOK'
    BY <1>1, <1>2 DEF TypeOK, Sell
<1>4. Control' /\ Ids' /\ DayOrders' /\ One' /\ OneSaved' /\ Unsettled' /\ Kept'
    BY ExitStep
<1>5. ExitsHeld' /\ Backed' /\ Covered'
    BY <1>1, <1>2 DEF ExitsHeld, Backed, Covered, TypeOK, Known, Live, Reconciling
<1> QED BY <1>3, <1>4, <1>5

(* The job ends there.                                                     *)
LEMMA SellRaisesInv == ASSUME IInv, SellRaises PROVE IInv'
<1> USE DEF IInv, SellRaises, Raises, Managing
<1>1. TypeOK'
    BY NobodyIs DEF TypeOK
<1>2. Control'
    BY DEF Control
<1>3. Ids' /\ DayOrders' /\ One' /\ OneSaved'
    BY DEF Ids, DayOrders, One, OneSaved, Known, Live
<1>4. Unsettled'
    BY DEF Unsettled, Control, Known
<1>5. Kept'
    BY DEF Kept, Live
<1>6. ExitsHeld' /\ Backed' /\ Covered'
    BY DEF ExitsHeld, Backed, Covered, Control, Known, Live, Reconciling
<1> QED BY <1>1, <1>2, <1>3, <1>4, <1>5, <1>6

(* The mirror becomes what is held, but for the names that a pending buy   *)
(* explains: One allows no position for these.                             *)
LEMMA ReconcileInv == ASSUME IInv, Reconcile PROVE IInv'
<1> USE DEF IInv, Reconcile
<1>0. \A t \in Tickers : /\ positions'[t] \in Nat
                         /\ positions[t] = 0 /\ Pending(t) => positions'[t] = 0
    BY DEF TypeOK, Reconciled, Shielded, InFlight
<1>0a. positions' \in [Tickers -> Nat]
    BY <1>0 DEF TypeOK, Reconciled
<1>0b. exits' \in [Tickers -> SUBSET Exits]
    BY DEF TypeOK
<1>0c. unseen' \in [Tickers -> Nat]
    BY DEF TypeOK, Short
<1>1. TypeOK'
    BY <1>0a, <1>0b, <1>0c DEF TypeOK
<1>2. Control'
    BY DEF Control
<1>3. Ids' /\ DayOrders' /\ OneSaved'
    BY DEF Ids, DayOrders, OneSaved, Known, Live
<1>4. One'
  <2>1. \A t \in Tickers : \A o \in Orders : For(pending, o, t) => Pending(t)
      BY DEF For, Pending, Open
  <2> QED BY <1>0, <2>1 DEF One, Known
<1>5. Unsettled'
    BY DEF Unsettled, Control, Known, Live
<1>6. Kept'
    BY DEF Kept, Live
<1>7. ASSUME UNCHANGED <<positions, exits, unseen>>, blind' = (blind \/ job = "setup")
      PROVE  ExitsHeld' /\ Backed' /\ Covered'
  <2>1. ExitsHeld' /\ Backed'
      BY <1>7 DEF ExitsHeld, Backed, Control, Known, Live
  <2>2. Covered'
    <3>1. ~blind' => ~blind /\ job # "setup" /\ pc # "down"
      <4>1. pc # "down" /\ blind' = (blind \/ job = "setup")
          BY <1>7
      <4> QED BY <4>1, Zenon
    <3> QED BY <1>7, <3>1 DEF Covered, Reconciling
  <2> QED BY <2>1, <2>2
<1>8. ASSUME NEW ignored, positions' = Reconciled(ignored),
             exits' = [t \in Tickers |-> IF positions'[t] = 0 THEN {} ELSE exits[t]],
             unseen' = [t \in Tickers |-> IF InFlight(t) \/ Shielded(t) THEN unseen[t]
                                          ELSE Short(held[t])]
      PROVE  ExitsHeld' /\ Backed' /\ Covered'
  <2>1. ExitsHeld'
    <3>1. \A t \in Tickers : exits'[t] # {} => positions'[t] # 0
        BY <1>8
    <3>2. \A t \in Tickers : positions'[t] # 0 => positions'[t] > 0
        BY <1>0
    <3> QED BY <3>1, <3>2 DEF ExitsHeld
  <2>2. \A t \in Tickers : held[t] + unseen'[t] >= 0
      BY <1>8 DEF Backed, TypeOK, Short
  <2>3. ASSUME NEW o \in Orders, pending[o].st # "none", Known(o)
        PROVE  unseen'[pending[o].ticker] = unseen[pending[o].ticker]
    <3>1. pending[o].ticker \in Tickers
        BY DEF TypeOK, Record
    <3>2. positions[pending[o].ticker] = 0
        BY <2>3, <3>1 DEF One, For
    <3>3. Shielded(pending[o].ticker)
        BY <2>3, <3>2 DEF Shielded, Pending, Open
    <3> QED BY <1>8, <3>1, <3>3
  <2>4. Backed'
      BY <2>2, <2>3 DEF Backed, Control, Known
  <2>5. ASSUME NEW t \in Tickers, exits'[t] = {}
        PROVE  positions'[t] <= held[t] + unseen'[t]
    <3>1. CASE InFlight(t)
        BY <1>8, <2>5, <3>1 DEF InFlight, Reconciled, ExitsHeld
    <3>2. CASE ~InFlight(t)
        BY <1>8, <2>2, <3>2 DEF Reconciled, TypeOK, Short
    <3> QED BY <3>1, <3>2
  <2>6. Covered'
      BY <2>5 DEF Covered
  <2> QED BY <2>1, <2>4, <2>6
<1> QED BY <1>1, <1>2, <1>3, <1>4, <1>5, <1>6, <1>7, <1>8

(* The snapshot becomes the memory: OneSaved is what One and Unsettled say *)
(* of it.  No record names an order that is dropped.                       *)
LEMMA PersistInv == ASSUME IInv, Persist PROVE IInv'
<1> USE DEF IInv, Persist
<1>0. \A o \in Orders :
         \/ orders'[o] = orders[o]
         \/ /\ orders'[o] = NoOrder /\ ~Live(o)
            /\ pending[o].st = "none" /\ snap'.pending[o].st = "none"
    OBVIOUS
<1>0a. \A o \in Orders : /\ Live(o)' <=> Live(o)
                         /\ Known(o)' => orders'[o] = orders[o] /\ Known(o)
  <2>1. NoOrder.st = "unknown"
      BY DEF NoOrder
  <2> HIDE DEF Persist
  <2> QED BY <1>0, <2>1 DEF Live, Known
<1>1. TypeOK'
    BY NobodyIs, SizeAssumption DEF TypeOK, Snapshot, Saved, NoOrder, Order
<1>2. Control'
    BY DEF Control
<1>3. Ids'
    BY <1>0a DEF Ids, Snapshot
<1>4. DayOrders' /\ One'
    BY <1>0a DEF DayOrders, One
<1>5. OneSaved'
    BY <1>0a DEF OneSaved, One, Unsettled, Snapshot, Known, Live
<1>6. Unsettled'
    BY <1>0a DEF Unsettled
<1>7. Kept'
    BY <1>0a DEF Kept, Snapshot
<1>8. ExitsHeld' /\ Backed' /\ Covered'
    BY <1>0a DEF ExitsHeld, Backed, Covered, Snapshot, Control, Reconciling
<1> QED BY <1>1, <1>2, <1>3, <1>4, <1>5, <1>6, <1>7, <1>8

(* Everything tracked is in the list to settle, as Unsettled asks.         *)
LEMMA StartTickInv == ASSUME IInv, StartTick PROVE IInv'
<1> USE DEF IInv, StartTick
<1>1. TypeOK'
    BY DEF TypeOK, Open
<1>2. Control'
    BY DEF Control
<1>3. Ids' /\ DayOrders' /\ One' /\ OneSaved'
    BY DEF Ids, DayOrders, One, OneSaved, Known, Live
<1>4. Unsettled'
    BY DEF Unsettled, For, Known, Live, Open
<1>5. Kept'
    BY DEF Kept, Live
<1>6. ExitsHeld' /\ Backed' /\ Covered'
    BY DEF ExitsHeld, Backed, Covered, Live, Known, Reconciling
<1> QED BY <1>1, <1>2, <1>3, <1>4, <1>5, <1>6

(* A plan is made before the session, when by DayOrders no order is live,  *)
(* and of names that are not in the book.                                  *)
LEMMA PlanInv == ASSUME IInv, Plan PROVE IInv'
<1> USE DEF IInv, Plan
<1>1. TypeOK'
    BY NobodyIs, SizeAssumption, SetsAssumption, FlagAssumption DEF TypeOK, Snapshot,
        Saved
<1>2. Control'
    BY DEF Control
<1>3. Ids'
    BY DEF Ids, Snapshot, Known
<1>4. DayOrders' /\ One'
    BY DEF DayOrders, One, Known, Live
<1>5. OneSaved'
    BY DEF OneSaved, DayOrders, Live
<1>6. Unsettled'
    BY DEF Unsettled, Control, DayOrders, Live
<1>7. Kept'
    BY NobodyIs, SetsAssumption DEF Kept, Snapshot, Live
<1>8. ExitsHeld'
  <2>1. \/ snap'.positions = snap.positions /\ snap'.exits = snap.exits
        \/ snap'.positions = positions /\ snap'.exits = exits
    <3>1. [Snapshot EXCEPT !.planned = planned'] = [positions |-> positions, exits |-> exits,
              planned |-> planned', pending |-> pending]
        BY DEF Snapshot
    <3> QED BY <3>1
  <2> QED BY <2>1 DEF ExitsHeld
<1>9. Backed' /\ Covered'
    BY DEF Backed, Covered, Live, Known, Reconciling
<1> QED BY <1>1, <1>2, <1>3, <1>4, <1>5, <1>6, <1>7, <1>8, <1>9

(* The close reads the account and touches no order.                       *)
LEMMA EodCloseInv == ASSUME IInv, EodClose PROVE IInv'
<1> USE DEF IInv, EodClose
<1>1. TypeOK'
    BY DEF TypeOK
<1>2. Control'
    BY DEF Control
<1>3. Ids' /\ One' /\ OneSaved'
    BY DEF Ids, One, OneSaved, Known, Live
<1>4. DayOrders'
    BY DEF DayOrders, Live
<1>5. Unsettled'
    BY DEF Unsettled, Known, Live
<1>6. Kept'
    BY DEF Kept, Live
<1>7. ExitsHeld' /\ Backed' /\ Covered'
    BY DEF ExitsHeld, Backed, Covered, Live, Known, Reconciling
<1> QED BY <1>1, <1>2, <1>3, <1>4, <1>5, <1>6, <1>7

(* The memory becomes the snapshot, or is empty, and the broker knows only *)
(* what is live: One is what OneSaved says of these orders.                *)
LEMMA RestartInv == ASSUME IInv, Restart PROVE IInv'
<1> USE DEF IInv, Restart
<1>1. TypeOK'
    BY NobodyIs, SizeAssumption DEF TypeOK, Open, NoRecord, NoOrder, Record, Order,
        Saved, Ages, Empty
<1>2. Control'
    BY DEF Control
<1>3. Ids'
    BY DEF Ids, Known, NoRecord, NoOrder, Empty
<1>4. DayOrders'
    BY DEF DayOrders, Live, NoOrder
<1>5. One'
    BY DEF One, OneSaved, For, Known, NoRecord, NoOrder, Empty
<1>6. OneSaved'
    BY DEF OneSaved, For, Live, NoRecord, NoOrder, Empty
<1>7. Unsettled'
    BY DEF Unsettled, Control, OneSaved, Known, NoOrder, Empty
<1>8. Kept'
    BY DEF Kept
<1>9. ExitsHeld' /\ Backed' /\ Covered'
    BY DEF ExitsHeld, Backed, Covered, Live, Known, NoRecord, NoOrder, Empty, Reconciling
<1> QED BY <1>1, <1>2, <1>3, <1>4, <1>5, <1>6, <1>7, <1>8, <1>9

(* The memory is gone; by Kept and Backed, the live orders that the        *)
(* snapshot tracks have filled no more than is held.                       *)
LEMMA CrashInv == ASSUME IInv, Crash PROVE IInv'
<1> USE DEF IInv, Crash
<1>1. TypeOK'
    BY NobodyIs, SizeAssumption, FlagAssumption DEF TypeOK, NoRecord, Record, Ages,
        Empty
<1>2. Control'
    BY DEF Control
<1>3. Ids'
    BY DEF Ids, Known, NoRecord, Empty
<1>4. DayOrders' /\ OneSaved'
    BY DEF DayOrders, OneSaved, Live
<1>5. One'
    BY DEF One, For, NoRecord, Empty
<1>6. Unsettled'
    BY DEF Unsettled
<1>7. Kept'
    BY DEF Kept
<1>8. ExitsHeld' /\ Covered'
    BY DEF ExitsHeld, Covered, Empty
<1>9. Backed'
    BY DEF Backed, Ids, Kept, Live, Known
<1> QED BY <1>1, <1>2, <1>3, <1>4, <1>5, <1>6, <1>7, <1>8, <1>9

-----------------------------------------------------------------------------
(* The broker and the clock *)

(* What a fill adds to the account its order counts as filled, and by One  *)
(* no other order of the name is tracked.                                  *)
LEMMA FillInv == ASSUME IInv, NEW o \in Orders, NEW n \in 1..Size, Fill(o, n) PROVE IInv'
<1> USE DEF IInv, Fill, TypeOK
<1>1. TypeOK'
    BY DEF Order
<1>2. Control'
    BY DEF Control, Known, Order
<1>3. Ids'
    BY DEF Ids, Order
<1>4. DayOrders'
    BY DEF DayOrders, Order
<1>5. One'
    BY DEF One, Order
<1>6. OneSaved'
    BY DEF OneSaved, Live
<1>7. Unsettled'
    BY DEF Unsettled, Order
<1>8. Kept'
    BY DEF Kept, Order
<1>9. ExitsHeld' /\ Backed' /\ Covered'
    BY DEF ExitsHeld, Backed, Covered, Live, Order
<1> QED BY <1>1, <1>2, <1>3, <1>4, <1>5, <1>6, <1>7, <1>8, <1>9

(* An order that ends keeps its fills and its id.                          *)
LEMMA EndsInv == ASSUME IInv, NEW o \in Orders, Ends(o) PROVE IInv'
<1> USE DEF IInv, Ends
<1>1. TypeOK'
    BY DEF TypeOK, Order
<1>2. Control'
    BY DEF Control, Known
<1>3. Ids'
    BY DEF Ids, Known, Live
<1>4. DayOrders'
    BY DEF DayOrders
<1>5. One'
    BY DEF One, Known, Live
<1>6. OneSaved'
    BY DEF OneSaved, Live
<1>7. Unsettled'
    BY DEF Unsettled, Known, Live
<1>8. Kept'
    BY DEF Kept, Live
<1>9. ExitsHeld' /\ Backed' /\ Covered'
    BY DEF ExitsHeld, Backed, Covered, Live, Known, Reconciling
<1> QED BY <1>1, <1>2, <1>3, <1>4, <1>5, <1>6, <1>7, <1>8, <1>9

(* An order that is rejected keeps its fills and its id.                   *)
LEMMA RejectsInv == ASSUME IInv, NEW o \in Orders, Rejects(o) PROVE IInv'
<1> USE DEF IInv, Rejects
<1>1. TypeOK'
    BY FlagAssumption DEF TypeOK, Order
<1>2. Control'
    BY DEF Control, Known
<1>3. Ids'
    BY DEF Ids, Known, Live
<1>4. DayOrders'
    BY DEF DayOrders
<1>5. One'
    BY DEF One, Known, Live
<1>6. OneSaved'
    BY DEF OneSaved, Live
<1>7. Unsettled'
    BY DEF Unsettled, Known, Live
<1>8. Kept'
    BY DEF Kept, Live
<1>9. ExitsHeld' /\ Backed' /\ Covered'
    BY DEF ExitsHeld, Backed, Covered, Live, Known, Reconciling
<1> QED BY <1>1, <1>2, <1>3, <1>4, <1>5, <1>6, <1>7, <1>8, <1>9

(* A sell that the book has no id of is remembered as unseen, and so is    *)
(* what the account is short.                                              *)
LEMMA SellFillsInv ==
    ASSUME IInv, NEW s \in Exits, NEW n \in 1..sells[s].left, SellFills(s, n) PROVE IInv'
<1> USE DEF IInv, SellFills, Sold
<1>0. PICK t \in Tickers : t = sells[s].ticker
    BY DEF TypeOK, Sell
<1>1. n \in Nat /\ n <= sells[s].left /\ sells[s].left \in Nat
    BY DEF TypeOK, Sell
<1>2. TypeOK'
    BY <1>0, <1>1 DEF TypeOK, Sell, Short
<1>3. Control' /\ Ids' /\ DayOrders' /\ One' /\ OneSaved' /\ Unsettled' /\ Kept'
    BY ExitStep
<1>4. ExitsHeld'
    BY DEF ExitsHeld
<1>5. /\ \A u \in Tickers \ {t} : held'[u] = held[u] /\ unseen'[u] = unseen[u]
      /\ held'[t] + unseen'[t] >= 0
      /\ exits[t] = {} \/ pc = "down" => held'[t] + unseen'[t] = held[t] + unseen[t]
    BY <1>0, <1>1 DEF Backed, TypeOK, Short
<1>6. Backed'
  <2>1. \A u \in Tickers : held'[u] + unseen'[u] >= 0
      BY <1>5 DEF Backed
  <2>2. ASSUME pc # "down", NEW o \in Orders, pending[o].st # "none", Known(o)
        PROVE  orders[o].filled <= held'[pending[o].ticker] + unseen'[pending[o].ticker]
    <3>1. pending[o].ticker \in Tickers
        BY DEF TypeOK, Record
    <3>2. exits[pending[o].ticker] = {}
        BY <2>2, <3>1 DEF ExitsHeld, One, For, TypeOK
    <3> QED BY <1>5, <2>2, <3>1, <3>2 DEF Backed
  <2>3. ASSUME pc = "down", NEW o \in Orders, snap.pending[o].st # "none", Live(o)
        PROVE  orders[o].filled <= held'[snap.pending[o].ticker] + unseen'[snap.pending[o].ticker]
    <3>1. snap.pending[o].ticker \in Tickers
        BY DEF TypeOK, Saved, Record
    <3> QED BY <1>5, <2>3, <3>1 DEF Backed
  <2> QED BY <2>1, <2>2, <2>3 DEF Backed, Known, Live
<1>7. Covered'
    BY <1>5 DEF Covered, Reconciling
<1> QED BY <1>2, <1>3, <1>4, <1>6, <1>7

(* Nothing is sold any more by this one.                                   *)
LEMMA SellEndsInv == ASSUME IInv, NEW s \in Exits, SellEnds(s) PROVE IInv'
<1> USE DEF IInv, SellEnds
<1>1. TypeOK'
    BY DEF TypeOK, Sell
<1>2. Control' /\ Ids' /\ DayOrders' /\ One' /\ OneSaved' /\ Unsettled' /\ Kept'
    BY ExitStep
<1>3. ExitsHeld' /\ Backed' /\ Covered'
    BY DEF ExitsHeld, Backed, Covered, Known, Live, Reconciling
<1> QED BY <1>1, <1>2, <1>3

(* What the broker answers from now on is no part of the invariant.        *)
LEMMA OutageEndsInv == ASSUME IInv, OutageEnds PROVE IInv'
<1> USE DEF IInv, OutageEnds
<1>1. TypeOK'
    BY DEF TypeOK
<1>2. Control' /\ Ids' /\ DayOrders' /\ One' /\ OneSaved' /\ Unsettled' /\ Kept'
    BY ExitStep
<1>3. ExitsHeld' /\ Backed' /\ Covered'
    BY DEF ExitsHeld, Backed, Covered, Known, Live, Reconciling
<1> QED BY <1>1, <1>2, <1>3

(* The day goes on between jobs: at the close every order ends, overnight  *)
(* the records age, and nothing else moves.                                *)
LEMMA TimePassesInv == ASSUME IInv, TimePasses PROVE IInv'
<1>1. UNCHANGED <<positions, exits, planned, pc, job, todo, buying, managing, cur, held, outage,
                  crashes, history>>
      /\ pc \in {"idle", "down"} /\ job = "none" /\ buying = {}
    BY DEF TimePasses, IInv, Control
<1>2. /\ pending' \in [Orders -> Record]
      /\ \A o \in Orders : pending'[o].st = pending[o].st /\ pending'[o].ticker = pending[o].ticker
    BY OlderKeeps DEF IInv, TypeOK, TimePasses
<1>3. /\ snap' \in Saved /\ snap'.positions = snap.positions /\ snap'.planned = snap.planned
      /\ snap'.exits = snap.exits
      /\ \A o \in Orders : /\ snap'.pending[o].st = snap.pending[o].st
                           /\ snap'.pending[o].ticker = snap.pending[o].ticker
  <2>1. snap \in Saved /\ snap.pending \in [Orders -> Record]
      BY DEF IInv, TypeOK, Saved
  <2>2. CASE snap' = snap
      BY <2>1, <2>2
  <2>3. CASE snap' = [snap EXCEPT !.pending = Older(@)]
    <3>1. /\ snap'.pending = Older(snap.pending)
          /\ snap'.positions = snap.positions /\ snap'.planned = snap.planned
          /\ snap'.exits = snap.exits
        BY <2>1, <2>3 DEF Saved
    <3>2. snap' \in Saved
        BY <2>1, <2>3, OlderKeeps DEF Saved
    <3> QED BY <2>1, <3>1, <3>2, OlderKeeps
  <2> QED BY <2>2, <2>3 DEF TimePasses
<1>4. /\ orders' \in [Orders -> Order]
      /\ \A o \in Orders : /\ orders'[o].ticker = orders[o].ticker
                           /\ orders'[o].left = orders[o].left
                           /\ orders'[o].filled = orders[o].filled
                           /\ Known(o)' <=> Known(o)
                           /\ Live(o)' => Live(o)
  <2>1. CASE orders' = orders
      BY <2>1 DEF IInv, TypeOK, Known, Live
  <2>2. CASE orders' = [o \in Orders |-> IF Live(o) THEN [orders[o] EXCEPT !.st = "done"] ELSE orders[o]]
      BY <2>2 DEF IInv, TypeOK, Order, Known, Live
  <2> QED BY <2>1, <2>2 DEF TimePasses
<1>5. clock' \notin {"opening", "window", "late"} => \A o \in Orders : ~Live(o)'
  <2>1. CASE clock = "late"
      BY <2>1 DEF TimePasses, Live, IInv, TypeOK, Order
  <2>2. CASE clock # "late"
      BY <1>4, <2>2 DEF TimePasses, IInv, TypeOK, DayOrders
  <2> QED BY <2>1, <2>2
<1>6. TypeOK'
  <2>1. sells' \in [Exits -> Sell]
      BY DEF IInv, TypeOK, Sell, TimePasses
  <2> QED BY <1>1, <1>2, <1>3, <1>4, <2>1 DEF IInv, TypeOK, TimePasses
<1>7. Control'
    BY <1>1, <1>2 DEF IInv, Control
<1>8. Ids'
    BY <1>2, <1>3, <1>4 DEF IInv, Ids
<1>9. DayOrders'
    BY <1>5 DEF DayOrders
<1>10. One' /\ OneSaved'
    BY <1>1, <1>2, <1>3, <1>4 DEF IInv, One, OneSaved, For
<1>11. Unsettled'
    BY <1>1, <1>2, <1>4 DEF IInv, Unsettled, For
<1>12. Kept'
    BY <1>1, <1>2, <1>3, <1>4 DEF IInv, Kept
<1>13. ExitsHeld' /\ Covered'
    BY <1>1, <1>3 DEF IInv, ExitsHeld, Covered, Reconciling
<1>14. Backed'
    BY <1>1, <1>2, <1>3, <1>4 DEF IInv, Backed
<1> QED BY <1>6, <1>7, <1>8, <1>9, <1>10, <1>11, <1>12, <1>13, <1>14 DEF IInv

-----------------------------------------------------------------------------
(* The invariant and what follows *)

LEMMA NextInv == ASSUME IInv, [Next]_vars PROVE IInv'
<1>1. CASE Settle
    BY <1>1, PollUnknownInv, PollInvalidInv, PollTerminalInv, PollWorkingInv, CancelLateInv,
       CancelInvalidInv, SettledInv DEF Settle
<1>2. CASE Buy
    BY <1>2, NothingToBuyInv, TakePlannedInv, SkipEntryInv, QuoteEntryInv, SubmitWorkingInv,
       SubmitFilledInv, SubmitDeadInv, SubmitRaisesInv DEF Buy
<1>3. CASE Manage
    BY <1>3, LeaveAloneInv, ReadExitInv, CancelExitInv, SellFilledInv, SellPendingInv,
       SellRaisesInv DEF Manage
<1>3a. CASE Reconcile \/ Persist \/ StartTick \/ Plan \/ EodClose \/ Restart
    BY <1>3a, ReconcileInv, PersistInv, StartTickInv, PlanInv, EodCloseInv, RestartInv
<1>4. CASE Environment
    BY <1>4, FillInv, EndsInv, RejectsInv, SellFillsInv, SellEndsInv, OutageEndsInv,
       TimePassesInv, CrashInv
    DEF Environment
<1>5. CASE UNCHANGED vars
    BY <1>5 DEF vars, IInv, TypeOK, Control, Ids, DayOrders, One, OneSaved, Unsettled, Kept,
        ExitsHeld, Backed, Covered, Live, For, Known, Open, Reconciling
<1> QED BY <1>1, <1>2, <1>3, <1>3a, <1>4, <1>5 DEF Next, Runtime, InJob

LEMMA InitInv == Init => IInv
<1> SUFFICES ASSUME Init PROVE IInv
    OBVIOUS
<1>1. /\ Empty \in Saved
      /\ [o \in Orders |-> NoOrder] \in [Orders -> Order]
    BY NobodyIs, SizeAssumption
    DEF Empty, Saved, NoRecord, Record, Ages, NoOrder, Order
<1>a. Empty.positions \in [Tickers -> Nat] /\ Empty.pending \in [Orders -> Record]
    BY <1>1 DEF Saved
<1>2. TypeOK
  <2>1. positions \in [Tickers -> Nat] /\ pending \in [Orders -> Record] /\ snap \in Saved
      BY <1>1, <1>a DEF Init
  <2>2. orders \in [Orders -> Order] /\ held \in [Tickers -> Int]
      BY <1>1 DEF Init
  <2>3. crashes \in 0..MaxCrashes /\ cur \in Orders \cup Tickers
      BY NobodyIs, FlagAssumption DEF Init
  <2>4. /\ exits \in [Tickers -> SUBSET Exits] /\ unseen \in [Tickers -> Nat]
        /\ sells \in [Exits -> Sell]
      BY NobodyIs DEF Init, Empty, Sell
  <2> QED BY <2>1, <2>2, <2>3, <2>4 DEF Init, TypeOK
<1>3. \A o \in Orders : pending[o].st = "none" /\ snap.pending[o].st = "none" /\ ~Known(o)
                        /\ ~Live(o)
    BY DEF Init, Empty, NoRecord, NoOrder, Known, Live
<1>4. Control /\ Ids /\ DayOrders /\ One /\ OneSaved /\ Unsettled /\ Kept
    BY <1>3 DEF Init, Control, Ids, DayOrders, One, OneSaved, Unsettled, Kept, For, Open
<1>5. ExitsHeld /\ Backed /\ Covered
    BY <1>3, SizeAssumption DEF Init, ExitsHeld, Backed, Covered, Live, Empty, Reconciling
<1> QED BY <1>2, <1>4, <1>5 DEF IInv

LEMMA Invariance == Spec => []IInv
<1>1. IInv /\ [Next]_vars => IInv'
    BY NextInv
<1> QED BY InitInv, <1>1, PTL DEF Spec

(* TypeCorrect: the state of the entry path keeps its types: no quantity   *)
(* the mirror, a record or a snapshot holds is ever negative.              *)
THEOREM TypeCorrect == Spec => []TypeOK
<1>1. IInv => TypeOK
    BY DEF IInv
<1> QED BY Invariance, <1>1, PTL

(* MirrorIsCovered: while manage_positions runs, the mirror of a name with *)
(* no exit pending claims no more shares than the account holds, but for   *)
(* what sells without an id took since the book last looked; through       *)
(* crashes and lost snapshots, unless a restart had to go on without a     *)
(* reconcile.                                                              *)
THEOREM MirrorIsCovered == Spec => []MirrorCovered
<1>1. IInv => MirrorCovered
    BY DEF IInv, ExitsHeld, Backed, Covered, Live, Reconciling, MirrorCovered
<1> QED BY Invariance, <1>1, PTL

-----------------------------------------------------------------------------
(* What is accounted for *)

(* What o may still fill.                                                  *)
Rest(o) == IF Live(o) THEN orders[o].left ELSE 0

(* What the deaths of the process may have put out of sight.               *)
Credit == crashes * Size

(* Of the shares of t held or on offer, all but the credit are among those *)
(* that are explained, and those on offer among these rest.                *)
Explained(t, those, rest) ==
    /\ held[t] + OnOffer(t) - those <= Credit
    /\ OnOffer(t) - rest <= Credit

Tracked(o, t) == For(pending, o, t) /\ Known(o)

(* What explains the shares of a name is its tracked order, and the mirror *)
(* when there is none; nothing, until the process is up again; and there   *)
(* is at most one entry that nothing has to explain.                       *)
AccountedFor(t) ==
    /\ Explained(t, Size, Size)
    /\ pc = "down" \/ job = "setup" => Explained(t, 0, 0)
    /\ (\A o \in Orders : ~Tracked(o, t)) => Explained(t, positions[t], 0)
    /\ \A o \in Orders : Tracked(o, t) => Explained(t, orders[o].filled + Rest(o), Rest(o))

Accounted == \A t \in Tickers : AccountedFor(t)

(* The orders of a name are finitely many, and what they sum to is a Nat.  *)
LEMMA Terms ==
    ASSUME TypeOK, NEW S \in SUBSET Orders
    PROVE  /\ IsFiniteSet(S)
           /\ \A o \in S : /\ [p \in Orders |-> orders[p].filled][o] \in Nat
                           /\ [p \in Orders |-> orders[p].left][o] \in Nat
BY SetsAssumption, SizeAssumption, FS_Subset DEF TypeOK, Order

LiveOf(t) == {o \in Orders : Live(o) /\ orders[o].ticker = t}

Counts ==
    /\ Credit \in Nat /\ Size \in Nat
    /\ \A t \in Tickers : OnOffer(t) \in Nat /\ held[t] \in Int /\ positions[t] \in Nat
    /\ \A o \in Orders : /\ orders[o].ticker \in Tickers /\ Rest(o) \in Nat
                         /\ orders[o].left \in Nat /\ orders[o].filled \in Nat

(* No quantity but a holding is negative, before a step or after it.       *)
LEMMA Quantities == TypeOK => Counts
<1> SUFFICES ASSUME TypeOK PROVE Counts
    OBVIOUS
<1>1. Credit \in Nat
  <2>1. crashes \in Nat /\ Size \in Nat
      BY SizeAssumption, FlagAssumption DEF TypeOK
  <2>2. \A m, n \in Nat : m * n \in Nat
      OBVIOUS
  <2> QED BY <2>1, <2>2 DEF Credit
<1>2. ASSUME NEW t \in Tickers PROVE OnOffer(t) \in Nat
  <2> DEFINE f == [o \in Orders |-> orders[o].left]
  <2>1. LiveOf(t) \in SUBSET Orders
      BY DEF LiveOf
  <2>2. IsFiniteSet(LiveOf(t)) /\ \A o \in LiveOf(t) : f[o] \in Nat
      BY <2>1, Terms
  <2>3. SumFunctionOnSet(f, LiveOf(t)) \in Nat
    <3> HIDE DEF f
    <3> QED BY <2>2, SumNat
  <2> QED BY <2>3 DEF OnOffer, LiveOf
<1> QED BY <1>1, <1>2, SizeAssumption DEF TypeOK, Order, Rest, Counts

LEMMA QuantitiesNext == TypeOK' => Counts'
BY Quantities, PTL

(* A live order offers what is left of it.                                 *)
LEMMA OfferOf ==
    ASSUME TypeOK, NEW t \in Tickers, NEW q \in Orders, orders[q].ticker = t
    PROVE  Rest(q) <= OnOffer(t)
<1> DEFINE f == [o \in Orders |-> orders[o].left]
<1>1. LiveOf(t) \in SUBSET Orders
    BY DEF LiveOf
<1>2. IsFiniteSet(LiveOf(t)) /\ \A o \in LiveOf(t) : f[o] \in Nat
    BY <1>1, Terms
<1>3. CASE Live(q)
  <2>1. q \in LiveOf(t)
      BY <1>3 DEF LiveOf
  <2>2. SumFunctionOnSet(f, LiveOf(t)) >= f[q]
    <3> HIDE DEF f
    <3> QED BY <1>2, <2>1, SumAtLeast
  <2>3. OnOffer(t) >= orders[q].left
      BY <2>2 DEF OnOffer, LiveOf
  <2> QED BY <1>3, <2>3, Quantities DEF Rest, Counts
<1>4. CASE ~Live(q)
    BY <1>4, Quantities DEF Rest, Counts
<1> QED BY <1>3, <1>4

(* No order is placed and none fills.                                      *)
NothingNew ==
    \A o \in Orders : Live(o)' => /\ Live(o) /\ orders'[o].left = orders[o].left
                                  /\ orders'[o].ticker = orders[o].ticker

(* Then the offers of a name only go down, and by all of an order that     *)
(* ends.                                                                   *)
LEMMA OffersEnd ==
    ASSUME TypeOK, TypeOK', NothingNew, NEW t \in Tickers
    PROVE  /\ OnOffer(t)' <= OnOffer(t)
           /\ \A q \in Orders : orders[q].ticker = t =>
                  OnOffer(t)' - Rest(q)' <= OnOffer(t) - Rest(q)
<1> DEFINE f == [o \in Orders |-> orders[o].left]
           g == [o \in Orders |-> orders'[o].left]
           S == LiveOf(t)
           T == LiveOf(t)'
<1>1. S \in SUBSET Orders /\ T \in SUBSET S
    BY DEF NothingNew, LiveOf
<1>2. IsFiniteSet(S) /\ IsFiniteSet(T) /\ \A o \in S : f[o] \in Nat
    BY <1>1, Terms, FS_Subset
<1>3. \A o \in T : g[o] = f[o]
    BY <1>1 DEF NothingNew, LiveOf
<1>4. OnOffer(t) = SumFunctionOnSet(f, S) /\ OnOffer(t)' = SumFunctionOnSet(g, T)
    BY DEF OnOffer, LiveOf
<1>5. IsFiniteSet(S \ T)
    BY <1>2, FS_Subset
<1>6. SumFunctionOnSet(f, S) = SumFunctionOnSet(g, T) + SumFunctionOnSet(f, S \ T)
  <2> HIDE DEF f, g, S, T
  <2>1. SumFunctionOnSet(f, S) = SumFunctionOnSet(f, T) + SumFunctionOnSet(f, S \ T)
      BY <1>1, <1>2, SumSplit
  <2>2. SumFunctionOnSet(g, T) = SumFunctionOnSet(f, T)
      BY <1>2, <1>3, SumEqual
  <2> QED BY <2>1, <2>2
<1>7. SumFunctionOnSet(f, S \ T) \in Nat
  <2> HIDE DEF f, S, T
  <2> QED BY <1>2, <1>5, SumNat
<1>8. ASSUME NEW q \in Orders, orders[q].ticker = t
      PROVE  Rest(q) - Rest(q)' <= SumFunctionOnSet(f, S \ T)
  <2>1. CASE q \in S \ T
    <3>1. SumFunctionOnSet(f, S \ T) >= f[q]
      <4> HIDE DEF f, S, T
      <4> QED BY <1>2, <1>5, <2>1, SumAtLeast
    <3>2. Rest(q) = f[q] /\ Rest(q)' \in Nat
        BY <2>1, Quantities DEF Rest, LiveOf, TypeOK, Order, Counts
    <3>3. f[q] \in Nat
        BY <1>2, <2>1
    <3> HIDE DEF f, S, T
    <3> QED BY <1>7, <3>1, <3>2, <3>3
  <2>2. CASE q \notin S
    <3>1. Rest(q) = 0 /\ Rest(q)' = 0
        BY <1>8, <2>2 DEF Rest, LiveOf, NothingNew
    <3> HIDE DEF f, S, T
    <3> QED BY <1>7, <3>1
  <2>3. CASE q \in T
    <3>1. Rest(q) = orders[q].left /\ Rest(q)' = orders[q].left /\ orders[q].left \in Nat
        BY <1>1, <2>3, Quantities DEF Rest, LiveOf, NothingNew, Counts
    <3> HIDE DEF f, S, T
    <3> QED BY <1>7, <3>1
  <2> QED BY <2>1, <2>2, <2>3
<1>9. OnOffer(t) \in Nat /\ OnOffer(t)' \in Nat
  <2>1. OnOffer(t) \in Nat
      BY Quantities DEF Counts
  <2>2. SumFunctionOnSet(g, T) \in Nat
    <3>1. \A o \in T : g[o] \in Nat
        BY <1>1, <1>2, <1>3
    <3> HIDE DEF g, T
    <3> QED BY <1>2, <3>1, SumNat
  <2> QED BY <1>4, <2>1, <2>2
<1>10. \A q \in Orders : Rest(q) \in Nat /\ Rest(q)' \in Nat
    BY Quantities DEF Rest, TypeOK, Order, Counts
<1>11. PICK d \in Nat : d = SumFunctionOnSet(f, S \ T)
    BY <1>7
<1>12. OnOffer(t) = OnOffer(t)' + d
  <2> HIDE DEF f, g, S, T
  <2> QED BY <1>4, <1>6, <1>11
<1>13. \A q \in Orders : orders[q].ticker = t => Rest(q) - Rest(q)' <= d
    BY <1>8, <1>11
<1>14. ASSUME NEW q \in Orders, orders[q].ticker = t
       PROVE  OnOffer(t)' - Rest(q)' <= OnOffer(t) - Rest(q)
  <2>1. Rest(q) - Rest(q)' <= d /\ Rest(q) \in Nat /\ Rest(q)' \in Nat
      BY <1>10, <1>13, <1>14
  <2> QED BY <1>9, <1>11, <1>12, <2>1
<1>15. OnOffer(t)' <= OnOffer(t)
    BY <1>9, <1>11, <1>12
<1> QED BY <1>14, <1>15

(* The same sums of any orders os at the broker, to speak of two states.   *)
Offer(r, t)     == IF r.st \in {"working", "cancelling"} /\ r.ticker = t THEN r.left ELSE 0
Offering(os, t) == {o \in Orders : os[o].st \in {"working", "cancelling"} /\ os[o].ticker = t}
OfferSum(os, t) == SumFunctionOnSet([o \in Orders |-> os[o].left], Offering(os, t))

(* What one order offers, and what the others do.                          *)
LEMMA OfferSumWithout ==
    ASSUME NEW os \in [Orders -> Order], NEW t, NEW q \in Orders
    PROVE  OfferSum(os, t) = Offer(os[q], t)
                + SumFunctionOnSet([o \in Orders |-> os[o].left], Offering(os, t) \ {q})
<1> DEFINE f == [o \in Orders |-> os[o].left]
           S == Offering(os, t)
<1>1. IsFiniteSet(S) /\ \A o \in S : f[o] \in Nat
    BY SetsAssumption, SizeAssumption, FS_Subset DEF Offering, Order
<1>0. OfferSum(os, t) = SumFunctionOnSet(f, S)
    BY DEF OfferSum
<1>2. ASSUME q \in S PROVE SumFunctionOnSet(f, S) = Offer(os[q], t) + SumFunctionOnSet(f, S \ {q})
  <2>1. Offer(os[q], t) = f[q]
      BY <1>2 DEF Offer, Offering
  <2> HIDE DEF f, S
  <2>2. SumFunctionOnSet(f, S) = f[q] + SumFunctionOnSet(f, S \ {q})
      BY <1>1, <1>2, SumRemove
  <2> QED BY <2>1, <2>2
<1>3. ASSUME q \notin S PROVE SumFunctionOnSet(f, S) = Offer(os[q], t) + SumFunctionOnSet(f, S \ {q})
  <2>1. Offer(os[q], t) = 0 /\ S \ {q} = S
      BY <1>3 DEF Offer, Offering
  <2> HIDE DEF f, S
  <2>2. SumFunctionOnSet(f, S) \in Nat
      BY <1>1, SumNat
  <2> QED BY <2>1, <2>2
<1> QED BY <1>0, <1>2, <1>3

(* One order changes, and the offers by what it offers.                    *)
LEMMA OfferSumChanges ==
    ASSUME NEW os \in [Orders -> Order], NEW ps \in [Orders -> Order], NEW t,
           NEW q \in Orders, \A o \in Orders \ {q} : ps[o] = os[o]
    PROVE  OfferSum(ps, t) = OfferSum(os, t) - Offer(os[q], t) + Offer(ps[q], t)
<1> DEFINE f == [o \in Orders |-> os[o].left]
           g == [o \in Orders |-> ps[o].left]
           S == Offering(os, t) \ {q}
<1>1. Offering(ps, t) \ {q} = S
    BY DEF Offering
<1>2. IsFiniteSet(S) /\ \A o \in S : f[o] \in Nat /\ g[o] = f[o]
    BY SetsAssumption, SizeAssumption, FS_Subset DEF Offering, Order
<1>3. SumFunctionOnSet(f, S) = SumFunctionOnSet(g, S) /\ SumFunctionOnSet(f, S) \in Nat
  <2> HIDE DEF f, g, S
  <2> QED BY <1>2, SumEqual, SumNat
<1>4. /\ OfferSum(os, t) = Offer(os[q], t) + SumFunctionOnSet(f, S)
      /\ OfferSum(ps, t) = Offer(ps[q], t) + SumFunctionOnSet(g, S)
    BY <1>1, OfferSumWithout
<1>5. Offer(os[q], t) \in Nat /\ Offer(ps[q], t) \in Nat
    BY SizeAssumption DEF Offer, Order
<1> HIDE DEF f, g, S
<1> QED BY <1>3, <1>4, <1>5

(* The same of the orders at the broker before and after a step.           *)
LEMMA OrderChanges ==
    ASSUME TypeOK, TypeOK', NEW t, NEW q \in Orders, \A o \in Orders \ {q} : orders'[o] = orders[o]
    PROVE  OnOffer(t)' = OnOffer(t) - Offer(orders[q], t) + Offer(orders'[q], t)
<1>1. OnOffer(t) = OfferSum(orders, t) /\ OnOffer(t)' = OfferSum(orders', t)
    BY DEF OnOffer, OfferSum, Offering, Live
<1>2. orders \in [Orders -> Order] /\ orders' \in [Orders -> Order]
    BY DEF TypeOK
<1> HIDE DEF OnOffer
<1> QED BY <1>1, <1>2, OfferSumChanges

-----------------------------------------------------------------------------
(* The process is not stopped by the step.                                 *)
StaysUp ==
    crashes' = crashes /\ (pc' = "down" \/ job' = "setup" => pc = "down" \/ job = "setup")

(* The step adds nothing to the shares of t and moves none of them.        *)
SameName(t) ==
    /\ held'[t] = held[t] /\ positions'[t] = positions[t]
    /\ OnOffer(t)' <= OnOffer(t)
    /\ \A o \in Orders : Tracked(o, t)' <=> Tracked(o, t)
    /\ \A o \in Orders : Tracked(o, t)' =>
           /\ orders'[o].filled = orders[o].filled
           /\ OnOffer(t)' - Rest(o)' <= OnOffer(t) - Rest(o)

(* What was explained of the name is explained after it.                   *)
LEMMA SameNameAccounted ==
    ASSUME TypeOK, TypeOK', Accounted, StaysUp, NEW t \in Tickers, SameName(t)
    PROVE  AccountedFor(t)'
<1>1. /\ OnOffer(t)' <= OnOffer(t) /\ OnOffer(t) \in Nat /\ OnOffer(t)' \in Nat
      /\ held'[t] = held[t] /\ held[t] \in Int
      /\ positions'[t] = positions[t] /\ positions[t] \in Nat
      /\ Credit' = Credit /\ Credit \in Nat /\ Size \in Nat
  <2>1. OnOffer(t)' \in Nat
      BY QuantitiesNext DEF Counts
  <2> QED BY <2>1, Quantities DEF StaysUp, SameName, Credit, Counts
<1>0. AccountedFor(t)
    BY DEF Accounted
<1>2. Explained(t, Size, Size)'
    BY <1>0, <1>1 DEF AccountedFor, Explained
<1>3. pc' = "down" \/ job' = "setup" => Explained(t, 0, 0)'
    BY <1>0, <1>1 DEF AccountedFor, Explained, StaysUp
<1>4. (\A o \in Orders : ~Tracked(o, t)') => Explained(t, positions[t], 0)'
    BY <1>0, <1>1 DEF AccountedFor, Explained, SameName
<1>5. ASSUME NEW o \in Orders, Tracked(o, t)'
      PROVE  Explained(t, orders[o].filled + Rest(o), Rest(o))'
  <2>1. /\ Tracked(o, t) /\ orders'[o].filled = orders[o].filled
        /\ OnOffer(t)' - Rest(o)' <= OnOffer(t) - Rest(o)
      BY <1>5 DEF SameName
  <2>2. Rest(o) \in Nat /\ Rest(o)' \in Nat /\ orders[o].filled \in Nat
      BY Quantities, QuantitiesNext DEF Counts
  <2>3. Explained(t, orders[o].filled + Rest(o), Rest(o))
      BY <1>0, <2>1 DEF AccountedFor
  <2> QED BY <1>1, <2>1, <2>2, <2>3 DEF Explained
<1> QED BY <1>2, <1>3, <1>4, <1>5 DEF AccountedFor

(* The same of every name.                                                 *)
SameBook ==
    /\ UNCHANGED <<held, positions>>
    /\ \A o \in Orders : Known(o)' => orders'[o].filled = orders[o].filled
    /\ \A t \in Tickers : \A o \in Orders : Tracked(o, t)' <=> Tracked(o, t)

(* When no order is placed or fills, each name is the same.                *)
LEMMA SameBookAccounted ==
    ASSUME TypeOK, TypeOK', Ids, Accounted, StaysUp, NothingNew, SameBook
    PROVE  Accounted'
<1> SUFFICES ASSUME NEW t \in Tickers PROVE AccountedFor(t)'
    BY DEF Accounted
<1>1. OnOffer(t)' <= OnOffer(t)
    BY OffersEnd
<1>2. ASSUME NEW o \in Orders, Tracked(o, t)'
      PROVE  /\ orders'[o].filled = orders[o].filled
             /\ OnOffer(t)' - Rest(o)' <= OnOffer(t) - Rest(o)
  <2>1. orders[o].ticker = t /\ Known(o)'
      BY <1>2 DEF Ids, Tracked, For, SameBook
  <2> QED BY <2>1, OffersEnd DEF SameBook
<1>3. SameName(t)
    BY <1>1, <1>2 DEF SameName, SameBook
<1> QED BY <1>3, SameNameAccounted

(* In particular when nothing of all this moves.                           *)
LEMMA IdleAccounted ==
    ASSUME IInv, IInv', Accounted, UNCHANGED <<positions, pending, orders, held, crashes>>,
           StaysUp
    PROVE  Accounted'
<1>1. NothingNew /\ SameBook
    BY DEF NothingNew, SameBook, Tracked, For, Known, Live
<1> QED BY <1>1, SameBookAccounted DEF IInv

(* The steps that touch neither the book's shares nor an order.            *)
LEMMA RuntimeIdleAccounted ==
    ASSUME IInv, IInv', Accounted,
           \/ \E o \in Orders : PollInvalid(o)
           \/ \E t \in Tickers : SkipEntry(t) \/ QuoteEntry(t)
           \/ CancelInvalid \/ Settled \/ NothingToBuy \/ TakePlanned
           \/ SubmitDead \/ SubmitRaises \/ StartTick \/ Plan \/ EodClose
           \/ \E t \in Tickers : LeaveAlone(t) \/ \E q \in 0..positions[t] : SellPending(t, q)
           \/ SellRaises \/ (\E s \in Exits : SellEnds(s))
           \/ OutageEnds \/ UNCHANGED vars
    PROVE  Accounted'
<1>1. UNCHANGED <<positions, pending, orders, held, crashes>>
    BY DEF PollInvalid, SkipEntry, QuoteEntry, CancelInvalid, Settled, NothingToBuy, TakePlanned,
           SubmitDead, SubmitRaises, StartTick, Plan, EodClose, LeaveAlone, SellPending,
           SellRaises, SellEnds, OutageEnds,
           Raises, vars
<1>2. StaysUp
    BY DEF PollInvalid, SkipEntry, QuoteEntry, CancelInvalid, Settled, NothingToBuy, TakePlanned,
           SubmitDead, SubmitRaises, StartTick, Plan, EodClose, LeaveAlone, SellPending,
           SellRaises, SellEnds, OutageEnds,
           Raises, StaysUp, vars
<1> QED BY <1>1, <1>2, IdleAccounted

(* An order the broker does not know explains nothing.                     *)
LEMMA PollUnknownAccounted ==
    ASSUME IInv, IInv', Accounted, NEW o \in Orders, PollUnknown(o) PROVE Accounted'
<1>1. \A p \in Orders \ {o} : pending'[p] = pending[p]
    BY DEF IInv, TypeOK, PollUnknown, forget
<1>2. NothingNew
    BY DEF PollUnknown, NothingNew, Live
<1>3. StaysUp /\ SameBook
    BY <1>1 DEF PollUnknown, StaysUp, SameBook, Tracked, For, Known
<1> QED BY <1>2, <1>3, SameBookAccounted DEF IInv

(* A poll that finds the order working changes what the record says of it. *)
LEMMA PollWorkingAccounted ==
    ASSUME IInv, IInv', Accounted, NEW o \in Orders, PollWorking(o) PROVE Accounted'
<1>0. pending[o].st # "none"
    BY DEF IInv, Control, PollWorking, Settling, Open
<1>1. /\ pending'[o].st # "none" /\ pending'[o].ticker = pending[o].ticker
      /\ \A p \in Orders \ {o} : pending'[p] = pending[p]
    BY <1>0, AdvanceTypes DEF IInv, PollWorking
<1>2. NothingNew
    BY DEF PollWorking, NothingNew, Live
<1>3. \A p \in Orders, t \in Tickers : Tracked(p, t)' <=> Tracked(p, t)
    BY <1>0, <1>1 DEF PollWorking, Tracked, For, Known
<1>4. StaysUp /\ SameBook
    BY <1>3 DEF PollWorking, Settling, StaysUp, SameBook
<1> QED BY <1>2, <1>4, SameBookAccounted DEF IInv

(* An order that ends takes back its offer.                                *)
LEMMA EndsAccounted ==
    ASSUME IInv, IInv', Accounted, NEW o \in Orders, Ends(o) \/ Rejects(o) PROVE Accounted'
<1>1. \A p \in Orders : /\ orders'[p].left = orders[p].left
                        /\ orders'[p].filled = orders[p].filled
                        /\ orders'[p].ticker = orders[p].ticker
                        /\ Known(p)' <=> Known(p)
                        /\ Live(p)' => Live(p)
    BY DEF IInv, TypeOK, Order, Ends, Rejects, Known, Live
<1>2. UNCHANGED <<positions, pending, pc, job, held, crashes>>
    BY DEF Ends, Rejects
<1>3. NothingNew /\ StaysUp /\ SameBook
    BY <1>1, <1>2 DEF StaysUp, NothingNew, SameBook, Tracked, For
<1> QED BY <1>3, SameBookAccounted DEF IInv

(* The close ends every order, and overnight the records age.              *)
LEMMA TimePassesAccounted ==
    ASSUME IInv, IInv', Accounted, TimePasses PROVE Accounted'
<1>1. \A p \in Orders : /\ orders'[p].left = orders[p].left
                        /\ orders'[p].filled = orders[p].filled
                        /\ orders'[p].ticker = orders[p].ticker
                        /\ Known(p)' <=> Known(p)
                        /\ Live(p)' => Live(p)
  <2>1. CASE orders' = orders
      BY <2>1 DEF Known, Live
  <2>2. CASE orders' = [o \in Orders |-> IF Live(o) THEN [orders[o] EXCEPT !.st = "done"] ELSE orders[o]]
      BY <2>2 DEF IInv, TypeOK, Order, Known, Live
  <2> QED BY <2>1, <2>2 DEF TimePasses
<1>2. \A o \in Orders : pending'[o].st = pending[o].st /\ pending'[o].ticker = pending[o].ticker
    BY OlderKeeps DEF IInv, TypeOK, TimePasses
<1>3. UNCHANGED <<positions, pc, job, held, crashes>>
    BY DEF TimePasses
<1>4. NothingNew /\ StaysUp /\ SameBook
    BY <1>1, <1>2, <1>3 DEF StaysUp, NothingNew, SameBook, Tracked, For
<1> QED BY <1>4, SameBookAccounted DEF IInv

(* Settling moves what the order filled to the mirror, which by One had    *)
(* nothing of the name, and the order is over.                             *)
LEMMA FinishAccounted ==
    ASSUME IInv, IInv', Accounted, StaysUp, NothingNew, NEW q \in Orders, Finish(q),
           pending[q].st # "none", Known(q), ~Live(q)', UNCHANGED held,
           \A o \in Orders : /\ orders'[o].filled = orders[o].filled
                             /\ Known(o)' <=> Known(o)
    PROVE  Accounted'
<1>0. TypeOK /\ TypeOK' /\ Ids
    BY DEF IInv
<1>a. PICK t \in Tickers : t = pending[q].ticker
    BY <1>0 DEF TypeOK, Record
<1>1. Tracked(q, t) /\ orders[q].ticker = t
    BY <1>0, <1>a DEF Tracked, For, Ids
<1>2. /\ positions[t] = 0
      /\ \A o \in Orders : Tracked(o, t) => o = q
    BY <1>1 DEF IInv, One, Tracked
<1>3. /\ positions'[t] = orders[q].filled
      /\ \A u \in Tickers \ {t} : positions'[u] = positions[u]
  <2>1. orders[q].filled \in Nat
      BY <1>0, Quantities DEF Counts
  <2> QED BY <1>0, <1>a, <1>2, <2>1 DEF TypeOK, Finish
<1>4. \A o \in Orders : /\ pending'[o].st # "none" <=> pending[o].st # "none" /\ o # q
                        /\ o # q => pending'[o] = pending[o]
    BY <1>0 DEF TypeOK, Finish, forget, NoRecord
<1>5. \A o \in Orders : ~Tracked(o, t)'
    BY <1>2, <1>4 DEF Tracked, For
<1>6. AccountedFor(t)'
  <2>1. OnOffer(t)' <= OnOffer(t) /\ OnOffer(t)' - Rest(q)' <= OnOffer(t) - Rest(q)
      BY <1>0, <1>1, OffersEnd
  <2>2. Rest(q)' = 0
      BY DEF Rest
  <2>3. AccountedFor(t) /\ Explained(t, orders[q].filled + Rest(q), Rest(q))
      BY <1>1 DEF Accounted, AccountedFor
  <2>4. /\ OnOffer(t) \in Nat /\ OnOffer(t)' \in Nat /\ held[t] \in Int /\ held'[t] = held[t]
        /\ Credit \in Nat /\ Credit' = Credit /\ Size \in Nat
        /\ Rest(q) \in Nat /\ orders[q].filled \in Nat
      BY <1>0, <1>1, Quantities, QuantitiesNext DEF Counts, Credit, StaysUp
  <2>5. Explained(t, Size, Size)'
      BY <2>1, <2>3, <2>4 DEF AccountedFor, Explained
  <2>6. pc' = "down" \/ job' = "setup" => Explained(t, 0, 0)'
      BY <2>1, <2>3, <2>4 DEF AccountedFor, Explained, StaysUp
  <2>7. Explained(t, positions[t], 0)'
      BY <1>3, <2>1, <2>2, <2>3, <2>4 DEF Explained
  <2> QED BY <1>5, <2>5, <2>6, <2>7 DEF AccountedFor
<1>7. ASSUME NEW u \in Tickers \ {t} PROVE AccountedFor(u)'
  <2>1. \A o \in Orders : Tracked(o, u)' <=> Tracked(o, u)
      BY <1>a, <1>4 DEF Tracked, For
  <2>2. \A o \in Orders : Tracked(o, u) => orders[o].ticker = u
      BY <1>0 DEF Tracked, For, Ids
  <2>3. SameName(u)
      BY <1>0, <1>3, <2>1, <2>2, OffersEnd DEF SameName
  <2> QED BY <1>0, <2>3, SameNameAccounted
<1> QED BY <1>6, <1>7 DEF Accounted

(* An order that is found to be over is settled.                           *)
LEMMA PollTerminalAccounted ==
    ASSUME IInv, IInv', Accounted, NEW o \in Orders, PollTerminal(o) PROVE Accounted'
<1>1. pending[o].st # "none" /\ Known(o) /\ ~Live(o) /\ Finish(o)
    BY DEF IInv, Control, PollTerminal, Settling, Open, Status, TERMINAL_STATES, Live
<1>2. UNCHANGED <<orders, held, crashes, pc, job>>
    BY DEF PollTerminal
<1>3. StaysUp /\ NothingNew /\ ~Live(o)' /\ UNCHANGED held
    BY <1>1, <1>2 DEF StaysUp, NothingNew, Live
<1>4. \A p \in Orders : orders'[p].filled = orders[p].filled /\ (Known(p)' <=> Known(p))
    BY <1>2 DEF Known
<1> QED BY <1>1, <1>3, <1>4, FinishAccounted

(* The cancelled order is over, and settled, or is tracked as before.      *)
LEMMA CancelLateAccounted ==
    ASSUME IInv, IInv', Accounted, CancelLate PROVE Accounted'
<1>0. PICK q \in Orders : /\ q = cur /\ pending[q].st # "none" /\ Known(q)
    BY DEF IInv, Control, CancelLate
<1>1. StaysUp /\ UNCHANGED held
    BY DEF CancelLate, StaysUp
<1>2. \A o \in Orders : /\ orders'[o].ticker = orders[o].ticker
                        /\ orders'[o].left = orders[o].left
                        /\ orders'[o].filled = orders[o].filled
                        /\ Known(o)' <=> Known(o)
                        /\ Live(o)' => Live(o)
    BY <1>0 DEF IInv, TypeOK, CancelLate, Order, Known, Live
<1>3. NothingNew
    BY <1>2 DEF NothingNew
<1>4. CASE Finish(q) /\ Status(q) \in TERMINAL_STATES
  <2>1. ~Live(q)
      BY <1>4 DEF Status, TERMINAL_STATES, Live
  <2>2. ~Live(q)'
      BY <1>2, <2>1
  <2> QED BY <1>0, <1>1, <1>2, <1>3, <1>4, <2>2, FinishAccounted
<1>5. CASE Finish(q) /\ orders' = [orders EXCEPT ![q].st = "done"]
  <2>1. ~Live(q)'
    <3>1. orders[q] \in Order
        BY <1>0 DEF IInv, TypeOK
    <3>2. [orders[q] EXCEPT !.st = "done"].st = "done"
        BY <3>1 DEF Order
    <3>3. orders'[q] = [orders[q] EXCEPT !.st = "done"]
        BY <1>0, <1>5 DEF IInv, TypeOK
    <3> QED BY <3>2, <3>3 DEF Live
  <2> QED BY <1>0, <1>1, <1>2, <1>3, <1>5, <2>1, FinishAccounted
<1>6. CASE /\ Live(q) /\ UNCHANGED positions
           /\ pending' = [pending EXCEPT ![q].st = Status(q), ![q].filled = orders[q].filled]
  <2>1. Status(q) \notin TERMINAL_STATES
      BY <1>6 DEF Status, TERMINAL_STATES, Live
  <2>2. /\ pending'[q].st # "none" /\ pending'[q].ticker = pending[q].ticker
        /\ \A p \in Orders \ {q} : pending'[p] = pending[p]
      BY <1>0, <1>6, <2>1, AdvanceTypes DEF IInv
  <2>3. \A p \in Orders, t \in Tickers : Tracked(p, t)' <=> Tracked(p, t)
      BY <1>0, <1>2, <2>2 DEF Tracked, For
  <2>4. SameBook
      BY <1>1, <1>2, <1>6, <2>3 DEF SameBook
  <2> QED BY <1>1, <1>3, <2>4, SameBookAccounted DEF IInv
<1>7. CASE UNCHANGED <<positions, pending, orders>>
  <2>1. SameBook
      BY <1>1, <1>7 DEF SameBook, Tracked, For, Known
  <2> QED BY <1>1, <1>3, <2>1, SameBookAccounted DEF IInv
<1> QED BY <1>0, <1>4, <1>5, <1>6, <1>7 DEF CancelLate

(* A name is bought when no known order of it is tracked and the mirror    *)
(* has none of it: all there is of it is credit, and one entry more has    *)
(* its place.                                                              *)
LEMMA BeforeBuying ==
    ASSUME IInv, Accounted, pc = "submit"
    PROVE  /\ cur \in Tickers /\ positions[cur] = 0
           /\ \A o \in Orders : ~Tracked(o, cur)
           /\ Explained(cur, 0, 0)
<1>1. cur \in Tickers /\ positions[cur] = 0
    BY DEF IInv, Control
<1>2. \A o \in Orders : ~Tracked(o, cur)
    BY <1>1 DEF IInv, Unsettled, Tracked
<1>3. AccountedFor(cur)
    BY <1>1 DEF Accounted
<1> QED BY <1>1, <1>2, <1>3 DEF AccountedFor

(* The new order offers an entry and is tracked for it.                    *)
LEMMA SubmitWorkingAccounted ==
    ASSUME IInv, IInv', Accounted, SubmitWorking PROVE Accounted'
<1>0. TypeOK /\ TypeOK' /\ Ids
    BY DEF IInv
<1>1. PICK q \in Orders :
         /\ ~Live(q) /\ pending[q].st = "none"
         /\ orders' = [orders EXCEPT ![q] = [ticker |-> cur, left |-> Size, filled |-> 0,
                                             st |-> "working"]]
         /\ pending' = [pending EXCEPT ![q] = [st |-> "open", ticker |-> cur,
                                               filled |-> 0, age |-> "today"]]
    BY DEF SubmitWorking, Unused
<1>2. PICK c \in Tickers : c = cur
    BY BeforeBuying DEF SubmitWorking
<1>3. UNCHANGED <<held, positions, job, crashes>> /\ pc' = "buy" /\ job = "tick" /\ StaysUp
    BY DEF SubmitWorking, IInv, Control, StaysUp
<1>4. /\ \A o \in Orders \ {q} : orders'[o] = orders[o] /\ pending'[o] = pending[o]
      /\ orders'[q] = [ticker |-> c, left |-> Size, filled |-> 0, st |-> "working"]
      /\ pending'[q] = [st |-> "open", ticker |-> c, filled |-> 0, age |-> "today"]
    BY <1>0, <1>1, <1>2 DEF TypeOK
<1>5. \A t \in Tickers : OnOffer(t)' = OnOffer(t) + (IF t = c THEN Size ELSE 0)
  <2> TAKE t \in Tickers
  <2>1. Offer(orders[q], t) = 0
      BY <1>1 DEF Offer, Live
  <2>2. Offer(orders'[q], t) = IF t = c THEN Size ELSE 0
      BY <1>4 DEF Offer
  <2>3. OnOffer(t)' = OnOffer(t) - Offer(orders[q], t) + Offer(orders'[q], t)
      BY <1>0, <1>4, OrderChanges
  <2>4. OnOffer(t) \in Nat /\ Size \in Nat
      BY <1>0, Quantities DEF Counts
  <2> QED BY <2>1, <2>2, <2>3, <2>4
<1>6. AccountedFor(c)'
  <2>1. /\ Explained(c, 0, 0)
        /\ \A o \in Orders : ~Tracked(o, c)
      BY <1>2, BeforeBuying DEF SubmitWorking
  <2>2. \A o \in Orders : Tracked(o, c)' <=> o = q
      BY <1>4, <2>1 DEF Tracked, For, Known
  <2>3. orders'[q].filled = 0 /\ Rest(q)' = Size
      BY <1>4 DEF Rest, Live
  <2>4. /\ OnOffer(c) \in Nat /\ held[c] \in Int /\ held'[c] = held[c]
        /\ Credit \in Nat /\ Credit' = Credit /\ Size \in Nat
        /\ OnOffer(c)' = OnOffer(c) + Size
      BY <1>0, <1>3, <1>5, Quantities DEF Counts, Credit
  <2>5. Explained(c, Size, Size)'
      BY <2>1, <2>4 DEF Explained
  <2>6. Explained(c, orders[q].filled + Rest(q), Rest(q))'
      BY <2>1, <2>3, <2>4 DEF Explained
  <2> QED BY <1>3, <2>2, <2>5, <2>6 DEF AccountedFor
<1>7. ASSUME NEW u \in Tickers \ {c} PROVE AccountedFor(u)'
  <2>1. \A o \in Orders : Tracked(o, u)' <=> Tracked(o, u)
      BY <1>1, <1>4 DEF Tracked, For, Known
  <2>2. OnOffer(u)' = OnOffer(u) /\ OnOffer(u) \in Nat
      BY <1>0, <1>5, Quantities DEF Counts
  <2>3. \A o \in Orders : Tracked(o, u)' => orders'[o] = orders[o] /\ Rest(o)' = Rest(o)
      BY <1>4 DEF Tracked, For, Rest, Live
  <2>4. \A o \in Orders : Rest(o) \in Nat
      BY <1>0, Quantities DEF Counts
  <2>5. SameName(u)
      BY <1>3, <2>1, <2>2, <2>3, <2>4 DEF SameName
  <2> QED BY <1>0, <1>3, <2>5, SameNameAccounted
<1> QED BY <1>6, <1>7 DEF Accounted

(* The entry that is filled at once is in the mirror.                      *)
LEMMA SubmitFilledAccounted ==
    ASSUME IInv, IInv', Accounted, SubmitFilled PROVE Accounted'
<1>0. TypeOK /\ TypeOK' /\ Ids
    BY DEF IInv
<1>1. PICK c \in Tickers : c = cur
    BY BeforeBuying DEF SubmitFilled
<1>2. UNCHANGED <<pending, orders, job, crashes>> /\ pc' = "buy" /\ job = "tick" /\ StaysUp
    BY DEF SubmitFilled, IInv, Control, StaysUp
<1>3. /\ held'[c] = held[c] + Size /\ positions'[c] = positions[c] + Size
      /\ \A u \in Tickers \ {c} : held'[u] = held[u] /\ positions'[u] = positions[u]
    BY <1>0, <1>1 DEF TypeOK, SubmitFilled
<1>4. \A t \in Tickers : OnOffer(t)' = OnOffer(t)
    BY <1>2 DEF OnOffer, Live
<1>5. \A t \in Tickers, o \in Orders : /\ Tracked(o, t)' <=> Tracked(o, t)
                                       /\ Rest(o)' = Rest(o)
    BY <1>2 DEF Tracked, For, Known, Rest, Live
<1>6. AccountedFor(c)'
  <2>1. /\ Explained(c, 0, 0) /\ positions[c] = 0
        /\ \A o \in Orders : ~Tracked(o, c)
      BY <1>1, BeforeBuying DEF SubmitFilled
  <2>2. /\ OnOffer(c) \in Nat /\ held[c] \in Int /\ OnOffer(c)' = OnOffer(c)
        /\ Credit \in Nat /\ Credit' = Credit /\ Size \in Nat
      BY <1>0, <1>2, <1>4, Quantities DEF Counts, Credit
  <2>3. Explained(c, Size, Size)' /\ Explained(c, positions[c], 0)'
      BY <1>3, <2>1, <2>2 DEF Explained
  <2> QED BY <1>2, <1>5, <2>1, <2>3 DEF AccountedFor
<1>7. ASSUME NEW u \in Tickers \ {c} PROVE AccountedFor(u)'
  <2>1. OnOffer(u) \in Nat /\ \A o \in Orders : Rest(o) \in Nat
      BY <1>0, Quantities DEF Counts
  <2>2. SameName(u)
      BY <1>2, <1>3, <1>4, <1>5, <2>1 DEF SameName
  <2> QED BY <1>0, <1>2, <2>2, SameNameAccounted
<1> QED BY <1>6, <1>7 DEF Accounted

(* No order changes, and the account has no more of a name than before:    *)
(* the mirror explains as much as it did, or it takes over what is held of *)
(* a name that no order explains.                                          *)
LEMMA SoldAccounted ==
    ASSUME IInv, IInv', Accounted, StaysUp, UNCHANGED <<pending, orders>>,
           NEW t \in Tickers, held'[t] <= held[t],
           \/ positions'[t] = positions[t]
           \/ /\ \A o \in Orders : ~Tracked(o, t)
              /\ \/ held'[t] - positions'[t] <= held[t] - positions[t]
                 \/ held'[t] <= positions'[t]
    PROVE  AccountedFor(t)'
<1>0. TypeOK /\ TypeOK' /\ AccountedFor(t)
    BY DEF IInv, Accounted
<1>1. /\ OnOffer(t)' = OnOffer(t)
      /\ \A o \in Orders : (Tracked(o, t)' <=> Tracked(o, t)) /\ Rest(o)' = Rest(o)
    BY DEF OnOffer, Tracked, For, Known, Rest, Live
<1>2. /\ OnOffer(t) \in Nat /\ held[t] \in Int /\ positions[t] \in Nat
      /\ held'[t] \in Int /\ positions'[t] \in Nat
      /\ Credit \in Nat /\ Credit' = Credit /\ Size \in Nat
      /\ \A o \in Orders : Rest(o) \in Nat /\ orders[o].filled \in Nat
    BY <1>0, Quantities, QuantitiesNext DEF Counts, Credit, StaysUp
<1>3. Explained(t, Size, Size)'
    BY <1>0, <1>1, <1>2 DEF AccountedFor, Explained
<1>4. pc' = "down" \/ job' = "setup" => Explained(t, 0, 0)'
    BY <1>0, <1>1, <1>2 DEF AccountedFor, Explained, StaysUp
<1>5. ASSUME \A o \in Orders : ~Tracked(o, t) PROVE Explained(t, positions[t], 0)'
  <2>1. Explained(t, positions[t], 0)
      BY <1>0, <1>5 DEF AccountedFor
  <2> QED BY <1>1, <1>2, <2>1 DEF Explained
<1>6. ASSUME NEW o \in Orders, Tracked(o, t)
      PROVE  Explained(t, orders[o].filled + Rest(o), Rest(o))'
  <2>1. Explained(t, orders[o].filled + Rest(o), Rest(o))
      BY <1>0, <1>6 DEF AccountedFor
  <2>2. orders'[o].filled = orders[o].filled /\ Rest(o)' = Rest(o)
      BY <1>1
  <2> QED BY <1>1, <1>2, <2>1, <2>2 DEF Explained
<1> QED BY <1>1, <1>3, <1>4, <1>5, <1>6 DEF AccountedFor

(* The exits sell what the mirror explains, or leave it to the mirror to   *)
(* say what is held, of names with no tracked buy.                         *)
LEMMA ManageAccounted ==
    ASSUME IInv, IInv', Accounted, NEW u \in Tickers,
           ReadExit(u) \/ CancelExit(u) \/ \E q \in 0..positions[u] : SellFilled(u, q)
    PROVE  Accounted'
<1> SUFFICES ASSUME NEW t \in Tickers PROVE AccountedFor(t)'
    BY DEF Accounted
<1>0. TypeOK
    BY DEF IInv
<1>1. UNCHANGED <<pending, orders>> /\ StaysUp
    BY DEF ReadExit, CancelExit, SellFilled, StaysUp
<1>2. positions[u] > 0 /\ (\A o \in Orders : ~Tracked(o, u))
  <2>1. positions[u] > 0
    <3>1. CASE ReadExit(u) \/ CancelExit(u)
        BY <3>1 DEF IInv, ExitsHeld, ReadExit, CancelExit
    <3>2. CASE \E q \in 0..positions[u] : SellFilled(u, q)
        BY <1>0, <3>2 DEF SellFilled, Selling, TypeOK
    <3> QED BY <3>1, <3>2
  <2> QED BY <2>1 DEF IInv, One, Tracked
<1>3. /\ held'[t] <= held[t]
      /\ t # u => positions'[t] = positions[t]
      /\ \/ held'[u] - positions'[u] <= held[u] - positions[u]
         \/ held'[u] <= positions'[u]
  <2>1. CASE ReadExit(u)
      BY <1>0, <2>1, AdoptedIs DEF ReadExit, TypeOK
  <2>2. CASE CancelExit(u)
    <3>0. PICK s \in exits[u] : \E n \in 0..sells[s].left : held' = [held EXCEPT ![u] = @ - n]
        BY <2>2 DEF CancelExit
    <3>1. PICK n \in 0..sells[s].left : held' = [held EXCEPT ![u] = @ - n]
        BY <3>0
    <3>2. n \in Nat
        BY <1>0, <3>1 DEF TypeOK, Sell
    <3> QED BY <1>0, <2>2, <3>1, <3>2, AdoptedIs DEF CancelExit, TypeOK
  <2>3. CASE \E q \in 0..positions[u] : SellFilled(u, q)
    <3>1. PICK q \in 0..positions[u] : SellFilled(u, q)
        BY <2>3
    <3>2. q \in Nat
        BY <1>0 DEF TypeOK
    <3> QED BY <1>0, <3>1, <3>2 DEF SellFilled, Sold, TypeOK
  <2> QED BY <2>1, <2>2, <2>3
<1>4. CASE t = u
    BY <1>1, <1>2, <1>3, <1>4, SoldAccounted
<1>5. CASE t # u
    BY <1>1, <1>3, <1>5, SoldAccounted
<1> QED BY <1>4, <1>5

(* A sell at the broker takes from the account.                            *)
LEMMA SellFillsAccounted ==
    ASSUME IInv, IInv', Accounted, NEW s \in Exits, NEW n \in 1..sells[s].left, SellFills(s, n)
    PROVE  Accounted'
<1> SUFFICES ASSUME NEW t \in Tickers PROVE AccountedFor(t)'
    BY DEF Accounted
<1>1. UNCHANGED <<pending, orders, positions>> /\ StaysUp
    BY DEF SellFills, StaysUp
<1>2. held'[t] <= held[t]
    BY DEF IInv, TypeOK, Sell, SellFills, Sold
<1> QED BY <1>1, <1>2, SoldAccounted

(* A holding that is adopted is explained in full; a phantom that is       *)
(* dropped had nothing to explain.                                         *)
LEMMA ReconcileAccounted ==
    ASSUME IInv, IInv', Accounted, Reconcile PROVE Accounted'
<1> SUFFICES ASSUME NEW t \in Tickers PROVE AccountedFor(t)'
    BY DEF Accounted
<1>0. TypeOK
    BY DEF IInv
<1>1. UNCHANGED <<pending, orders, held>> /\ StaysUp
    BY DEF Reconcile, StaysUp, IInv, Control
<1>2. positions[t] > 0 \/ ~Pending(t) => \A o \in Orders : ~Tracked(o, t)
    BY <1>0 DEF IInv, TypeOK, One, Tracked, For, Pending, Open
<1>3. positions'[t] = positions[t] \/ ((positions[t] > 0 \/ ~Pending(t)) /\ held[t] <= positions'[t])
    BY <1>0 DEF Reconcile, Reconciled, Shielded, TypeOK
<1> QED BY <1>0, <1>1, <1>2, <1>3, SoldAccounted DEF TypeOK

(* An order that is dropped explains nothing: no record names it.          *)
LEMMA PersistAccounted ==
    ASSUME IInv, IInv', Accounted, Persist PROVE Accounted'
<1>1. \A o \in Orders : \/ orders'[o] = orders[o]
                        \/ orders'[o] = NoOrder /\ ~Live(o) /\ pending[o].st = "none"
    BY DEF Persist
<1>1a. NoOrder.st = "unknown"
    BY DEF NoOrder
<1>2. NothingNew
    BY <1>1, <1>1a DEF NothingNew, Live
<1>3. StaysUp /\ SameBook
    BY <1>1, <1>1a DEF Persist, StaysUp, SameBook, Tracked, For, Known
<1> QED BY <1>2, <1>3, SameBookAccounted DEF IInv

(* What the process knew is gone: one entry more may be out of sight.      *)
LEMMA CrashAccounted ==
    ASSUME IInv, IInv', Accounted, Crash PROVE Accounted'
<1> SUFFICES ASSUME NEW t \in Tickers PROVE AccountedFor(t)'
    BY DEF Accounted
<1>0. TypeOK /\ TypeOK'
    BY DEF IInv
<1>1. /\ UNCHANGED <<orders, held>> /\ crashes' = crashes + 1
      /\ positions'[t] = 0
      /\ \A o \in Orders : ~Tracked(o, t)'
    BY DEF Crash, Empty, NoRecord, Tracked, For
<1>2. Credit' = Credit + Size /\ Credit \in Nat /\ Size \in Nat
  <2>1. crashes \in Nat /\ Size \in Nat
      BY <1>0, SizeAssumption, FlagAssumption DEF TypeOK
  <2>2. \A m, n \in Nat : (m + 1) * n = m * n + n
      OBVIOUS
  <2> QED BY <1>0, <1>1, <2>1, <2>2, Quantities DEF Credit, Counts
<1>3. OnOffer(t)' = OnOffer(t) /\ OnOffer(t) \in Nat /\ held[t] \in Int
  <2>1. OnOffer(t)' = OnOffer(t)
      BY <1>1 DEF OnOffer, Live
  <2> QED BY <1>0, <2>1, Quantities DEF Counts
<1>4. Explained(t, Size, Size)
    BY DEF Accounted, AccountedFor
<1>5. Explained(t, Size, Size)' /\ Explained(t, 0, 0)' /\ Explained(t, positions[t], 0)'
    BY <1>1, <1>2, <1>3, <1>4 DEF Explained
<1> QED BY <1>1, <1>5 DEF AccountedFor

(* The new process starts from a snapshot: while nothing has to be         *)
(* explained, whatever it says explains enough.                            *)
LEMMA RestartAccounted ==
    ASSUME IInv, IInv', Accounted, Restart PROVE Accounted'
<1> SUFFICES ASSUME NEW t \in Tickers PROVE AccountedFor(t)'
    BY DEF Accounted
<1>0. TypeOK /\ TypeOK'
    BY DEF IInv
<1>1. UNCHANGED <<held, crashes>> /\ pc = "down"
    BY DEF Restart
<1>2. NothingNew
    BY DEF Restart, NothingNew, Live, NoOrder
<1>3. /\ OnOffer(t)' <= OnOffer(t) /\ OnOffer(t) \in Nat /\ OnOffer(t)' \in Nat
      /\ held[t] \in Int /\ held'[t] = held[t] /\ positions'[t] \in Nat
      /\ Credit \in Nat /\ Credit' = Credit /\ Size \in Nat
      /\ \A o \in Orders : Rest(o)' \in Nat /\ orders'[o].filled \in Nat
    BY <1>0, <1>1, <1>2, OffersEnd, Quantities, QuantitiesNext DEF Counts, Credit
<1>4. Explained(t, 0, 0)
    BY <1>1 DEF Accounted, AccountedFor
<1>5. /\ Explained(t, 0, 0)' /\ Explained(t, Size, Size)' /\ Explained(t, positions[t], 0)'
      /\ \A o \in Orders : Explained(t, orders[o].filled + Rest(o), Rest(o))'
    BY <1>3, <1>4 DEF Explained
<1> QED BY <1>5 DEF AccountedFor

(* A fill moves shares from the offers to the account, and from the rest   *)
(* of its order to what the order filled.                                  *)
LEMMA FillAccounted ==
    ASSUME IInv, IInv', Accounted, NEW q \in Orders, NEW n \in 1..Size, Fill(q, n)
    PROVE  Accounted'
<1> SUFFICES ASSUME NEW t \in Tickers PROVE AccountedFor(t)'
    BY DEF Accounted
<1>0. TypeOK /\ TypeOK' /\ Ids
    BY DEF IInv
<1>1. UNCHANGED <<pending, positions, pc, job, crashes>> /\ StaysUp
    BY DEF Fill, StaysUp
<1>2. /\ \A o \in Orders \ {q} : orders'[o] = orders[o]
      /\ Live(q) /\ n <= orders[q].left
      /\ orders'[q].ticker = orders[q].ticker
      /\ orders'[q].left = orders[q].left - n
      /\ orders'[q].filled = orders[q].filled + n
      /\ orders'[q].st = IF n = orders[q].left THEN "done" ELSE orders[q].st
    BY <1>0 DEF Fill, TypeOK, Order
<1>3. /\ OnOffer(t) \in Nat /\ held[t] \in Int /\ positions[t] \in Nat
      /\ Credit \in Nat /\ Credit' = Credit /\ Size \in Nat /\ n \in Nat
      /\ \A o \in Orders : Rest(o) \in Nat /\ orders[o].filled \in Nat /\ orders[o].left \in Nat
    BY <1>0, <1>1, Quantities DEF Counts, Credit
<1>4. \A o \in Orders : Rest(o)' = Rest(o) - (IF o = q THEN n ELSE 0)
    BY <1>2, <1>3 DEF Rest, Live
<1>5. OnOffer(t)' = OnOffer(t) - (IF orders[q].ticker = t THEN n ELSE 0)
  <2>1. OnOffer(t)' = OnOffer(t) - Offer(orders[q], t) + Offer(orders'[q], t)
      BY <1>0, <1>2, OrderChanges
  <2>2. Offer(orders[q], t) = IF orders[q].ticker = t THEN orders[q].left ELSE 0
      BY <1>2 DEF Offer, Live
  <2>3. Offer(orders'[q], t) = IF orders[q].ticker = t THEN orders[q].left - n ELSE 0
      BY <1>2, <1>3 DEF Offer, Live
  <2> QED BY <1>3, <2>1, <2>2, <2>3
<1>6. held'[t] = held[t] + (IF orders[q].ticker = t THEN n ELSE 0)
    BY <1>0, <1>3 DEF Fill, TypeOK
<1>7. \A o \in Orders : Known(o)' <=> Known(o)
    BY <1>0, <1>2 DEF Known, Live
<1>8. \A o \in Orders : Tracked(o, t)' <=> Tracked(o, t)
    BY <1>1, <1>7 DEF Tracked, For
<1>9. AccountedFor(t)
    BY DEF Accounted
<1>10. Explained(t, Size, Size)'
    BY <1>3, <1>5, <1>6, <1>9 DEF AccountedFor, Explained
<1>11. pc' = "down" \/ job' = "setup" => Explained(t, 0, 0)'
    BY <1>1, <1>3, <1>5, <1>6, <1>9 DEF AccountedFor, Explained
<1>12. (\A o \in Orders : ~Tracked(o, t)') => Explained(t, positions[t], 0)'
    BY <1>1, <1>3, <1>5, <1>6, <1>8, <1>9 DEF AccountedFor, Explained
<1>13. ASSUME NEW o \in Orders, Tracked(o, t)'
       PROVE  Explained(t, orders[o].filled + Rest(o), Rest(o))'
  <2>1. Tracked(o, t) /\ orders[o].ticker = t
      BY <1>0, <1>8, <1>13 DEF Ids, Tracked, For
  <2>2. Explained(t, orders[o].filled + Rest(o), Rest(o))
      BY <1>9, <2>1 DEF AccountedFor
  <2>3. /\ orders'[o].filled = orders[o].filled + (IF o = q THEN n ELSE 0)
        /\ Rest(o)' = Rest(o) - (IF o = q THEN n ELSE 0)
        /\ Rest(o) \in Nat /\ orders[o].filled \in Nat
      BY <1>2, <1>3, <1>4
  <2> QED BY <1>3, <1>5, <1>6, <2>1, <2>2, <2>3 DEF Explained
<1> QED BY <1>10, <1>11, <1>12, <1>13 DEF AccountedFor

(* Every step keeps the accounts.                                          *)
LEMMA NextAccounted == ASSUME IInv, IInv', Accounted, [Next]_vars PROVE Accounted'
<1>1. CASE Settle
    BY <1>1, PollUnknownAccounted, PollTerminalAccounted, PollWorkingAccounted,
       CancelLateAccounted, RuntimeIdleAccounted DEF Settle
<1>2. CASE Buy
    BY <1>2, SubmitWorkingAccounted, SubmitFilledAccounted, RuntimeIdleAccounted DEF Buy
<1>3. CASE Manage
  <2>1. \A t \in Tickers : {positions[t], positions[t] \div 2} \subseteq 0..positions[t]
      BY DEF IInv, TypeOK
  <2> QED BY <1>3, <2>1, ManageAccounted, RuntimeIdleAccounted DEF Manage
<1>3a. CASE Reconcile \/ Persist \/ StartTick \/ Plan \/ EodClose \/ Restart
    BY <1>3a, ReconcileAccounted, PersistAccounted, RestartAccounted, RuntimeIdleAccounted
<1>4. CASE Environment
    BY <1>4, FillAccounted, EndsAccounted, SellFillsAccounted, TimePassesAccounted, CrashAccounted,
       RuntimeIdleAccounted DEF Environment
<1>5. CASE UNCHANGED vars
    BY <1>5, RuntimeIdleAccounted
<1> QED BY <1>1, <1>2, <1>3, <1>3a, <1>4, <1>5 DEF Next, Runtime, InJob

(* At first there is nothing to account for.                               *)
LEMMA InitAccounted == Init => Accounted
<1> SUFFICES ASSUME Init, NEW t \in Tickers PROVE AccountedFor(t)
    BY DEF Accounted
<1>1. TypeOK
    BY InitInv DEF IInv
<1>2. \A o \in Orders : ~Tracked(o, t) /\ ~Live(o)
    BY DEF Init, Empty, NoRecord, NoOrder, Tracked, For, Live
<1>3. OnOffer(t) = 0
  <2>1. {o \in Orders : Live(o) /\ orders[o].ticker = t} = {}
      BY <1>2
  <2> QED BY <2>1, SumEmpty DEF OnOffer
<1>4. held[t] = 0 /\ positions[t] = 0 /\ Credit \in Nat /\ Size \in Nat
    BY <1>1, Quantities DEF Init, Empty, Counts
<1> QED BY <1>2, <1>3, <1>4 DEF Init, AccountedFor, Explained

LEMMA AccountedInvariance == Spec => []Accounted
<1>1. IInv /\ IInv' /\ Accounted /\ [Next]_vars => Accounted'
    BY NextAccounted
<1> QED BY Invariance, InitAccounted, <1>1, PTL DEF Spec

(* NoFillIsLost: every share held is in the mirror or filled by a buy that *)
(* is still tracked, but for one entry for each time the process died.     *)
THEOREM NoFillIsLost == Spec => []NoLostFill
<1>1. ASSUME IInv, Accounted PROVE NoLostFill
  <2> SUFFICES ASSUME NEW t \in Tickers
               PROVE  held[t] <= positions[t] + TrackedFills(t) + Credit
      BY DEF NoLostFill, Credit
  <2> DEFINE f == [o \in Orders |-> orders[o].filled]
             S == {o \in Open(pending) : pending[o].ticker = t}
  <2>1. TypeOK /\ Ids /\ S \in SUBSET Orders
      BY <1>1 DEF IInv, Open
  <2>2. IsFiniteSet(S) /\ \A o \in S : f[o] \in Nat
      BY <2>1, Terms
  <2>3. TrackedFills(t) \in Nat
    <3> HIDE DEF f, S
    <3>1. SumFunctionOnSet(f, S) \in Nat
        BY <2>2, SumNat
    <3> QED BY <3>1 DEF TrackedFills, f, S
  <2>4. /\ held[t] \in Int /\ positions[t] \in Nat /\ OnOffer(t) \in Nat /\ Credit \in Nat
        /\ \A o \in Orders : orders[o].filled \in Nat /\ Rest(o) \in Nat
      BY <2>1, Quantities DEF Counts
  <2>5. CASE \A o \in Orders : ~Tracked(o, t)
    <3>1. Explained(t, positions[t], 0)
        BY <1>1, <2>5 DEF Accounted, AccountedFor
    <3> HIDE DEF f, S
    <3> QED BY <2>3, <2>4, <3>1 DEF Explained
  <2>6. ASSUME NEW o \in Orders, Tracked(o, t)
        PROVE  held[t] <= positions[t] + TrackedFills(t) + Credit
    <3>1. o \in S /\ orders[o].ticker = t
        BY <2>1, <2>6 DEF Tracked, For, Open, Ids
    <3>2. SumFunctionOnSet(f, S) >= f[o]
      <4> HIDE DEF f, S
      <4> QED BY <2>2, <3>1, SumAtLeast
    <3>3. TrackedFills(t) >= orders[o].filled
        BY <3>2 DEF TrackedFills
    <3>4. Explained(t, orders[o].filled + Rest(o), Rest(o))
        BY <1>1, <2>6 DEF Accounted, AccountedFor
    <3>5. Rest(o) <= OnOffer(t)
        BY <2>1, <3>1, OfferOf
    <3> HIDE DEF f, S
    <3> QED BY <2>3, <2>4, <3>3, <3>4, <3>5 DEF Explained
  <2> HIDE DEF f, S
  <2> QED BY <2>5, <2>6
<1> QED BY Invariance, AccountedInvariance, <1>1, PTL

(* NoNameTwice: over any number of days, what is held of a name and what   *)
(* its live buys may still fill are together at most one entry, and one    *)
(* more for each time the process died.                                    *)
THEOREM NoNameTwice == Spec => []OneEntryPerCrash
<1>1. ASSUME IInv, Accounted PROVE OneEntryPerCrash
  <2> SUFFICES ASSUME NEW t \in Tickers
               PROVE  held[t] + OnOffer(t) <= (crashes + 1) * Size
      BY DEF OneEntryPerCrash
  <2>1. TypeOK /\ Explained(t, Size, Size)
      BY <1>1 DEF IInv, Accounted, AccountedFor
  <2>2. (crashes + 1) * Size = Credit + Size
    <3>1. crashes \in Nat /\ Size \in Nat
        BY <2>1, SizeAssumption, FlagAssumption DEF TypeOK
    <3>2. \A m, n \in Nat : (m + 1) * n = m * n + n
        OBVIOUS
    <3> QED BY <3>1, <3>2 DEF Credit
  <2>3. held[t] \in Int /\ OnOffer(t) \in Nat /\ Credit \in Nat /\ Size \in Nat
      BY <2>1, Quantities DEF Counts
  <2> QED BY <2>1, <2>2, <2>3 DEF Explained
<1> QED BY Invariance, AccountedInvariance, <1>1, PTL
=============================================================================
