------------------------------- MODULE Entries -------------------------------
(***************************************************************************)
(* The live entry path: execution/entries.py (plan, execute_planned,       *)
(* settle_pending, _finish_entry), the order tracker it keeps              *)
(* (execution/orders.py), execution/reconcile.py, and the parts of         *)
(* runtime.py around them: one tick, the EOD job, the snapshot written at  *)
(* the end of a job, a crash at any await, and setup() after it.           *)
(*                                                                         *)
(* A tick is serial (runtime.py 304-311, the _tick_in_progress mutex) and  *)
(* the other jobs run outside the session; one action is the code from one *)
(* await to the next.  Every proposal is for Size shares.  PENDING and     *)
(* ROUTED are one state here: the tracker lets both go anywhere.           *)
(* manage_positions, the subject of Lifecycle, is reduced to what it does  *)
(* to the book and to the sells at the broker, a position at a time; live, *)
(* a sell stays pending and fills between the jobs.                        *)
(***************************************************************************)
EXTENDS Integers, FiniteSets, FiniteSetsExt

CONSTANTS
    Tickers,
    Orders,        \* broker order ids of buys
    Exits,         \* broker order ids of sells
    Size,          \* shares of one entry
    MaxCrashes,    \* bound: how often the process dies
    MaxShort,      \* bound: how far sells may take the account below zero
    LateRejects,   \* the broker may report Inactive on a partly filled order
    Recovers       \* the link to the broker may recover for good

ASSUME SizeAssumption == Size \in Nat \ {0}
ASSUME SetsAssumption == Tickers # {} /\ IsFiniteSet(Orders)
ASSUME FlagAssumption ==
    MaxCrashes \in Nat /\ MaxShort \in Nat /\ LateRejects \in BOOLEAN
    /\ Recovers \in BOOLEAN

VARIABLES
    positions,  \* LifecycleState.positions: the mirror qty, 0 when not in the book
    exits,      \* meta["pending_exits"], at most one id in this process
    planned,    \* EntryPath.planned
    pending,    \* EntryPath.pending, the OrderTracker
    pc,         \* where the runtime is suspended; "down" when it is not running
    job,        \* the job it is in
    todo,       \* order ids left to settle
    buying,     \* tickers left of the list execute_planned took
    managing,   \* tickers left of the list manage_positions took
    cur,        \* the order or ticker in hand
    snap,       \* the last snapshot JsonStateStore wrote
    orders,     \* buy orders at the broker
    sells,      \* sell orders at the broker: live while shares are left
    held,       \* the broker's position
    clock,      \* part of the trading day
    ticked,     \* a job of this part of the day (the plan, a tick) has started
    outage,     \* any broker call may fail, and any may succeed
    crashes,    \* how often the process has died
    blind,      \* no reconcile has succeeded since setup went on without one (history)
    unseen      \* shares sold since the book looked, that no id it has stands for,
                \* and the shares the account is short (history)

book_vars   == <<positions, exits, planned, pending>>
day         == <<clock, ticked>>
broker_vars == <<orders, sells, held, day, outage>>
history     == <<blind, unseen>>
vars == <<book_vars, pc, job, todo, buying, managing, cur, snap, broker_vars, crashes, history>>

Ages   == {"today", "yesterday", "old"}
Record == [st : {"none", "open", "partial"}, ticker : Tickers, filled : 0..Size, age : Ages]
Order  == [ticker : Tickers, left : 0..Size, filled : 0..Size,
           st : {"working", "cancelling", "done", "rejected", "unknown"}]
Sell   == [ticker : Tickers, left : Nat]
Saved  == [positions : [Tickers -> Nat], exits : [Tickers -> SUBSET Exits],
           planned : SUBSET Tickers, pending : [Orders -> Record]]

NoRecord(t) == [st |-> "none", ticker |-> t, filled |-> 0, age |-> "today"]
Nobody      == CHOOSE t \in Tickers : TRUE
NoOrder     == [ticker |-> Nobody, left |-> 0, filled |-> 0, st |-> "unknown"]
Empty == [positions |-> [t \in Tickers |-> 0], exits |-> [t \in Tickers |-> {}],
          planned |-> {}, pending |-> [o \in Orders |-> NoRecord(Nobody)]]

TypeOK ==
    /\ positions \in [Tickers -> Nat]
    /\ exits \in [Tickers -> SUBSET Exits]
    /\ planned \in SUBSET Tickers
    /\ pending \in [Orders -> Record]
    /\ pc \in {"down", "idle", "settle", "cancel", "buy", "submit", "manage",
               "reconcile", "persist"}
    /\ job \in {"none", "tick", "setup", "eod"}
    /\ todo \in SUBSET Orders
    /\ buying \in SUBSET Tickers
    /\ managing \in SUBSET Tickers
    /\ cur \in Orders \cup Tickers
    /\ snap \in Saved
    /\ orders \in [Orders -> Order]
    /\ sells \in [Exits -> Sell]
    /\ held \in [Tickers -> Int]
    /\ clock \in {"premarket", "opening", "window", "late", "closed", "evening"}
    /\ ticked \in BOOLEAN
    /\ outage \in BOOLEAN
    /\ crashes \in 0..MaxCrashes
    /\ blind \in BOOLEAN
    /\ unseen \in [Tickers -> Nat]

Init ==
    /\ positions = Empty.positions /\ exits = Empty.exits
    /\ planned = {} /\ pending = Empty.pending
    /\ pc = "idle" /\ job = "none" /\ todo = {} /\ buying = {} /\ managing = {}
    /\ cur = Nobody /\ snap = Empty
    /\ orders = [o \in Orders |-> NoOrder]
    /\ sells = [s \in Exits |-> [ticker |-> Nobody, left |-> 0]]
    /\ held = [t \in Tickers |-> 0]
    /\ clock = "premarket" /\ ticked = FALSE /\ outage = TRUE /\ crashes = 0
    /\ blind = FALSE /\ unseen = [t \in Tickers |-> 0]

-----------------------------------------------------------------------------
(* The broker and the clock *)

Live(o) == orders[o].st \in {"working", "cancelling"}

(* get_order finds the id in this broker session. *)
Known(o) == orders[o].st # "unknown"

(* n shares fill; an order with a cancel under way is fillable too. *)
Fill(o, n) ==
    /\ Live(o) /\ n <= orders[o].left
    /\ orders' = [orders EXCEPT
           ![o].left = @ - n, ![o].filled = @ + n,
           ![o].st = IF n = orders[o].left THEN "done" ELSE @]
    /\ held' = [held EXCEPT ![orders[o].ticker] = @ + n]
    /\ UNCHANGED <<book_vars, pc, job, todo, buying, managing, cur, snap, sells, day, outage,
                   crashes, history>>

(* The cancel is acknowledged, or the exchange ends the order. *)
Ends(o) ==
    /\ Live(o)
    /\ orders' = [orders EXCEPT ![o].st = "done"]
    /\ UNCHANGED <<book_vars, pc, job, todo, buying, managing, cur, snap, sells, held, day, outage,
                   crashes, history>>

Rejects(o) ==
    /\ Live(o) /\ (LateRejects \/ orders[o].filled = 0)
    /\ orders' = [orders EXCEPT ![o].st = "rejected"]
    /\ UNCHANGED <<book_vars, pc, job, todo, buying, managing, cur, snap, sells, held, day, outage,
                   crashes, history>>

(* Until then any single call may fail: outages come and go. *)
OutageEnds ==
    /\ Recovers /\ outage
    /\ outage' = FALSE
    /\ UNCHANGED <<book_vars, pc, job, todo, buying, managing, cur, snap, orders, sells, held, day,
                   crashes, history>>

(* The sells of t.  A sell the book knows the id of is looked for by the   *)
(* daemon; shares sold by any other it can only miss.                      *)
Short(n) == IF n < 0 THEN 0 - n ELSE 0

Sold(t, n, known) ==
    /\ n <= held[t] + MaxShort
    /\ held' = [held EXCEPT ![t] = @ - n]
    /\ unseen' = [unseen EXCEPT ![t] =
           IF ~known THEN @ + n
           ELSE IF Short(held[t] - n) > @ THEN Short(held[t] - n) ELSE @]

SellFills(s, n) ==
    LET t == sells[s].ticker IN
    /\ n <= sells[s].left
    /\ sells' = [sells EXCEPT ![s].left = @ - n]
    /\ Sold(t, n, pc # "down" /\ s \in exits[t])
    /\ UNCHANGED <<book_vars, pc, job, todo, buying, managing, cur, snap, orders, day, outage,
                   crashes, blind>>

SellEnds(s) ==
    /\ sells[s].left > 0
    /\ sells' = [sells EXCEPT ![s].left = 0]
    /\ UNCHANGED <<book_vars, pc, job, todo, buying, managing, cur, snap, orders, held, day,
                   outage, crashes, history>>

Older(recs) ==
    [o \in Orders |-> IF recs[o].st = "none" THEN recs[o]
        ELSE [recs[o] EXCEPT !.age = IF @ = "today" THEN "yesterday" ELSE "old"]]

(* The session moves on between jobs (a tick is shorter than any part of   *)
(* the day, and there is one in each part of it unless the process is      *)
(* down); at the close the day orders end, overnight the records age.      *)
TimePasses ==
    /\ pc \in {"idle", "down"}
    /\ pc = "idle" /\ clock \in {"opening", "window", "late"} => ticked
    /\ ticked' = FALSE
    /\ clock' = CASE clock = "premarket" -> "opening"
                  [] clock = "opening"   -> "window"
                  [] clock = "window"    -> "late"
                  [] clock = "late"      -> "closed"
                  [] clock = "closed"    -> "evening"
                  [] clock = "evening"   -> "premarket"
    /\ orders' = IF clock = "late"
                 THEN [o \in Orders |-> IF Live(o) THEN [orders[o] EXCEPT !.st = "done"]
                                                   ELSE orders[o]]
                 ELSE orders
    /\ sells' = IF clock = "late" THEN [s \in Exits |-> [sells[s] EXCEPT !.left = 0]]
                ELSE sells
    /\ pending' = IF clock = "evening" THEN Older(pending) ELSE pending
    /\ snap' = IF clock = "evening" THEN [snap EXCEPT !.pending = Older(@)] ELSE snap
    /\ UNCHANGED <<positions, exits, planned, pc, job, todo, buying, managing, cur, held, outage,
                   crashes, history>>

-----------------------------------------------------------------------------
(* orders.py *)

(* state_from_broker_order *)
Status(o) ==
    CASE orders[o].st = "rejected"                     -> "rejected"
      [] orders[o].st = "done" /\ orders[o].left = 0   -> "filled"
      [] orders[o].st = "done" /\ orders[o].left > 0   -> "cancelled"
      [] Live(o) /\ orders[o].filled > 0               -> "partial"
      [] OTHER                                         -> "open"

TERMINAL_STATES == {"filled", "rejected", "cancelled"}

(* _ALLOWED: a partly filled order may not come back rejected. *)
Allowed(from, to) == from = "partial" => to \in {"partial", "filled", "cancelled"}

Open(recs)   == {o \in Orders : recs[o].st # "none"}
forget(o)    == [pending EXCEPT ![o] = NoRecord(Nobody)]
Pending(t)   == \E o \in Open(pending) : pending[o].ticker = t

-----------------------------------------------------------------------------
(* entries.settle_pending, at the start of a tick and in setup *)

Settling(o) == pc = "settle" /\ o \in todo

PastWindow(o) == clock \in {"late", "closed", "evening"} \/ pending[o].age # "today"

(* Mutants of Finish: the filled part of a cancelled order is dropped; the *)
(* "nothing filled" return comes before the record is forgotten.           *)
FinishFilledOnly(o) ==
    /\ pending' = forget(o)
    /\ positions' = [positions EXCEPT ![pending[o].ticker] =
                          @ + IF Status(o) = "filled" THEN orders[o].filled ELSE 0]

FinishForgetsLate(o) ==
    /\ pending' = IF orders[o].filled > 0 THEN forget(o) ELSE pending
    /\ positions' = [positions EXCEPT ![pending[o].ticker] = @ + orders[o].filled]

(* _finish_entry of a tracked order: the filled part becomes a position,   *)
(* or is merged into the one there is.                                     *)
Finish(o) ==
    /\ pending' = forget(o)
    /\ positions' = [positions EXCEPT ![pending[o].ticker] = @ + orders[o].filled]

(* Any exception ends a tick without its snapshot (tick_safe logs it); in  *)
(* setup it ends the process.                                              *)
Raises ==
    /\ pc' = IF job = "setup" THEN "down" ELSE "idle"
    /\ job' = "none" /\ todo' = {} /\ buying' = {} /\ managing' = {} /\ cur' = Nobody
    /\ UNCHANGED <<snap, broker_vars, crashes, history>>

(* Mutant of PollUnknown: an order the broker lost is kept for ever. *)
PollUnknownKeeps(o) ==
    /\ Settling(o) /\ ~Known(o)
    /\ todo' = todo \ {o}
    /\ UNCHANGED <<book_vars, pc, job, buying, managing, cur, snap, broker_vars, crashes, history>>

(* get_order knows nothing of the id: forgotten once it is a day old.      *)
(* (get_order is a look-up in memory in both brokers: it does not raise.)  *)
PollUnknown(o) ==
    /\ Settling(o) /\ ~Known(o)
    /\ \/ pending[o].age \in {"today", "yesterday"} /\ pending' = pending
       \/ pending[o].age \in {"yesterday", "old"}   /\ pending' = forget(o)
    /\ todo' = todo \ {o}
    /\ UNCHANGED <<positions, exits, planned, pc, job, buying, managing, cur, snap, broker_vars,
                   crashes, history>>

(* OrderRecord.apply raises InvalidTransitionError. *)
PollInvalid(o) ==
    /\ Settling(o) /\ Known(o)
    /\ ~Allowed(pending[o].st, Status(o))
    /\ Raises
    /\ UNCHANGED book_vars

PollTerminal(o) ==
    /\ Settling(o) /\ Known(o)
    /\ Status(o) \in TERMINAL_STATES /\ Allowed(pending[o].st, Status(o))
    /\ Finish(o)
    /\ todo' = todo \ {o}
    /\ UNCHANGED <<exits, planned, pc, job, buying, managing, cur, snap, broker_vars, crashes,
                   history>>

(* Still working: the record is advanced, and past the window a cancel is  *)
(* the next call.                                                          *)
PollWorking(o) ==
    /\ Settling(o) /\ Known(o) /\ Status(o) \notin TERMINAL_STATES
    /\ pending' = [pending EXCEPT ![o].st = Status(o), ![o].filled = orders[o].filled]
    /\ todo' = todo \ {o}
    /\ IF PastWindow(o) THEN pc' = "cancel" /\ cur' = o ELSE UNCHANGED <<pc, cur>>
    /\ UNCHANGED <<positions, exits, planned, job, buying, managing, snap, broker_vars, crashes,
                   history>>

(* cancel_order, then get_order again: over before the cancel reached it,  *)
(* acknowledged at once, not yet acknowledged, or the call raised.         *)
CancelLate ==
    LET o == cur IN
    /\ pc = "cancel"
    /\ \/ /\ Status(o) \in TERMINAL_STATES /\ Allowed(pending[o].st, Status(o))
          /\ Finish(o)
          /\ UNCHANGED orders
       \/ /\ Live(o)
          /\ orders' = [orders EXCEPT ![o].st = "done"]
          /\ Finish(o)
       \/ /\ Live(o)
          /\ orders' = [orders EXCEPT ![o].st = "cancelling"]
          /\ pending' = [pending EXCEPT ![o].st = Status(o), ![o].filled = orders[o].filled]
          /\ UNCHANGED positions
       \/ outage /\ UNCHANGED <<positions, pending, orders>>
    /\ pc' = "settle" /\ cur' = Nobody
    /\ UNCHANGED <<exits, planned, job, todo, buying, managing, snap, sells, held, day, outage,
                   crashes, history>>

CancelInvalid ==
    /\ pc = "cancel" /\ ~Allowed(pending[cur].st, Status(cur))
    /\ Raises
    /\ UNCHANGED book_vars

(* The list is done: setup goes on to reconcile, a tick to execute_planned. *)
Settled ==
    /\ pc = "settle" /\ todo = {}
    /\ pc' = IF job = "setup" THEN "reconcile" ELSE "buy"
    /\ UNCHANGED <<book_vars, job, todo, buying, managing, cur, snap, broker_vars, crashes,
                   history>>

-----------------------------------------------------------------------------
(* runtime.premarket_verify and entries.plan: any set of names the book    *)
(* does not hold may come out of the gates, or none (killswitch, stale     *)
(* data, no equity).  Once a day; missed when the process is down.  The     *)
(* snapshot may fail to be written (OSError).                              *)

Snapshot == [positions |-> positions, exits |-> exits, planned |-> planned,
             pending |-> pending]

Plan ==
    /\ pc = "idle" /\ clock = "premarket" /\ ~ticked
    /\ ticked' = TRUE
    /\ planned' \in SUBSET {t \in Tickers : positions[t] = 0}
    /\ snap' \in {snap, [Snapshot EXCEPT !.planned = planned']}
    /\ UNCHANGED <<positions, exits, pending, pc, job, todo, buying, managing, cur, orders,
                   sells, held, clock, outage,
                   crashes, history>>

-----------------------------------------------------------------------------
(* runtime.tick and entries.execute_planned *)

StartTick ==
    /\ pc = "idle" /\ clock \in {"opening", "window", "late"}
    /\ pc' = "settle" /\ job' = "tick" /\ todo' = Open(pending)
    /\ ticked' = TRUE
    /\ UNCHANGED <<book_vars, buying, managing, cur, snap, orders, sells, held, clock, outage,
                   crashes, history>>

(* Before the window opens nothing is consumed. *)
NothingToBuy ==
    /\ pc = "buy" /\ buying = {}
    /\ planned = {} \/ clock = "opening"
    /\ pc' = "manage" /\ managing' = {t \in Tickers : positions[t] > 0}
    /\ UNCHANGED <<book_vars, job, todo, buying, cur, snap, broker_vars, crashes, history>>

(* The list is taken and emptied first; an active killswitch drops it. *)
TakePlanned ==
    /\ pc = "buy" /\ buying = {} /\ planned # {} /\ clock # "opening"
    /\ planned' = {}
    /\ buying' \in {{}, planned}
    /\ UNCHANGED <<positions, exits, pending, pc, job, todo, managing, cur, snap, broker_vars,
                   crashes, history>>

(* Already held, no quote, no price or less than a share: passed over. *)
SkipEntry(t) ==
    /\ pc = "buy" /\ t \in buying
    /\ buying' = buying \ {t}
    /\ UNCHANGED <<book_vars, pc, job, todo, managing, cur, snap, broker_vars, crashes, history>>

(* Mutant of QuoteEntry: the plan is trusted, the book is not looked at. *)
QuoteEntryBlindly(t) ==
    /\ pc = "buy" /\ t \in buying
    /\ pc' = "submit" /\ cur' = t /\ buying' = buying \ {t}
    /\ UNCHANGED <<book_vars, job, todo, managing, snap, broker_vars, crashes, history>>

QuoteEntry(t) ==
    /\ pc = "buy" /\ t \in buying /\ positions[t] = 0
    /\ pc' = "submit" /\ cur' = t /\ buying' = buying \ {t}
    /\ UNCHANGED <<book_vars, job, todo, managing, snap, broker_vars, crashes, history>>

(* submit_buy: a working order is tracked; a simulator fill is a position  *)
(* at once; a refusal leaves nothing; contract qualification may raise.    *)
Unused(o) == ~Live(o) /\ pending[o].st = "none" /\ snap.pending[o].st = "none"

SubmitWorking ==
    /\ pc = "submit"
    /\ \E o \in Orders :
          /\ Unused(o)
          /\ orders' = [orders EXCEPT ![o] = [ticker |-> cur, left |-> Size, filled |-> 0,
                                              st |-> "working"]]
          /\ pending' = [pending EXCEPT ![o] = [st |-> "open", ticker |-> cur,
                                                filled |-> 0, age |-> "today"]]
    /\ pc' = "buy" /\ cur' = Nobody
    /\ UNCHANGED <<positions, exits, planned, job, todo, buying, managing, snap, sells, held, day,
                   outage, crashes, history>>

SubmitFilled ==
    /\ pc = "submit"
    /\ held' = [held EXCEPT ![cur] = @ + Size]
    /\ positions' = [positions EXCEPT ![cur] = @ + Size]
    /\ pc' = "buy" /\ cur' = Nobody
    /\ UNCHANGED <<exits, planned, pending, job, todo, buying, managing, snap, orders, sells, day,
                   outage, crashes, history>>

SubmitDead ==
    /\ pc = "submit" /\ pc' = "buy" /\ cur' = Nobody
    /\ UNCHANGED <<book_vars, job, todo, buying, managing, snap, broker_vars, crashes, history>>

SubmitRaises == pc = "submit" /\ outage /\ Raises /\ UNCHANGED book_vars

-----------------------------------------------------------------------------
(* The rest of the tick *)

(* lifecycle._process_one_position.  A position without a pending exit is  *)
(* held, or sold whole or by half: filled at once (the simulator), refused *)
(* (which leaves it as it is), or pending.                                 *)
Managing(t) == pc = "manage" /\ t \in managing

(* No quote, the read of the account failed, no stop is hit, or the sell   *)
(* was refused.                                                            *)
LeaveAlone(t) ==
    /\ Managing(t)
    /\ managing' = managing \ {t}
    /\ UNCHANGED <<book_vars, pc, job, todo, buying, cur, snap, broker_vars, crashes, history>>

(* With a pending exit the account is read first: flat, the position is    *)
(* closed and the ids go with it; less than the mirror has is adopted.     *)
Adopted(t) == IF held[t] <= 0 THEN 0
              ELSE IF held[t] < positions[t] THEN held[t] ELSE positions[t]

(* ... and the order is left working, because nothing is to be sold, or    *)
(* the cancel is not confirmed.                                            *)
ReadExit(t) ==
    /\ Managing(t) /\ exits[t] # {}
    /\ positions' = [positions EXCEPT ![t] = Adopted(t)]
    /\ exits' = [exits EXCEPT ![t] = IF Adopted(t) = 0 THEN {} ELSE @]
    /\ unseen' = [unseen EXCEPT ![t] = Short(held[t])]
    /\ managing' = managing \ {t}
    /\ UNCHANGED <<planned, pending, pc, job, todo, buying, cur, snap, broker_vars, crashes,
                   blind>>

(* ... or it is cancelled, and n shares fill after the read (the subject   *)
(* of Lifecycle); the ids are dropped and the position may be sold anew.   *)
CancelExit(t) ==
    /\ Managing(t) /\ held[t] > 0
    /\ \E s \in exits[t] : \E n \in 0..sells[s].left :
          /\ n <= held[t] + MaxShort
          /\ held' = [held EXCEPT ![t] = @ - n]
          /\ unseen' = [unseen EXCEPT ![t] = n]
          /\ sells' = [sells EXCEPT ![s].left = 0]
    /\ positions' = [positions EXCEPT ![t] = Adopted(t)]
    /\ exits' = [exits EXCEPT ![t] = {}]
    /\ UNCHANGED <<planned, pending, pc, job, todo, buying, managing, cur, snap, orders, day,
                   outage, crashes, blind>>

Selling(t, q) == Managing(t) /\ exits[t] = {} /\ q \in {positions[t], positions[t] \div 2} \ {0}

SellFilled(t, q) ==
    /\ Selling(t, q)
    /\ positions' = [positions EXCEPT ![t] = @ - q]
    /\ Sold(t, q, TRUE)
    /\ managing' = managing \ {t}
    /\ UNCHANGED <<exits, planned, pending, pc, job, todo, buying, cur, snap, orders, sells, day,
                   outage, crashes, blind>>

UnusedExit(s) ==
    sells[s].left = 0 /\ \A t \in Tickers : s \notin exits[t] /\ s \notin snap.exits[t]

SellPending(t, q) ==
    /\ Selling(t, q)
    /\ \E s \in Exits :
          /\ UnusedExit(s)
          /\ sells' = [sells EXCEPT ![s] = [ticker |-> t, left |-> q]]
          /\ exits' = [exits EXCEPT ![t] = {s}]
    /\ managing' = managing \ {t}
    /\ UNCHANGED <<positions, planned, pending, pc, job, todo, buying, cur, snap, orders, held,
                   day, outage, crashes, history>>

SellRaises ==
    /\ outage /\ \E t \in Tickers : Managing(t) /\ exits[t] = {}
    /\ Raises
    /\ UNCHANGED book_vars

(* A tick leaves positions with an exit in flight to the daemon; at        *)
(* startup and at the close the reconcile is full.                         *)
InFlight(t) == job = "tick" /\ exits[t] # {}

(* A holding that a pending buy is about to explain is not adopted. *)
Shielded(t) == positions[t] = 0 /\ Pending(t)

(* Mutants of Reconciled: a pending buy does not shield its ticker; the    *)
(* broker's short rows are adopted too.                                    *)
ReconciledUnskipped(ignored) ==
    [t \in Tickers |-> IF InFlight(t) THEN positions[t]
                       ELSE IF held[t] > 0 THEN held[t] ELSE 0]

ReconciledSigned(ignored) ==
    [t \in Tickers |-> IF InFlight(t) THEN positions[t]
                       ELSE IF Shielded(t) THEN 0 ELSE held[t]]

(* reconcile_book: phantoms dropped, quantities adopted, unknown holdings  *)
(* adopted unless shielded, or ignored because nothing tells their price.  *)
Reconciled(ignored) ==
    [t \in Tickers |->
        IF InFlight(t) THEN positions[t]
        ELSE IF held[t] > 0 /\ ~Shielded(t) /\ (positions[t] > 0 \/ t \notin ignored)
             THEN held[t] ELSE 0]

Reconcile ==
    /\ pc = "reconcile" \/ (pc = "manage" /\ managing = {})
    /\ \/ /\ \E ignored \in IF outage THEN SUBSET Tickers ELSE {{}} :
                 positions' = Reconciled(ignored)
          /\ exits' = [t \in Tickers |-> IF positions'[t] = 0 THEN {} ELSE exits[t]]
          /\ unseen' = [t \in Tickers |-> IF InFlight(t) \/ Shielded(t) THEN unseen[t]
                                          ELSE Short(held[t])]
          /\ blind' = FALSE
       \/ /\ outage                    \* unhealthy, or get_positions raised
          /\ blind' = (blind \/ job = "setup")
          /\ UNCHANGED <<positions, exits, unseen>>
    /\ pc' = "persist"
    /\ UNCHANGED <<planned, pending, job, todo, buying, managing, cur, snap, broker_vars, crashes>>

(* _persist swallows an OSError: the snapshot stays the old one.  An order *)
(* that is over and that no record names any more is asked for by nobody:  *)
(* its id is as good as unused.                                            *)
Persist ==
    /\ pc = "persist"
    /\ snap' \in {snap, Snapshot}
    /\ orders' = [o \in Orders |->
           IF Live(o) \/ pending[o].st # "none" \/ snap'.pending[o].st # "none"
           THEN orders[o] ELSE NoOrder]
    /\ pc' = "idle" /\ job' = "none"
    /\ UNCHANGED <<book_vars, todo, buying, managing, cur, sells, held, day, outage, crashes,
                   history>>

(* The cron job after the close, once a day; missed when the process is down. *)
EodClose ==
    /\ pc = "idle" /\ clock = "closed"
    /\ pc' = "reconcile" /\ job' = "eod"
    /\ clock' = "evening"
    /\ UNCHANGED <<book_vars, todo, buying, managing, cur, snap, orders, sells, held, ticked,
                   outage, crashes, history>>

-----------------------------------------------------------------------------
(* The process *)

Crash ==
    /\ pc # "down" /\ crashes < MaxCrashes
    /\ pc' = "down" /\ job' = "none"
    /\ todo' = {} /\ buying' = {} /\ managing' = {} /\ cur' = Nobody
    /\ positions' = Empty.positions /\ exits' = Empty.exits
    /\ planned' = {} /\ pending' = Empty.pending
    /\ crashes' = crashes + 1
    /\ UNCHANGED <<snap, broker_vars, history>>

(* setup(): _restore, or a clean start from an unreadable snapshot; then   *)
(* settle_pending.  What could not be read, and is moved aside, does not   *)
(* come back at a later start.  The new broker session knows the orders    *)
(* still open but not the ones that are done (IB.trades() keeps those for  *)
(* the session).                                                           *)
Restart ==
    /\ pc = "down"
    /\ snap' \in {snap, Empty}
    /\ positions' = snap'.positions /\ exits' = snap'.exits
    /\ planned' = snap'.planned /\ pending' = snap'.pending
    /\ todo' = Open(pending')
    /\ orders' = [o \in Orders |-> IF Live(o) THEN orders[o] ELSE NoOrder]
    /\ pc' = "settle" /\ job' = "setup"
    /\ UNCHANGED <<buying, managing, cur, sells, held, day, outage, crashes, history>>

-----------------------------------------------------------------------------

Settle ==
    \/ \E o \in Orders : \/ PollUnknown(o)
                         \/ PollInvalid(o)
                         \/ PollTerminal(o)
                         \/ PollWorking(o)
    \/ CancelLate
    \/ CancelInvalid
    \/ Settled

Buy ==
    \/ NothingToBuy
    \/ TakePlanned
    \/ \E t \in Tickers : SkipEntry(t) \/ QuoteEntry(t)
    \/ SubmitWorking
    \/ SubmitFilled
    \/ SubmitDead
    \/ SubmitRaises

Manage ==
    \/ \E t \in Tickers : \/ LeaveAlone(t)
                          \/ ReadExit(t)
                          \/ CancelExit(t)
                          \/ \E q \in {positions[t], positions[t] \div 2} :
                                 SellFilled(t, q) \/ SellPending(t, q)
    \/ SellRaises

InJob == Settle \/ Buy \/ Manage \/ Reconcile \/ Persist

Runtime == StartTick \/ InJob \/ Plan \/ EodClose \/ Restart

Environment ==
    \/ \E o \in Orders : \/ \E n \in 1..Size : Fill(o, n)
                         \/ Ends(o)
                         \/ Rejects(o)
    \/ \E s \in Exits : \/ \E n \in 1..sells[s].left : SellFills(s, n)
                        \/ SellEnds(s)
    \/ OutageEnds
    \/ TimePasses
    \/ Crash

Next == Runtime \/ Environment

Spec == Init /\ [][Next]_vars

(* asyncio resumes every await, the interval job fires, the supervisor     *)
(* restarts the process; between ticks the days go by.                     *)
Fairness ==
    /\ WF_vars(InJob \/ StartTick \/ Restart)
    /\ SF_vars(TimePasses)

FairSpec == Spec /\ Fairness

-----------------------------------------------------------------------------
(* Properties *)

(* MirrorCovered: while the exit daemon runs, a position it will not look  *)
(* up at the broker first, because no exit of it is pending, claims no     *)
(* more shares than the account holds: a fill is never counted by both     *)
(* reconcile_book and _finish_entry, and no sell is lost between the       *)
(* pending exits and the reconcile.  What it may claim too much is what    *)
(* was sold since the book last looked by orders it has no id of, or in    *)
(* the window of its own cancel.  Not claimed while the book is that of a  *)
(* restart which could not reconcile (entries.py 221-231, reconcile.py     *)
(* 43-58, lifecycle.py 130-138, runtime.py 252-263).                       *)
MirrorCovered ==
    pc = "manage" /\ ~blind =>
        \A t \in Tickers : exits[t] = {} => positions[t] <= held[t] + unseen[t]

TrackedFills(t) ==
    SumFunctionOnSet([o \in Orders |-> orders[o].filled],
                     {o \in Open(pending) : pending[o].ticker = t})

(* NoLostFill: every share held is in the mirror or belongs to a buy still *)
(* tracked; a cancelled, expired or partly filled entry loses nothing, and *)
(* each death of the process at most the one entry of the name that the    *)
(* snapshot had not seen (entries.py 251-254, runtime.py 252-263).         *)
NoLostFill ==
    \A t \in Tickers : held[t] <= positions[t] + TrackedFills(t) + crashes * Size

OnOffer(t) ==
    SumFunctionOnSet([o \in Orders |-> orders[o].left],
                     {o \in Orders : Live(o) /\ orders[o].ticker = t})

(* OneEntry: a ticker is bought once: the shares held of it and its live   *)
(* buys are together at most one entry (entries.py 138-139, 151, 223-224). *)
OneEntry == \A t \in Tickers : held[t] + OnOffer(t) <= Size

(* OneEntryPerCrash: OneEntry, over any number of days, as long as the     *)
(* process has not died; each death lets a name be bought once more, and   *)
(* no more than that, whatever snapshots are old or lost meanwhile.        *)
OneEntryPerCrash ==
    \A t \in Tickers : held[t] + OnOffer(t) <= (crashes + 1) * Size

(* HoldingEventuallyManaged: shares the account holds come under the exit  *)
(* daemon's stops or leave the account, after crashes, lost snapshots and  *)
(* missed fills too, once the broker stays reachable (entries.py 251-254,  *)
(* runtime.py 259-263).                                                    *)
HoldingEventuallyManaged ==
    \A t \in Tickers :
        <>[]~outage => (held[t] > 0 ~> positions[t] > 0 \/ held[t] <= 0)

(* LateBuyEventuallyEnds: a buy that is still working when its window is   *)
(* over does not stay tracked for ever (entries.py 279-291).               *)
LateBuyEventuallyEnds ==
    \A o \in Orders : <>[]~outage => (pending[o].st # "none" ~> pending[o].st = "none")
=============================================================================
