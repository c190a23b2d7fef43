------------------------------ MODULE Lifecycle ------------------------------
(***************************************************************************)
(* The intraday exit daemon of execution/lifecycle.py: manage_positions,   *)
(* _process_one_position and _cancel_and_confirm, with the pure decision   *)
(* they call (execution/decisions.py, decide_exit).  The code is asyncio:  *)
(* between two awaits nothing else runs, and at every await the broker and *)
(* the other callers of manage_positions may move.  One action is the code *)
(* from one await to the next.                                             *)
(*                                                                         *)
(* Data is abstracted to what the control looks at.  A quote is one of     *)
(* Marks: the class evaluate_stops would put the position in, leaving out  *)
(* the one-shot `halved' flag, which the daemon writes itself and so is    *)
(* kept.  "noprice" is the zero / non-finite quote.  A sell order at the   *)
(* broker is its ticker, the shares left and whether it can still fill.    *)
(***************************************************************************)
EXTENDS Integers, FiniteSetsExt

CONSTANTS
    Tickers,    \* names the book holds at the start
    Tasks,      \* concurrent callers of manage_positions
    Orders,     \* broker order ids (an id is reused once terminal and untracked)
    InitQty     \* shares held of each ticker at the start

ASSUME InitQtyAssumption == InitQty \in Nat \ {0}

VARIABLES
    book,       \* keys of LifecycleState.positions
    positions,  \* the meta dict of each ticker
    in_flight,  \* LifecycleState.in_flight
    recorded,   \* shares LifecycleState.exits accounts for, per ticker
    pc,         \* where each caller is suspended
    todo,       \* what is left of its list(state.positions)
    cur,        \* the ticker it is processing
    quote,      \* the quote it holds, possibly stale by now
    sell,       \* the decision it is carrying out
    gap,        \* filled_qty of a reconciled halve
    orders,     \* sell orders at the broker
    held,       \* the broker's own position, negative when short
    market,     \* what a fresh quote would say
    outage,     \* the broker may fail calls, blank quotes and refuse orders
    raced       \* shares filled while a caller sat between its position
                \* read and the end of its cancel (a history variable)

broker_vars == <<orders, held, market, outage, raced>>
frame_vars  == <<cur, quote, sell, gap>>
local_vars  == <<todo, frame_vars>>
vars == <<book, positions, in_flight, recorded, pc, local_vars, broker_vars>>

Marks   == {"ok", "decayed", "breached", "noprice"}
Actions == {"none", "halve", "exit"}
Steps   == {"idle", "loop", "quote", "read", "cancel_halve", "confirm_halve",
            "cancel_exit", "confirm_exit", "submit"}

Meta     == [qty : Nat, halved : BOOLEAN, pending : SUBSET Orders, action : Actions]
Decision == [action : Actions, qty : Nat]
Order    == [ticker : Tickers, left : Nat, st : {"working", "cancelling", "done"}]

TypeOK ==
    /\ book \in SUBSET Tickers
    /\ positions \in [Tickers -> Meta]
    /\ in_flight \in SUBSET Tickers
    /\ recorded \in [Tickers -> Nat]
    /\ pc \in [Tasks -> Steps]
    /\ todo \in [Tasks -> SUBSET Tickers]
    /\ cur \in [Tasks -> Tickers]
    /\ quote \in [Tasks -> Marks]
    /\ sell \in [Tasks -> Decision]
    /\ gap \in [Tasks -> Nat]
    /\ orders \in [Orders -> Order]
    /\ held \in [Tickers -> Int]
    /\ market \in [Tickers -> Marks]
    /\ outage \in BOOLEAN
    /\ raced \in [Tickers -> Nat]

NoDecision == [action |-> "none", qty |-> 0]

Init ==
    /\ book = Tickers
    /\ positions = [t \in Tickers |->
           [qty |-> InitQty, halved |-> FALSE, pending |-> {}, action |-> "none"]]
    /\ in_flight = {}
    /\ recorded = [t \in Tickers |-> 0]
    /\ pc = [k \in Tasks |-> "idle"]
    /\ todo = [k \in Tasks |-> {}]
    /\ cur \in [Tasks -> Tickers]
    /\ quote = [k \in Tasks |-> "noprice"]
    /\ sell = [k \in Tasks |-> NoDecision]
    /\ gap = [k \in Tasks |-> 0]
    /\ orders \in [Orders -> [ticker : Tickers, left : {0}, st : {"done"}]]
    /\ held = [t \in Tickers |-> InitQty]
    /\ market = [t \in Tickers |-> "ok"]
    /\ outage = FALSE
    /\ raced = [t \in Tickers |-> 0]

-----------------------------------------------------------------------------
(* The broker, as the daemon can see it. *)

Live(o) == orders[o].st # "done"

(* A caller that has read the position and is still cancelling the old exit. *)
InWindow(k, t) ==
    /\ cur[k] = t
    /\ pc[k] \in {"cancel_halve", "confirm_halve", "cancel_exit", "confirm_exit"}

(* n shares of a live order fill; PendingCancel orders are fillable too. *)
Fill(o, n) ==
    LET t == orders[o].ticker IN
    /\ Live(o) /\ n <= orders[o].left
    /\ orders' = [orders EXCEPT
           ![o] = [ticker |-> t, left |-> @.left - n,
                   st |-> IF @.left = n THEN "done" ELSE @.st]]
    /\ held' = [held EXCEPT ![t] = @ - n]
    /\ raced' = IF \E k \in Tasks : InWindow(k, t)
                THEN [raced EXCEPT ![t] = @ + n] ELSE raced
    /\ UNCHANGED <<book, positions, in_flight, recorded, pc, local_vars, market, outage>>

(* The exchange acknowledges a cancel, or ends an order by itself (a day   *)
(* order at the close, a late reject).                                     *)
OrderEnds(o) ==
    /\ Live(o)
    /\ orders' = [orders EXCEPT ![o] = [@ EXCEPT !.st = "done", !.left = 0]]
    /\ UNCHANGED <<book, positions, in_flight, recorded, pc, local_vars,
                   held, market, outage, raced>>

CancelAck(o) == orders[o].st = "cancelling" /\ OrderEnds(o)

MarketMoves(t) ==
    /\ \E m \in Marks \ {market[t]} : market' = [market EXCEPT ![t] = m]
    /\ UNCHANGED <<book, positions, in_flight, recorded, pc, local_vars,
                   orders, held, outage, raced>>

(* The link to the broker goes bad or recovers. *)
OutageToggles ==
    /\ outage' = ~outage
    /\ UNCHANGED <<book, positions, in_flight, recorded, pc, local_vars,
                   orders, held, market, raced>>

-----------------------------------------------------------------------------
(* decisions.decide_exit, on a mark already classified. *)

evaluate_stops(mark, halved) ==
    CASE mark = "breached"             -> "exit"
      [] mark = "decayed" /\ ~halved   -> "halve"
      [] OTHER                         -> "hold"

decide_exit(meta, mark) ==
    LET sig  == evaluate_stops(mark, meta.halved)
        half == meta.qty \div 2
    IN  CASE sig = "exit" ->
               [action |-> "exit", qty |-> meta.qty, halved |-> meta.halved]
          [] sig = "halve" /\ half > 0 ->
               [action |-> "halve", qty |-> half, halved |-> TRUE]
          [] OTHER ->
               [action |-> "none", qty |-> 0, halved |-> sig = "halve" \/ meta.halved]

-----------------------------------------------------------------------------
(* manage_positions *)

StartTick(k) ==
    /\ pc[k] = "idle"
    /\ pc' = [pc EXCEPT ![k] = "loop"]
    /\ todo' = [todo EXCEPT ![k] = book]
    /\ UNCHANGED <<book, positions, in_flight, recorded, cur, quote, sell, gap, broker_vars>>

EndTick(k) ==
    /\ pc[k] = "loop" /\ todo[k] = {}
    /\ pc' = [pc EXCEPT ![k] = "idle"]
    /\ UNCHANGED <<book, positions, in_flight, recorded, local_vars, broker_vars>>

(* Mutant of Claim: no check of in_flight. *)
ClaimWithoutLock(k, t) ==
    /\ pc[k] = "loop" /\ t \in todo[k] /\ t \in book
    /\ todo' = [todo EXCEPT ![k] = @ \ {t}]
    /\ pc' = [pc EXCEPT ![k] = "quote"]
    /\ cur' = [cur EXCEPT ![k] = t]
    /\ in_flight' = in_flight \cup {t}
    /\ UNCHANGED <<book, positions, recorded, quote, sell, gap, broker_vars>>

(* The check-and-set under state.lock; a ticker another caller has, or one *)
(* that left the book since the list was taken, is passed over.            *)
Claim(k, t) ==
    /\ pc[k] = "loop" /\ t \in todo[k]
    /\ todo' = [todo EXCEPT ![k] = @ \ {t}]
    /\ IF t \in in_flight \/ t \notin book
       THEN UNCHANGED <<pc, cur, in_flight>>
       ELSE /\ pc' = [pc EXCEPT ![k] = "quote"]
            /\ cur' = [cur EXCEPT ![k] = t]
            /\ in_flight' = in_flight \cup {t}
    /\ UNCHANGED <<book, positions, recorded, quote, sell, gap, broker_vars>>

(* Mutant of DropFrame: no finally clause, the ticker stays claimed. *)
DropFrameKeepsClaim(k) ==
    /\ quote' = [quote EXCEPT ![k] = "noprice"]
    /\ sell' = [sell EXCEPT ![k] = NoDecision]
    /\ gap' = [gap EXCEPT ![k] = 0]
    /\ UNCHANGED <<cur, in_flight>>

(* Any return of _process_one_position: its locals are gone, and the       *)
(* finally clause lets go of the ticker.                                   *)
DropFrame(k) ==
    /\ in_flight' = in_flight \ {cur[k]}
    /\ quote' = [quote EXCEPT ![k] = "noprice"]
    /\ sell' = [sell EXCEPT ![k] = NoDecision]
    /\ gap' = [gap EXCEPT ![k] = 0]
    /\ UNCHANGED cur

Release(k) ==
    /\ DropFrame(k)
    /\ pc' = [pc EXCEPT ![k] = "loop"]

-----------------------------------------------------------------------------
(* _process_one_position *)

(* From the price guard to the next await, with meta's contents m. *)
Evaluate(k, mark, m) ==
    LET t == cur[k]
        d == decide_exit(m, mark)
    IN  IF mark = "noprice"
        THEN /\ positions' = [positions EXCEPT ![t] = m]
             /\ Release(k)
        ELSE /\ positions' = [positions EXCEPT ![t] = [m EXCEPT !.halved = d.halved]]
             /\ IF d.action = "none"
                THEN Release(k)
                ELSE /\ sell' = [sell EXCEPT ![k] = [action |-> d.action, qty |-> d.qty]]
                     /\ pc' = [pc EXCEPT ![k] =
                                  IF m.pending = {} THEN "submit" ELSE "cancel_exit"]
                     /\ quote' = [quote EXCEPT ![k] = "noprice"]   \* not used again
                     /\ gap' = [gap EXCEPT ![k] = 0]
                     /\ UNCHANGED <<in_flight, cur>>

(* Mutant of FetchQuote: the price guard before the pending exit is settled. *)
FetchQuotePriceFirst(k, mark) ==
    /\ pc[k] = "quote"
    /\ mark = market[cur[k]] \/ (outage /\ mark = "noprice")
    /\ IF positions[cur[k]].pending = {} \/ mark = "noprice"
       THEN Evaluate(k, mark, positions[cur[k]])
       ELSE /\ pc' = [pc EXCEPT ![k] = "read"]
            /\ quote' = [quote EXCEPT ![k] = mark]
            /\ UNCHANGED <<positions, in_flight, cur, sell, gap>>
    /\ UNCHANGED <<book, recorded, todo, broker_vars>>

(* fetch_quote answers; without a pending exit the stops are evaluated at  *)
(* once, otherwise the daemon asks for the position first.                 *)
FetchQuote(k, mark) ==
    LET t == cur[k] IN
    /\ pc[k] = "quote"
    /\ mark = market[t] \/ (outage /\ mark = "noprice")
    /\ IF positions[t].pending = {}
       THEN Evaluate(k, mark, positions[t])
       ELSE /\ pc' = [pc EXCEPT ![k] = "read"]
            /\ quote' = [quote EXCEPT ![k] = mark]
            /\ UNCHANGED <<positions, in_flight, cur, sell, gap>>
    /\ UNCHANGED <<book, recorded, todo, broker_vars>>

QuoteTransientError(k) ==
    /\ pc[k] = "quote" /\ outage
    /\ Release(k)
    /\ UNCHANGED <<book, positions, recorded, todo, broker_vars>>

(* get_position_qty: the broker is flat, so the pending exit has filled. *)
ReadFlat(k) ==
    LET t == cur[k] IN
    /\ pc[k] = "read" /\ held[t] <= 0
    /\ positions' = [positions EXCEPT ![t] = [@ EXCEPT !.pending = {}]]
    /\ recorded' = [recorded EXCEPT ![t] = @ + positions[t].qty]
    /\ book' = book \ {t}
    /\ Release(k)
    /\ UNCHANGED <<todo, broker_vars>>

(* Mutants of ReadPartial: a short position is adopted too; the broker's   *)
(* count is ignored and the mirror's kept.                                 *)
ReadPartialAdoptsShort(k) ==
    /\ pc[k] = "read" /\ held[cur[k]] < positions[cur[k]].qty
    /\ Evaluate(k, quote[k], [positions[cur[k]] EXCEPT !.qty = held[cur[k]]])
    /\ UNCHANGED <<book, recorded, todo, broker_vars>>

ReadPartialKeepsMirror(k) ==
    /\ pc[k] = "read" /\ held[cur[k]] > 0 /\ held[cur[k]] < positions[cur[k]].qty
    /\ Evaluate(k, quote[k], positions[cur[k]])
    /\ UNCHANGED <<book, recorded, todo, broker_vars>>

(* get_position_qty: fewer shares than the book says.  A pending halve is  *)
(* cancelled first; otherwise the stops are evaluated on the adopted qty.  *)
ReadPartial(k) ==
    LET t == cur[k]
        m == [positions[t] EXCEPT !.qty = held[t]]
    IN
    /\ pc[k] = "read" /\ held[t] > 0 /\ held[t] < positions[t].qty
    /\ IF m.action = "halve"
       THEN /\ positions' = [positions EXCEPT ![t] = m]
            /\ gap' = [gap EXCEPT ![k] = positions[t].qty - held[t]]
            /\ pc' = [pc EXCEPT ![k] = "cancel_halve"]
            /\ UNCHANGED <<in_flight, cur, quote, sell>>
       ELSE Evaluate(k, quote[k], m)
    /\ UNCHANGED <<book, recorded, todo, broker_vars>>

(* get_position_qty: nothing filled. *)
ReadUnfilled(k) ==
    LET t == cur[k] IN
    /\ pc[k] = "read" /\ held[t] > 0 /\ held[t] >= positions[t].qty
    /\ Evaluate(k, quote[k], positions[t])
    /\ UNCHANGED <<book, recorded, todo, broker_vars>>

ReadTransientError(k) ==
    /\ pc[k] = "read" /\ outage
    /\ Release(k)
    /\ UNCHANGED <<book, positions, recorded, todo, broker_vars>>

(* _cancel_and_confirm, first half: cancel_order on each pending id.  The  *)
(* order only becomes PendingCancel; on a transient error it stays.        *)
CancelStale(k) ==
    LET t == cur[k] IN
    /\ pc[k] \in {"cancel_halve", "cancel_exit"}
    /\ \E sent \in SUBSET positions[t].pending :
           /\ outage \/ sent = positions[t].pending
           /\ orders' = [o \in Orders |->
                  IF o \in sent /\ Live(o) THEN [orders[o] EXCEPT !.st = "cancelling"]
                                           ELSE orders[o]]
    /\ pc' = [pc EXCEPT ![k] =
                 IF @ = "cancel_halve" THEN "confirm_halve" ELSE "confirm_exit"]
    /\ UNCHANGED <<book, positions, in_flight, recorded, local_vars, held, market, outage, raced>>

NoneOpen(t) == \A o \in positions[t].pending : ~Live(o)

(* A poll of get_open_orders finds none of the cancelled ids: the halve is *)
(* booked as done, its ids are dropped and the stops are evaluated.        *)
ConfirmHalve(k) ==
    LET t == cur[k]
        m == [positions[t] EXCEPT !.halved = TRUE, !.pending = {}, !.action = "none"]
    IN
    /\ pc[k] = "confirm_halve" /\ NoneOpen(t)
    /\ recorded' = [recorded EXCEPT ![t] = @ + gap[k]]
    /\ Evaluate(k, quote[k], m)
    /\ UNCHANGED <<book, todo, broker_vars>>

(* Mutant of ConfirmExit: the cancel is sent but never confirmed. *)
ConfirmExitUnconfirmed(k) ==
    /\ pc[k] = "confirm_exit"
    /\ positions' = [positions EXCEPT ![cur[k]] = [@ EXCEPT !.pending = {}]]
    /\ pc' = [pc EXCEPT ![k] = "submit"]
    /\ UNCHANGED <<book, in_flight, recorded, local_vars, broker_vars>>

(* The same before a resubmit: the old id is dropped, the new sell goes out. *)
ConfirmExit(k) ==
    LET t == cur[k] IN
    /\ pc[k] = "confirm_exit" /\ NoneOpen(t)
    /\ positions' = [positions EXCEPT ![t] = [@ EXCEPT !.pending = {}]]
    /\ pc' = [pc EXCEPT ![k] = "submit"]
    /\ UNCHANGED <<book, in_flight, recorded, local_vars, broker_vars>>

(* All polls used up with the order still open, or a poll failed. *)
ConfirmGivesUp(k) ==
    /\ pc[k] \in {"confirm_halve", "confirm_exit"}
    /\ outage \/ ~NoneOpen(cur[k])
    /\ Release(k)
    /\ UNCHANGED <<book, positions, recorded, todo, broker_vars>>

(* submit_sell returned "filled". *)
SubmitFilled(k) ==
    LET t == cur[k] IN
    /\ pc[k] = "submit"
    /\ held' = [held EXCEPT ![t] = @ - sell[k].qty]
    /\ recorded' = [recorded EXCEPT ![t] = @ + sell[k].qty]
    /\ IF sell[k].action = "exit"
       THEN /\ book' = book \ {t}
            /\ positions' = [positions EXCEPT ![t] = [@ EXCEPT !.action = "none"]]
       ELSE /\ positions' = [positions EXCEPT ![t] =
                   [positions[t] EXCEPT !.action = "none", !.halved = TRUE,
                                        !.qty = @ - sell[k].qty]]
            /\ UNCHANGED book
    /\ Release(k)
    /\ UNCHANGED <<todo, orders, market, outage, raced>>

(* submit_sell returned "rejected" or "cancelled": nothing is tracked. *)
SubmitDead(k) ==
    /\ pc[k] = "submit" /\ outage
    /\ Release(k)
    /\ UNCHANGED <<book, positions, recorded, todo, broker_vars>>

(* submit_sell returned any other status: the order works at the broker    *)
(* and its id joins pending_exits.                                         *)
Tracked(o) == \E t \in book : o \in positions[t].pending

(* Mutant of SubmitWorking: the exit is booked when it is placed. *)
SubmitWorkingRecords(k) ==
    /\ pc[k] = "submit"
    /\ \E o \in Orders :
          /\ ~Live(o) /\ ~Tracked(o)
          /\ orders' = [orders EXCEPT
                 ![o] = [ticker |-> cur[k], left |-> sell[k].qty, st |-> "working"]]
          /\ positions' = [positions EXCEPT ![cur[k]] =
                 [positions[cur[k]] EXCEPT !.pending = @ \cup {o}, !.action = sell[k].action]]
    /\ recorded' = [recorded EXCEPT ![cur[k]] = @ + sell[k].qty]
    /\ Release(k)
    /\ UNCHANGED <<book, todo, held, market, outage, raced>>

SubmitWorking(k) ==
    LET t == cur[k] IN
    /\ pc[k] = "submit"
    /\ \E o \in Orders :
          /\ ~Live(o) /\ ~Tracked(o)
          /\ orders' = [orders EXCEPT
                 ![o] = [ticker |-> t, left |-> sell[k].qty, st |-> "working"]]
          /\ positions' = [positions EXCEPT ![t] =
                 [positions[t] EXCEPT !.pending = @ \cup {o}, !.action = sell[k].action]]
    /\ Release(k)
    /\ UNCHANGED <<book, recorded, todo, held, market, outage, raced>>

(* submit_sell raised (the contract could not be qualified): no handler in *)
(* this file, so the whole call of manage_positions ends.                  *)
SubmitRaises(k) ==
    /\ pc[k] = "submit" /\ outage
    /\ DropFrame(k)
    /\ pc' = [pc EXCEPT ![k] = "idle"]
    /\ todo' = [todo EXCEPT ![k] = {}]
    /\ UNCHANGED <<book, positions, recorded, broker_vars>>

-----------------------------------------------------------------------------

Process(k) ==
    \/ QuoteTransientError(k)
    \/ \E mark \in Marks : FetchQuote(k, mark)
    \/ ReadFlat(k)
    \/ ReadPartial(k)
    \/ ReadUnfilled(k)
    \/ ReadTransientError(k)
    \/ CancelStale(k)
    \/ ConfirmHalve(k)
    \/ ConfirmExit(k)
    \/ ConfirmGivesUp(k)
    \/ SubmitFilled(k)
    \/ SubmitDead(k)
    \/ SubmitWorking(k)
    \/ SubmitRaises(k)

Manage(k) ==
    \/ StartTick(k)
    \/ EndTick(k)
    \/ \E t \in Tickers : Claim(k, t)
    \/ Process(k)

Broker ==
    \/ \E o \in Orders : \E n \in 1..InitQty : Fill(o, n)
    \/ \E o \in Orders : OrderEnds(o)
    \/ \E t \in Tickers : MarketMoves(t)
    \/ OutageToggles

Next == Broker \/ \E k \in Tasks : Manage(k)

Spec == Init /\ [][Next]_vars

(* The scheduler ticks every minute of the session and asyncio resumes     *)
(* every await; the exchange acknowledges a cancel it was sent; a sell     *)
(* 50 bps through the market that is put to the market again and again is  *)
(* filled.                                                                 *)
Fairness ==
    /\ \A k \in Tasks : WF_vars(Manage(k))
    /\ \A o \in Orders : WF_vars(CancelAck(o))
    /\ \A o \in Orders : SF_vars(Fill(o, orders[o].left))

FairSpec == Spec /\ Fairness

-----------------------------------------------------------------------------
(* Properties *)

(* NoUntrackedLiveSell: while a position is in the book, every sell order  *)
(* still fillable at the broker for its ticker is one pending_exits names, *)
(* so the next cancel reaches it (lifecycle.py 187-191, 254-262).          *)
NoUntrackedLiveSell ==
    \A o \in Orders : Live(o) /\ orders[o].ticker \in book
                        => o \in positions[orders[o].ticker].pending

OnOffer(t) ==
    SumFunctionOnSet([o \in Orders |-> orders[o].left],
                     {o \in Orders : Live(o) /\ orders[o].ticker = t})

Sells == INSTANCE Sale WITH
    Names   <- Tickers,
    Start   <- InitQty,
    offered <- [t \in Tickers |-> OnOffer(t)],
    logged  <- recorded

(* ImplementsSale: through every interleaving of the callers with the      *)
(* broker, the daemon is a seller as Sale describes one: it offers shares  *)
(* only when none are on offer and as many as there are, but for what      *)
(* raced its cancel, and logs what has been sold (lifecycle.py 142-345).   *)
ImplementsSale == Sells!Spec

(* AtMostOneLiveSell: cancel-and-confirm before every resubmit means two   *)
(* sells of one ticker are never fillable at once (lifecycle.py 254-274).  *)
AtMostOneLiveSell ==
    \A o1, o2 \in Orders :
        Live(o1) /\ Live(o2) /\ orders[o1].ticker = orders[o2].ticker => o1 = o2

(* OversoldOnlyByRace: whatever the daemon, its concurrent callers and the *)
(* broker do, the shares sold and on offer never exceed the shares held by *)
(* more than what the broker filled between the daemon's position read and *)
(* the end of the cancel that followed it (lifecycle.py 142 to 283).       *)
OversoldOnlyByRace ==
    \A t \in Tickers :
        /\ held[t] + raced[t] >= 0
        /\ \A o \in Orders : Live(o) /\ orders[o].ticker = t
                               => orders[o].left <= held[t] + raced[t]

(* ExitLogSound: the exit history never claims more shares of a ticker     *)
(* than have left the account (record_exit at lifecycle.py 163, 204, 307). *)
ExitLogSound == \A t \in Tickers : recorded[t] <= InitQty - held[t]

(* NeverShort: the account is never short (README.md 7, lifecycle.py       *)
(* 136-138: a resubmit must not short the account).                        *)
NeverShort == \A t \in Tickers : held[t] >= 0

(* FilledExitReconciled: a position whose pending exit has left the broker *)
(* flat is eventually dropped from the book once the broker answers again, *)
(* whatever the price does, a halt included (lifecycle.py 130-138, 222).   *)
(* After a raced fill the id may be gone before the next read; then it is  *)
(* the runtime's reconcile_book that clears the book.                      *)
FilledExitReconciled ==
    \A t \in Tickers :
        <>[]~outage =>
            ((t \in book /\ positions[t].pending # {} /\ held[t] <= 0 /\ raced[t] = 0)
                ~> t \notin book)

(* BreachEventuallyFlat: if the stop stays breached and the broker stays   *)
(* reachable the shares are eventually sold (lifecycle.py 251-345).        *)
BreachEventuallyFlat ==
    \A t \in Tickers : <>[](market[t] = "breached" /\ ~outage) => <>(held[t] <= 0)

(* DecayEventuallyTrimmed: if the score stays decayed and the broker stays *)
(* reachable a position of two or more shares is eventually reduced, also  *)
(* when a first halve order was refused (lifecycle.py 318-320).            *)
DecayEventuallyTrimmed ==
    \A t \in Tickers :
        <>[](market[t] = "decayed" /\ ~outage) => <>(held[t] < InitQty)
=============================================================================
