# Verification of squeeze-hunter

TLA+ models of the trading runtime of squeeze-hunter, the TLC runs that check
them, and TLAPS proofs about them. Paths below are relative to the repository;
`execution/`, `risk/`, `broker/` and so on stand for
`src/squeeze_hunter/execution/` etc.

squeeze-hunter is one asyncio process. A scheduler starts jobs; each job reads
and writes an in-memory book of positions, talks to a broker that fills, loses
and cancels orders on its own, and ends by writing one JSON snapshot, from which
the next process resumes. Everything that is hard in it comes from that:
code between two awaits is atomic, and at every await the broker, the clock, an
operator or a crash may intervene. Beside it stand the daily data pipeline, which
decides what the process may buy in the morning, and a backtest that runs the same
decision rules over a simulated broker.

## 1. Inventory

| Component | Source | State | Operations |
|---|---|---|---|
| Exit daemon | `execution/lifecycle.py`, `risk/stops.py` | `positions`, `pending_exits`, `in_flight`, `exits` | `manage_positions`, `_process_one_position`, `_cancel_and_confirm` |
| Decision core | `execution/decisions.py` | none | `decide_exit`, `apply_exit_decision`, `propose_entries`, `setup_stats_from_trades` |
| Entry path | `execution/entries.py` | `planned`, `pending` | `plan`, `execute_planned`, `settle_pending`, `_finish_entry` |
| Order tracker | `execution/orders.py` | records and their states | `add`, `apply`, `update`, `forget`, `snapshot` |
| Reconciliation | `execution/reconcile.py` | none (writes the book) | `reconcile_book` |
| Runtime jobs | `runtime.py` | the tick mutex, last scan, telemetry | `tick`, `eod_close`, `premarket_verify`, `nightly_scan`, `setup`, `_persist`, `_restore`, `reset_killswitch` |
| Killswitch | `risk/killswitch*.py` | `active`, `reason`, `first_tripped_at`, `active_reasons`, gauges | `evaluate`, `reset`, `to_snapshot`, `restore` |
| Telemetry | `telemetry.py` | marks, heartbeat, freshness, equity samples | `record_*`, `clear_position`, `clamp_freshness_to`, window reads |
| Snapshot | `store/state.py` | one JSON file | `save` (atomic), `load` (may quarantine) |
| TWAP order manager | `execution/oms.py`, `execution/slicing.py` | the plan and the result under construction | `build_twap_plan`, `execute`, `_await_terminal` |
| Broker adapters | `broker/ibkr.py`, `broker/paper.py` | orders of the session, client references | `submit_*`, `cancel_order`, `get_order`, `get_positions`, `fetch_quote` |
| Simulator broker | `broker/simulator.py`, `backtest/cost_model.py` | cash, lots, marks, equity | `submit_buy`, `submit_sell`, `mark_to_market` |
| Scheduler | `scheduler.py` | none | cron jobs and a one-minute interval |
| Gates, sizing, pricing | `risk/gates.py`, `risk/kelly.py`, `execution/pricing.py`, `execution/context.py` | none | pure rules |
| Data cache, providers, ingest | `data/`, `ingest/` | parquet partitions, the freshness stamps | append, dedup, point-in-time read, `ingest_eod`, `record_freshness` |
| Scan, signals, scores | `scan.py`, `universe.py`, `score/`, `signals/` | none | stateless floating-point scoring |
| Decision log | `execution/decision_log.py` | one parquet partition | append |
| Backtest | `backtest/` | book, queued entries, trade log, equity curve, killswitch of the day loop | `BacktestRunner.run`, statistics |
| Monitoring, database, CLI, configuration | `monitor/`, `store/db.py`, `cli.py`, `config.py` | gauges, a schema | I/O around the above |

### How they interact

* `tick` (every minute of a session) runs, in this order: clamp freshness,
  `settle_pending`, `execute_planned`, `manage_positions`, clear the marks of
  exited positions, health and reconcile, quotes and marks, killswitch verdict,
  snapshot. A call that raises ends the tick where it is; `tick_safe` logs it and
  the next minute starts anew. A mutex keeps ticks from overlapping.
* The data of a day go through four jobs: `ingest_eod` (17:00) fetches bars ticker by
  ticker and stamps the newest one; `nightly_scan` (22:00) ranks the tickers and
  keeps the candidates in memory; `premarket_verify` (08:00) checks the stamp and
  plans entries from the candidates; a tick of the session takes the plan and buys.
* `eod_close` (16:30) reconciles; `setup` restores the snapshot, settles what was in
  flight and reconciles, before the first tick; `shutdown` awaits the jobs that run
  and saves once more.
* The backtest calls the same `decide_exit`, `propose_entries`, gates, Kelly sizing,
  telemetry and killswitch as the runtime, on daily bars and without awaits: what is
  proposed at a close fills at the next open.
* Positions enter the book by two ways (`_finish_entry`, `reconcile_book`) and
  leave it by three (`_process_one_position`, `reconcile_book`, restart).
  `pending` shields a ticker from adoption so that one fill is not counted twice.
* The killswitch reads telemetry that three of these calls write, and is obeyed by
  two others (`execute_planned`, `premarket_verify`).
* Memory reaches the disk at the end of a job only. What happened at the broker
  since then is not in the snapshot a crashed process resumes from.

### What is hard here, and what correctness means

| Component | Hard behaviour | What must hold |
|---|---|---|
| Exit daemon | read position, decide, cancel, confirm, submit: five awaits, each with fills and a second caller in between; PendingCancel orders still fill | at most one live sell per ticker, each tracked; no oversale; a breached stop ends flat; the exit log is sound |
| Entry path, tracker, reconcile | the same fill is seen by two observers; sells stay pending and fill between the ticks; the broker session forgets finished orders at a restart; the plan outlives its day | a position the daemon will not look up never exceeds the holding, no fill is lost, no name is bought twice, every holding gets a stop |
| Killswitch and telemetry | a latch with a cooldown, fed by marks that outlive positions, restored after a crash | no entry in the lockout, no ghost mark, gauges in step, the latch clears after calm |
| TWAP order manager | partial fills, lost polls, failed and unacknowledged cancels | nothing is reported before it is bought, slices do not pile up, it ends |
| Data pipeline | some fetches fail, sources are late or answer nothing, jobs are lost or run side by side, a write tears a partition, one stamp stands for all tickers, a snapshot outlives its day | no hole in the bars, the stamp is a bar, what is bought was planned today on the last session's bars |
| Sizing and gates | a size from one close is paid at the next open; candidates are accepted one by one against the same account | the caps hold on what is queued with what is held; the cash is there |
| Backtest | the runner's book and the broker's lots are kept by different code; positions are halved, go days without a bar, and the account is killed with entries queued | the two agree; cash and trade log agree; Kelly sees each trade once; a loss locks entries |
| Snapshot | lost, old or unreadable | all of the above across restarts |

`PROJECT.json` lists such hazards at their lines, with the properties that
cover them or the reason none does.

## 2. Modules

| Module | What it is |
|---|---|
| `Sale` | abstract specification of selling what an account holds |
| `Lifecycle` | the exit daemon, await by await, several callers; implements `Sale` |
| `LifecycleProofs` | its inductive invariant, five safety theorems, and that it implements `Sale` |
| `Entries` | entry path, order tracker, reconcile, the tick around them, crash and restart |
| `EntriesProofs` | its inductive invariant and four theorems: types, covered mirror, no lost fill, no second buy |
| `Killswitch` | verdict, latch, gauges, telemetry marks, the jobs that feed or obey it |
| `KillswitchProofs` | four theorems about it |
| `Purchase` | abstract specification of buying an order in lots |
| `Oms` | the TWAP order manager; implements `Purchase` |
| `OmsProofs` | six theorems: types, plan, result, piling up, escalation, and that it implements `Purchase` |
| `Sizing` | Kelly, the account gates, slippage, commission and realized profit, in integers |
| `Backtest` | the day loop of the backtest over the simulated broker; uses `Sizing` |
| `BacktestProofs` | five theorems about it, and the bound on Kelly |
| `BacktestMoneyProofs` | four more, about its money: ledger, caps, marks, lock after a loss |
| `Pipeline` | ingest, stamp, scan, plan, purchase; crash, stop and restart |
| `PipelineProofs` | six theorems about it |
| `Sums` | lemmas about sums over finite sets, which the proofs cite |
| `MC*` | instances for TLC, with the symmetry sets |

### Lifecycle and Sale

`book`, `positions` (the meta dict: `qty`, `halved`, the pending ids and action),
`in_flight` and `recorded` (what `exits` accounts for) are `LifecycleState`. `pc`,
`todo`, `cur`, `quote`, `sell`, `gap` are the locals of a suspended caller. `orders`
and `held` are the broker's truth; `market` and `outage` are what it would answer
now. `raced` is a history variable: the shares filled while a caller was between
its position read and the end of the cancel that followed.

One action is the code from one await to the next: `Claim` (take the ticker, ask
for a quote), `FetchQuote`, the four outcomes of the position read (`ReadFlat`,
`ReadPartial`, `ReadUnfilled`, `ReadTransientError`), `Evaluate` (stops and
decision), `CancelStale`, the ends of the confirm loop (`NoneOpen`, `ConfirmExit`,
`ConfirmHalve`, `ConfirmGivesUp`), and the outcomes of the submit. `DropFrame` is the `finally`
that releases the ticker when a call raises. Prices are gone: a quote is the
class `evaluate_stops` would put the position in. Order ids may be reused by the
model once an order is over and no meta names it, which keeps it finite.

`Sale` is what the account may rely on, with no meta, no claim and no cancel in it: shares of
a name are offered only while none are on offer, no more of them than there are but for
what was taken while the seller was withdrawing an earlier offer; an offer may be taken in parts
or withdrawn at any time; a sale is logged after it happened. `Lifecycle` implements it with
`offered` the sum of what its live orders have left (`OnOffer`) and `logged` the exits it
recorded. Two callers that both sell, a sell placed before the old one is confirmed dead,
a quantity the read did not cover and an exit logged when it is placed are all steps that
`Sale` does not have.

### Entries

`positions` (mirror quantities), `exits` (the pending exits of each), `planned`, `pending` are
the book; `snap` is the file; `pc`, `job`, `todo`, `buying`, `managing`, `cur` say where the
runtime is suspended and what its local lists still hold. `orders` and `sells` are the buys
and sells at the broker, `held` the account. `clock` walks through the parts of a
trading day (premarket, opening, window, late, closed, evening), and `ticked` keeps
the minute tick from being skipped for a whole part of the day. `Settle`
(`PollUnknown`, `PollInvalid`, `PollTerminal`, `PollWorking`, `CancelLate`,
`CancelInvalid`, `Settled`) is `settle_pending`; `Buy` is `execute_planned`. `Manage`
is the exit daemon one position at a time, whose own module has the detail: it leaves a
position alone (`LeaveAlone`), reads the account for one with a pending exit (`ReadExit`), cancels
that exit while a part of it may still fill (`CancelExit`), and sells, filled at once
(`SellFilled`, the simulator), left pending (`SellPending`, live) or raising (`SellRaises`). A
pending sell fills between the jobs (`SellFills`), and the mirror keeps its quantity until the daemon
looks. `Reconcile`, `Persist`, `EodClose`, `Crash`, `Restart` are the rest of the runtime: a tick's
reconcile leaves a position with a pending exit alone (`InFlight`), one at startup or at the
close does not; a buy that is tracked shields its ticker (`Shielded`); without a price nothing is
adopted. After `Restart` the broker session no longer knows orders that are over, and the
snapshot it resumes from may have been unreadable and moved aside, which is a start with empty
books. `blind` records that a start-up went on without a reconcile, `unseen` what was sold of a name
since the book looked by orders it has no id of, or in the window of its own cancel.

### Killswitch

`ks`, `reasons`, `gauges` are the controller; `marks`, `silent`, `stale` the telemetry;
`before` is the local `positions_before` of the tick. `ks.first` holds what is left
of the cooldown rather than the date of the trip. `lock` and `durable` are history:
how long the last window lasts, and whether the snapshot has it. The tick is
`TickEntries`, `TickManage` (or `TickManageRaises`), `TickHealth`, `TickMarks`,
`Evaluate`, `Persist`, in the order of the code; `PremarketVerify`, `EodClose`,
`reset_killswitch` run between ticks.

### Oms and Purchase

`plan` is `build_twap_plan`'s quantities; `i`, `pc`, `latest`, `slices_filled`,
`cumulative`, `result` are the locals of `execute` and `_await_terminal`; `orders` is
the broker. `handle` is the order a slice was given: its own, or the one of the
slice before when `_place` of the IBKR adapter finds the same client reference.
`Purchase` says what a caller may rely on whatever the broker does: no lot is
overbought, no report runs ahead of what was bought, each slot is reported once. A slot may
turn out to share the lot of an earlier one (`ShareLot`); it then buys nothing, and
reports that lot a second time. `Oms` implements it with `asked`, `lot`, `bought`,
`reported` read off `plan`, `handle`, `orders` and `result`. So `filled_qty` counts the shares
of an order twice when the adapter hands it to two slices, which the code does not
prevent; that no other report is of shares a slice did not buy is what is shown.

### Sizing and Backtest

`Sizing` has no state. A Kelly size is thousandths of equity, a payoff tenths, money
mills: the divisions of the code become integer divisions at the end of each formula.
`Affordable` is the part of the gates that looks at the account.

`Backtest` is one iteration of the loop of `BacktestRunner.run` per session, cut where
other state is read: `Open` (the market brings a bar or none for each ticker; queued
entries fill or are dropped), `Scan` (the scores of the day), `Manage` (every
position on its bar: stops, decision, sale, trade log), `Mark` and `Propose` (equity,
then one candidate at a time through size and gates), `Close` (marks, curve,
killswitch). `lots`, `cash` and `equity` are the broker's; `book` is the runner's `positions`,
`pending` its `pending_entries`, `log` what its trade log adds up to, `curve` the
telemetry's equity samples. `closes` is a history variable: the last price the market
made of a ticker that is held. Bars are arbitrary, so every path of prices is covered that
the set `Bars` allows; scores are the three classes that the decay stops tell apart.

### Pipeline

`day` and `hour` walk through the calendar; `due` says that the job of the hour has fired and
not begun, and is dropped when the clock goes on. `bars` and `torn` are the cache,
`stamp` the freshness file, `candidates` and `planned` the memory of the runtime, `snap` the plan on
disk, `settings` what the operator may change between two starts. `ing` has the locals of the
`ingest_eod` of each day: a job is a task of its own, so the ingest of one day may still run when
that of the next begins. `StartIngest`, `IngestTicker` (read the partition, ask the source from the
last bar on), `FetchEnds` and `EndIngest` are the ingest, one ticker at a time, with the clock,
the other jobs and the other ingest in between. The source answers with some of the sessions asked
for, perhaps with none, or the fetch fails. `IngestRaises` is every error that ends the job: an
unreadable partition, an error of the fetch that is not caught, a write that fails.
`nightly_scan`, `premarket_verify`, `Tick`, `eod_close` are the jobs; `Crash` loses the memory and
may leave the partition that was being written unreadable; `shutdown` ends the process in an
orderly way; `Restart` is `setup`. `report`, `lost`, `bought` and `cleared` are history: the
report of an ingest that ended in this hour with the tickers whose source lagged, the tickers whose bars
a failed or cut-off write has lost once, the entries of the session with the plan and stamp behind them,
and whether the premarket job of today reached the disk. Sizes, prices and positions are left
out: where they decide, any subset of the names may pass.

## 3. Runs

| Run | Instance | Shows |
|---|---|---|
| `lifecycle` | 1 ticker, 2 callers, 2 shares, 2 ids | tracked sells, the bound on overselling, the exit log; refinement of `Sale`, hence never two live sells; filled exits are reconciled; a breach ends flat |
| `entries` | 1 ticker, 2 shares, 2 buy ids, 1 sell id, 1 crash | mirror covered; no lost fill and no second buy but one entry for each crash |
| `entries_live` | 1 ticker, 1 share, 1 buy id, 1 sell id, 1 crash | holdings come under the stops; late buys end |
| `killswitch` | 1 ticker, window of 3 parts of a day | lockout, marks, gauges, eventual clearing |
| `oms` | 4 shares, 3 slices | plan, result, piling up, escalation, termination, refinement |
| `backtest` | 2 tickers, 4 sessions with a weekend, 3 kinds of bar or none | book against broker, cash against log, caps, marks, one trade per entry, the lock after a loss |
| `pipeline` | 2 tickers, Wednesday to Friday, holidays on Monday and Friday, 3 settings, one crash, stop or failed write | no holes, complete ingests, a stamp that is a bar, purchases on the last bars, plans of the day |
| `lifecycle_short`, `lifecycle_halve`, `entries_crash`, `entries_reject`, `killswitch_ghost` | smallest | the disagreements of section 6 |

### Why the bounds are enough

* One ticker: tickers share nothing in the daemon or the entry path but the loop
  over them; the proofs about `Lifecycle` hold for any set. The ghost mark needs
  two, and has them.
* Two shares in `Lifecycle`: one filled, one left, and a halve is one share. A halve that
  fills in part needs four; the safety properties are proved for any quantity.
* Two order ids: the stale order and its replacement. A third could only be a
  third live sell, and two are already excluded.
* One crash: the second starts from a snapshot the first could have left. A crash is
  possible at every await, a save may fail at every job, a load may find nothing. That each
  crash costs at most one entry is proved for any number of them.
* The days are a cycle, not a count: a plan, a record or a mark may be as old as one
  likes. Ages of records are kept as today, yesterday, older, which is all
  `settle_pending` asks.
* A cooldown of three parts of a day spans a session, a night and a session;
  outage thresholds of one tick still separate "fresh" from "too old".
* The backtest's bars are a gain, a calm day at a price of the other slippage class,
  and a crash past every stop, per ticker and day, or no bar; the percentages are such
  that drawdown, three-day loss, gap, hard stop, trailing stop, time stop, both decays
  and both outcomes of Kelly occur within four sessions, and prices such that no division
  of a fill is rounded. The two caps of one position (half the equity) and of the gross
  (70 %) are where two candidates compete. Four sessions hold an entry, a halve and an
  exit, and a cooldown that ends.
* One sell id in `Entries`: after a crash the sell of the old process can be live and unknown while
  the book places none, or takes the same id once it is over; two live sells of a name are the
  subject of `Lifecycle`. `MaxShort` lets sells take the account one share below zero; a deeper
  short looks the same to the book, which ignores negative rows. The proofs hold for any number of ids and shares. `entries_live` has
  orders of one share, so that its fills are whole; partial fills are in `entries`.
* Three days of the pipeline: a cache that starts empty or full per ticker, two days behind a
  session and the holiday behind them, so that each stamp is within or past its budget; the first
  session comes after a holiday, so that a fetch may start on a day without one. With two tickers one can be behind the other. One fault, which
  is a crash, a stop, or a write that fails: a second starts from a disk the first could have left.
* `OverByNext`: an ingest is over before the hour of the next one has passed. Two may run side by
  side, three may not, and none runs on for days.
* The settings of the pipeline are automatic entries with and without the gate, and none;
  the fourth combination differs from the last in nothing the model has.
* Four shares in three slices give empty plans, fewer shares than slices, equal
  slices, and a remainder. Escalation after one filled slice in five or more is
  beyond this bound; its threshold is exact arithmetic on counts.

### Fairness

* A suspended call is resumed (weak fairness of `Manage`, of the runtime's
  jobs, of `Execute`): asyncio schedules every ready task, and every wait in the code
  has a timeout or is a bounded loop.
* The minute tick fires and the supervisor restarts the process (weak
  fairness of `StartTick`, `Restart`); days go by between jobs (strong fairness of
  `TimePasses`, as jobs interrupt it).
* The exchange acknowledges a cancel, and an order that stays live long enough
  fills (`CancelAck`, `Fill`, in `Lifecycle` only). Nothing else is assumed of the
  broker; each liveness property says what must become stable: no outage, no storm, the
  stop breached.

`Backtest` and `Pipeline` state no fairness: their properties are safety, and the
pipeline holds whichever jobs are lost.

Deadlock is checked except in `Oms`, where `execute` returns, in `Backtest`, where the sessions
end, and in `Pipeline`, where the calendar of the instance ends.

## 4. Proofs

All theorems hold for every value of the constants under the stated assumptions
(positive quantities, cooldown and thresholds; Boolean switches).

**Lifecycle.** None of the four properties is inductive. `IInv` adds what a suspended
caller knows. *Owner, Excl*: a caller past `Claim` owns its ticker, so no other caller
writes that meta. *FreeQty*: with no pending sell the mirror is covered by the
holding, up to what raced. *Window, Promise*: after the position read the same
holds although there is a pending sell, because a fill from then on counts as raced.
*Clean*: at the submit no id is pending, hence with *NoUntrackedLiveSell* no sell is
live, hence the new one is the only one. *Ledger* ties the log to the mirror.
`NextInv` has one lemma per action that disturbs anything.

`ImplementsTheSale` is the refinement. As there is one live sell of a ticker at most, the sum
on offer is what that sell has left (`Offers`), and an order that changes leaves the sums of
the other tickers (`OtherOffers`). A fill is then a part of the offer taken, late inside a cancel
window; an order that ends is a withdrawal; a submit is an offer, or a sale at once, which *Clean*
and *Promise* allow; the two places that log afterwards are covered by *Ledger* and
*Window*. Every other step leaves what `Sale` sees alone, the sending of a cancel included.

**Killswitch.** `Switches`: reason and start of the window are there exactly while the
switch is active, in memory and in the snapshot. `LockInv`: while part of a window
is left, the running process holds at least that much and a crashed one left it on
disk; it gives `NoEntryInLockout`, an action property. `GaugeInv` adds that a dead process
shows no gauge. `GapHeld`: a gap mark belongs to a held position and, during the
first half of a tick, to one the tick will clear; it is the invariant that fails when a
sell may raise midway, which is why `GapArmIsSound` assumes `~ManageMayRaise`.

**Entries.** The order of a day is the argument, and `IInv` writes it down. *DayOrders*: outside
the session no order is live, so a plan made then names tickers whose tracked orders, if any,
are dead. *Unsettled*: a tick settles those before it buys, hence what is bought is tracked
by no order the broker knows. *One*: so a name is tracked by one known order at most, and by
none once it is in the book; *OneSaved* says the same of the snapshot for the orders a restart
would find live, and *Kept* that the running process tracks each of these. *Ids* keeps an id
the order it was, since ids are reused, and *Control* says where the runtime may be suspended.
*ExitsHeld*: a name with a pending exit is in the book, so by *One* no tracked buy of it counts. *Backed*:
what a tracked order has filled is held, but for what was sold unseen, and what the account is
short is unseen too. *Covered* is then the main part: so is the mirror of a name without a pending
exit. With *One* a settle puts the fills of an order into the book where there was nothing, so no
fill is counted twice; a pending exit that ends has the account read before the ids are dropped. It
holds through crashes and lost snapshots, with the mirror left out between a restart and its
reconcile, and is given up only where a start-up went on without one, until the next (`blind`).

`NoFillIsLost` and `NoNameTwice` are about what the book may not know of, and rest on a
second invariant, `Accounted`, over the sum of what is held of a name and what its live orders may
still fill. While a known order of the name is tracked, that sum is at most what the order filled and
has left, otherwise at most what the mirror has, plus in either case one entry for each
time the process died (`Credit`). A buy keeps it because *Unsettled* allows one only of a
name that nothing explains a share of; a settle moves the fills of the order to the mirror,
which by *One* was empty; a crash forgets everything, and as the sum is never more than one
entry beyond the credit, one more credit pays for it. So the two theorems hold through any
crashes, old snapshots and lost ones, and without a crash they say that nothing is lost and
nothing bought twice. Each part has its lemmas, one per job of the runtime.

**Oms.** `TypeCorrect` bounds `filled_qty` by the order, which needs the shape of the plan
(*Shape*: equal slices, the remainder last) and *BookedFits*: what is booked fits into
the slices that are over. *Fresh*: a slice not yet placed has no order. *Handles*: a
slice that was given an earlier order was planned for the same quantity. *Capped*, *Past*:
no order is overfilled, and the last answer about it was true and not final.
`ImplementsThePurchase` is the refinement: each step of the manager or the broker buys in
one lot, reports one, does both, lets a slot share the lot of the one before, or is a
stutter of `Purchase`; *Own*, an order stands for itself as long as anything is
bought by it, is what it needs beyond `IInv`. `PlanAddsUp` follows from
*Shape*. `NoPileUp` needs *Withdrawn*: what is polled after a cancel is not working any more; by
*Own* a slice that was given an earlier order leaves its own unplaced. `ResultIsExact` needs *Final*:
an order reported as over is over for good, so that what was reported of it stays true; and
*Tallied*: `cumulative` and `slices_filled` are the sum and the count of what was reported, from
which `Escalates` follows although the property counts bought slices and the code
reported ones.

**Backtest.** `KellyWithinCap` bounds every size by the position cap, whatever was
observed. `BookMatchesBroker` is not inductive alone: *Account* adds the types, that a session is
running (*Running*), that what is in the book is at least a share (*Whole*) and that no name
is queued while it is held (*Apart*), without which a fill would average into a lot the
book replaces. `NoBuyWhileKilled` and `OneTradeForEachEntry` follow from it step by step, the
latter because what fills was not held. `NamesAreCapped` is the counting part of `CapsHold`.
The money is in `BacktestMoneyProofs`. `LedgerAlways`: fills, halves and exits change the held
names together with the terms, so the ledger is first rewritten as a sum over all tickers in
which a name that is not held counts for nothing, and then changed at one ticker
at a time. `CapsAlways`: each proposal adds its own notional to what was
reserved before it, and from the proposals to the next open nothing else moves; the
equity the gates saw is that of the cap. `MarksAlways`: the mark the runner carries for a position is the
last close, and today's bar has it until the day is marked (*Carried*); the equity
recorded for a day is the cash and the lots at those marks (*Valued*). `LossLocks` shows that the window the telemetry compares
with is the one the property names: its oldest sample is a chosen least element, and
`OldestOf` says which session that is.

**Sums.** What a fold over a set computes is a fact by induction, and the induction theorems of the
library take an operator as a parameter, which no prover here instantiates. `Sums` therefore
states induction over a finite set for a *class of sets* (`Induction`), derives it from
the library's theorem that strict subsets of a finite set are well founded, shows that the
fold of the community module is defined and unique, and proves what the other modules cite: taking a
term out or replacing it, monotonicity, sums over a part, equal terms, one term more.

**Pipeline.** `IInv` has two parts. *Data* is about the disk: besides `NoHoles`, `CleanIngestCompletes`
and `StampIsABar` it has *Progress*, for the ingest of each day: the newest bar it has seen is
on disk, the request it waits for continues the bars of its ticker without a gap, and a ticker it is
through with, and will not report, is complete up to the day before. An answer of a second
ingest only adds bars, and the union of two unbroken stretches that start with the first session is
one of them (`PrefixUnion`). *Plans* is about what may be bought: *Sound*, for the plan in memory and
for the one in the snapshot, says that the last session's bars of its names are there, that it
was fresh, and that after a premarket job that reached the snapshot it is of today. `DataKept`
and `PlansKept` are the lemmas for the steps that leave bars or plans as they are or drop them, so
that each action has to show only what it changes; `AnsweredInv` is the step that adds bars. A
failed write is the exception the properties name (`LostInv`). The six theorems follow from `IInv`,
for any settings, any number of faults and any number of ingests at once.

Only model-checked: the liveness properties (they rest on fairness and enabledness), and
`CashCoversEntries`, which is a fact about an instance: a queued entry buys at least one share at
whatever price the next open makes, with slippage and a commission, so that some market
overdraws any given cash, and what must hold is that the caps leave room for the market at hand.

## 5. Not modelled, and what would come next

1. A composition of `Lifecycle` with the tick and with `emergency_flatten`, which is a
   second process at the same account.
2. The slow datasets of the ingest (short interest, earnings): not critical by default,
   so they warn and block nothing.
3. The length of an outage within a day: `Killswitch` has the clamp of the stamps at the open, and no
   property that would miss it (`telemetry.py` 142).
4. The age of a ranking (`runtime.py` 697), and what the daemon does between a start-up that could
   not reconcile and the next reconcile (`runtime.py` 573).

Left out for good: HTTP clients and parsers, option chains, scoring formulas, walk-forward
and significance statistics (floating point, no control), rounding to a tick, alert
delivery, the rows of the decision log, the database schema, logging, configuration and
the holiday table. Gates that look at constant data (listing age, halts, correlation)
never refuse today.

## 6. Where the code and its own text disagree

Each is a run that TLC ends with a counterexample.

* `lifecycle_short`: the quantity of a resubmitted sell comes from the position read
  *before* the stale order is cancelled. A fill during the cancel makes the account
  short by that many shares (`execution/lifecycle.py` 142-283). `OversoldOnlyByRace`
  proves that nothing else can.
* `lifecycle_halve`: `halved` is set before the order is placed, so a refused halve
  is never repeated (`execution/decisions.py` 153).
* `entries_crash`: a crash between `submit_buy` and the snapshot restores the plan and
  buys the name again (`execution/entries.py` 173).
* `entries_reject`: a partly filled order reported Inactive raises in
  `settle_pending` at every tick, so the exit daemon no longer runs
  (`execution/orders.py` 61).
* `killswitch_ghost`: a sell that raises after another position was closed leaves that
  position's mark behind for ever (`runtime.py` 332-335).

Also seen while modelling; no run of its own refutes a property here.

* `execution/oms.py` 106-109 says that two slices are never working at once. That is true only
  of cancels the broker accepted and acknowledged; `LeftWorkingOnlyByOutage` states what the
  code ensures. Equal slices submitted in one second share a client reference
  (`broker/ibkr.py` 332), so that one order stands for both, and `oms.py` 121-134 adds its
  shares a second time; the runtime does not use the order manager yet.
* A plan that comes back from a snapshot carries no date (`runtime.py` 522-524). When the process
  was down through the premarket job, the first tick buys a plan of an earlier day, on a
  stamp of any age; `src/README.md` 203 promises fresh data before entries. `PlanOfTheDay` says
  exactly when this happens.
* The gate context asks for a bar of the calendar day before (`context.py` 62), where the
  comment at `execution/entries.py` 76-78 speaks of the last session, and the budget of
  three days counts a weekend: on a Monday and on the day after a holiday nothing is planned.
* Ticks know weekends and no holidays; only `eod_close` asks the calendar.
* The ingest reads a partition outside its handler, so one unreadable file ends the job for
  all tickers (`ingest/eod.py` 7: "One ticker failing never blocks the others"), and an
  unreadable decision log ends every plan. A torn file of one ticker does this
  every day until someone removes it. The properties of the pipeline leave out tickers whose
  bars a failed or cut-off write has lost; when an ingest beside is waiting for an answer at that
  moment, it writes that answer behind the gap.
* An empty answer of the source is no failure (`ingest/eod.py` 117-119): the ticker stays behind
  and is in no report; when it happens to all of them the stamp stays at the newest bar on
  disk (`tests/ingest/test_eod.py` 114-121 runs such an ingest). `CleanIngestCompletes` leaves a ticker
  out when its source lagged, and the gate context stops it from being bought.
* The scheduler's jobs spawn a task and return (`cli.py` 74-90), so its `max_instances` keeps no two
  ingests apart. Side by side they repeat work; they do harm only when a write fails.
* With `auto_enter` off the premarket job drops the plan in memory and returns without a save
  (`runtime.py` 751-753): a restart before the next job saves brings the old plan back, and the next
  tick buys it, for `execute_planned` does not ask the setting. `cleared` is not set then.
* A crash between a sell and the snapshot loses its id: until the next reconcile the book
  claims what that sell has sold since (`unseen`), and the daemon, finding no pending exit, may
  place a second one. A sell that is still live then is known to nobody.
* A holding for which the broker gives neither a cost nor a price is not adopted
  (`execution/reconcile.py` 66-68). The model has this while the link fails; `HoldingEventuallyManaged` is
  for a broker that answers, prices included.
* The lockout of a window that tripped is on disk only after the alert was awaited (`runtime.py`
  433, 439); a crash in between, or a save that fails before one, loses it. `NoEntryWhileLocked`
  speaks of windows that were saved.
* A scan that raises keeps the candidates of the night before (`runtime.py` 697); what protects
  the plan is the last bar of each name, which `BoughtOnLastBars` shows.
* The backtest buys at least one share of what it queued (`backtest/runner.py` 141), where the
  runtime skips a size below one share (`execution/entries.py` 166-168).
* The three-day window counts weekdays, holidays included (`telemetry.py` 106-110), so after
  a holiday it spans two sessions. `LossLocksEntries` is stated for weeks without one.
* `emergency-flatten` cancels and sells without waiting for the cancels (`cli.py` 513), the race
  of `lifecycle_short` in a process of its own.

## 7. Running

    tlc -workers 2 -config MCLifecycle.cfg MCLifecycle.tla
    tlapm LifecycleProofs.tla

and likewise for the other modules; `PROJECT.json` maps every definition to its lines,
every property to a mutant of the code that breaks it, and every run to its
configuration.
