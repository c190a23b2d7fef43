------------------------------- MODULE Pipeline -------------------------------
(***************************************************************************)
(* The daily data pipeline, from the bars on disk to the entries that are  *)
(* bought: ingest/eod.py (17:00), the nightly scan (22:00), the freshness  *)
(* gate and EntryPath.plan of the premarket job (08:00), and the ticks of  *)
(* the day, which buy what is planned.  Between them stand the parquet     *)
(* cache, the freshness stamp, and the snapshot a restart resumes from.    *)
(*                                                                         *)
(* A day has the hours of the jobs; a job fires on every weekday, and is   *)
(* lost when the process is down or stalls.  The ingest takes one ticker   *)
(* at a time and waits for the source in between, the clock may go on      *)
(* meanwhile, and nothing keeps the ingest of the next day from running    *)
(* beside it.  The process may die at any step, and a write may fail: a    *)
(* partition that was being written is then unreadable, or gone.  A bar is *)
(* the number of its session.  The gates that depend on sizes, prices and  *)
(* positions leave some of the candidates.                                 *)
(***************************************************************************)
EXTENDS Integers, FiniteSets, FiniteSetsExt

CONSTANTS
    Tickers,
    Decisions,    \* the partition of the decision log
    FirstDay, LastDay,
    Weekdays,     \* the days on which the scheduler fires
    Sessions,     \* the days on which the market opens
    MaxAge,       \* data.bars_max_age_days, in hours
    Configs,      \* the settings the process may be started with
    MaxFaults     \* bound: how often the process ends or a write fails

ASSUME CalendarAssumption ==
    /\ FirstDay \in Nat \ {0} /\ LastDay \in Nat /\ FirstDay <= LastDay
    /\ Sessions \subseteq Weekdays /\ Weekdays \subseteq 1..LastDay
ASSUME ConfigsAssumption == Configs \subseteq [auto_enter : BOOLEAN, require_fresh : BOOLEAN]
ASSUME TickersAssumption == IsFiniteSet(Tickers) /\ Decisions \notin Tickers
ASSUME BoundsAssumption  == MaxAge \in Nat /\ MaxFaults \in Nat

VARIABLES
    day, hour,   \* New York time
    due,         \* the job of this hour has fired and not begun
    up,          \* the process runs
    settings,    \* execution.auto_enter and data.require_fresh_for_entries
    bars,        \* ticker -> the sessions in its partition
    torn,        \* partitions that cannot be read
    lost,        \* tickers whose bars a failed write has lost once (history)
    stamp,       \* as_of of the bars in _freshness.json, 0 when there is none
    ing,         \* day -> its ingest
    report,      \* the EodIngestReport of this hour: its day, and bars_failed
                 \* with the tickers whose source lagged behind (history)
    candidates,  \* RuntimeContext.last_candidates
    planned,     \* EntryPath.planned, its day, and the stamp that passed the gate
    snap,        \* the plan in the last snapshot written
    bought,      \* the entries of this session: when, by which plan (history)
    cleared,     \* the premarket job of today has reached the snapshot (history)
    faults

clock   == <<day, hour, due>>
storage == <<bars, torn, lost, stamp>>
vars == <<clock, up, settings, storage, ing, report, candidates, planned, snap, bought, cleared,
          faults>>

Days  == 0..LastDay
Hours == {"premarket", "session", "ingest", "scan"}

NoPlan       == [day |-> 0, names |-> {}, stamp |-> 0]
NoCandidates == {}
NoReport     == [day |-> 0, missed |-> {}]
NoEntries    == [on |-> 0, plan |-> 0, stamp |-> 0, names |-> {}]
NoIngest     == [on |-> FALSE, todo |-> {}, asks |-> {}, newest |-> 0, missed |-> {}]

(* An ingest: whether it runs, the tickers left, the request the source    *)
(* has not answered, the newest bar seen, the tickers that failed or for   *)
(* which the source had not the session before.                            *)
Request == [ticker : Tickers, from : 1..LastDay]
Ingest  == [on : BOOLEAN, todo : SUBSET Tickers, asks : SUBSET Request,
            newest : Days, missed : SUBSET Tickers]

Newest(S)      == Max(S \cup {0})
SessionsTo(d)  == {s \in Sessions : s <= d}
(* Hours from the bar of session s (stamped 00:00) to 08:00 of day d.      *)
Age(s, d)      == 24 * (d - s) + 8
Fresh(d)       == stamp > 0 /\ Age(stamp, d) <= MaxAge
Unreadable     == torn \cap Tickers # {}
Running        == {d \in Days : ing[d].on}

Init ==
    /\ day = FirstDay /\ hour = "premarket" /\ due = FALSE /\ up = TRUE
    /\ settings \in Configs
    /\ bars \in [Tickers -> {{}, SessionsTo(FirstDay - 1)}]
    /\ torn = {} /\ lost = {} /\ stamp = 0
    /\ ing = [d \in Days |-> NoIngest] /\ report = NoReport
    /\ candidates = NoCandidates /\ planned = NoPlan /\ snap = NoPlan
    /\ bought = NoEntries /\ cleared = FALSE /\ faults = 0

Fault == faults < MaxFaults /\ faults' = faults + 1

(* _persist: an OSError leaves the old snapshot.                           *)
Persist ==
    \/ snap' = planned' /\ UNCHANGED faults
    \/ snap' = snap /\ Fault

-----------------------------------------------------------------------------
(* The scheduler *)

NextHour == [h \in Hours |-> CASE h = "premarket" -> "session"
                               [] h = "session"   -> "ingest"
                               [] h = "ingest"    -> "scan"
                               [] h = "scan"      -> "premarket"]

(* Bound: an ingest is over before the hour of the next one is.            *)
OverByNext == hour = "ingest" => Running \subseteq {day}

(* A job that has fired and not begun when the clock goes on is lost, and  *)
(* the ticks of a day may all fail before they come to the plan.           *)
TimePasses ==
    /\ OverByNext
    /\ IF day \in Weekdays /\ hour # "scan"
       THEN day' = day /\ hour' = NextHour[hour]
       ELSE day < LastDay /\ day' = day + 1 /\ hour' = "premarket"
    /\ due' = (up /\ day' \in Weekdays)
    /\ report' = NoReport /\ bought' = NoEntries
    /\ cleared' = (cleared /\ day' = day)
    /\ UNCHANGED <<up, settings, storage, ing, candidates, planned, snap, faults>>

Fires(h) == up /\ due /\ hour = h /\ due' = FALSE

-----------------------------------------------------------------------------
(* 17:00: the ingest *)

(* The job is a task of its own: one of an earlier day may still run.      *)
StartIngest ==
    /\ Fires("ingest")
    /\ ing' = [ing EXCEPT ![day] = [NoIngest EXCEPT !.on = TRUE, !.todo = Tickers]]
    /\ UNCHANGED <<day, hour, up, settings, storage, report, candidates, planned, snap, bought,
                   cleared, faults>>

FetchFromStamp(t) == stamp + 1

(* The first session asked for: the one after the last bar on disk.        *)
FetchFrom(t) == Newest(bars[t]) + 1

UpToDate(d, t) ==
    /\ FetchFrom(t) > d
    /\ ing' = [ing EXCEPT ![d].todo = @ \ {t}, ![d].newest = Newest({@, Newest(bars[t])})]

Ask(d, t) ==
    /\ FetchFrom(t) <= d
    /\ ing' = [ing EXCEPT ![d].todo = @ \ {t},
                          ![d].asks = {[ticker |-> t, from |-> FetchFrom(t)]}]

(* read_partition, and the request. *)
IngestTicker(d, t) ==
    /\ ing[d].on /\ ing[d].asks = {} /\ t \in ing[d].todo \ torn
    /\ UpToDate(d, t) \/ Ask(d, t)
    /\ UNCHANGED <<clock, up, settings, storage, report, candidates, planned, snap, bought,
                   cleared, faults>>

(* The source has published some of the sessions, perhaps none of those    *)
(* asked for; append_partition reads the partition again.                  *)
Answered(d, a) ==
    \E published \in a.from - 1..d :
        LET new == SessionsTo(published) \ SessionsTo(a.from - 1) IN
        /\ new # {} => a.ticker \notin torn
        /\ bars' = [bars EXCEPT ![a.ticker] = @ \cup new]
        /\ ing' = [ing EXCEPT
               ![d].asks = {},
               ![d].newest = Newest({@, a.from - 1} \cup new),
               ![d].missed = IF SessionsTo(d - 1) \subseteq SessionsTo(published) THEN @
                             ELSE @ \cup {a.ticker}]

FetchFailsAll(d, a) ==
    /\ ing' = [ing EXCEPT ![d].asks = {}, ![d].missed = @ \cup {a.ticker}, ![d].todo = {}]
    /\ UNCHANGED bars

FetchFails(d, a) ==
    /\ ing' = [ing EXCEPT ![d].asks = {}, ![d].missed = @ \cup {a.ticker}]
    /\ UNCHANGED bars

FetchEnds(d) ==
    /\ \E a \in ing[d].asks : Answered(d, a) \/ FetchFails(d, a)
    /\ UNCHANGED <<clock, up, settings, torn, lost, stamp, report, candidates, planned, snap,
                   bought, cleared, faults>>

(* A write that fails or is cut off leaves a partition that cannot be read *)
(* or none at all.                                                         *)
Loses(p) ==
    /\ torn' \in {torn, torn \cup {p}}
    /\ lost' = lost \cup ({p} \cap Tickers)
    /\ bars' = [t \in Tickers |-> IF t = p THEN {} ELSE bars[t]]

StampOfRun(d) == IF ing[d].newest > 0 THEN d ELSE stamp
StampAtEnd(d) == IF ing[d].newest > 0 THEN ing[d].newest + 1 ELSE stamp

(* The newest bar of the run; a run that has seen none keeps the stamp.    *)
StampOfBars(d) == IF ing[d].newest > 0 THEN ing[d].newest ELSE stamp

(* record_freshness replaces the stamp in one rename; short interest and   *)
(* earnings, which come next, leave the bars alone.                        *)
EndIngest(d) ==
    /\ ing[d].on /\ ing[d].asks = {} /\ ing[d].todo = {}
    /\ stamp' = StampOfBars(d)
    /\ report' = [day |-> d, missed |-> ing[d].missed]
    /\ ing' = [ing EXCEPT ![d] = NoIngest]
    /\ UNCHANGED planned /\ Persist
    /\ UNCHANGED <<clock, up, settings, bars, torn, lost, candidates, bought, cleared>>

(* What is not caught ticker by ticker ends the job: the read of a torn    *)
(* partition, an error of the fetch that is no _INGEST_ERRORS, any error   *)
(* of append_partition, of record_freshness or of what comes after it.     *)
IngestRaises(d) ==
    /\ ing[d].on
    /\ ing' = [ing EXCEPT ![d] = NoIngest]
    /\ \/ /\ ing[d].asks # {} \/ ing[d].todo \cap torn # {}
          /\ UNCHANGED <<storage, faults>>
       \/ \E a \in ing[d].asks : Loses(a.ticker) /\ Fault /\ UNCHANGED stamp
       \/ /\ ing[d].asks = {} /\ ing[d].todo = {}
          /\ stamp' \in {stamp, StampOfBars(d)}
          /\ UNCHANGED <<bars, torn, lost, faults>>
    /\ UNCHANGED <<clock, up, settings, report, candidates, planned, snap, bought, cleared>>

-----------------------------------------------------------------------------
(* 22:00: the scan *)

(* Which of the tickers with bars are worth an entry is left to the gates. *)
ScanRaises == UNCHANGED <<candidates, snap, faults>>

ScanRanks ==
    /\ ~Unreadable
    /\ \E killed \in BOOLEAN :
         candidates' = IF killed THEN NoCandidates ELSE {t \in Tickers : bars[t] # {}}
    /\ Persist

nightly_scan ==
    /\ Fires("scan")
    /\ UNCHANGED planned
    /\ ScanRaises \/ ScanRanks
    /\ UNCHANGED <<day, hour, up, settings, storage, ing, report, bought, cleared>>

-----------------------------------------------------------------------------
(* 08:00: the plan *)

GateContextOfAnyDay(t) == Cardinality(bars[t]) > 1

(* build_gate_context for the day before: the last bar is of that day, and *)
(* there is one before it.                                                 *)
GateContext(t) ==
    /\ Newest(bars[t]) = day - 1
    /\ Cardinality(bars[t]) > 1

(* The job ends and saves its plan; cleared notes when that succeeds.      *)
EndPremarket == Persist /\ cleared' = (snap' = planned')

(* The plan is dropped in memory only. *)
NotAutomatic ==
    /\ ~settings.auto_enter
    /\ planned' = NoPlan
    /\ UNCHANGED <<torn, faults, snap, cleared>>

Passes == settings.auto_enter /\ (Fresh(day) \/ ~settings.require_fresh)

RefusedKeepingPlan ==
    /\ settings.auto_enter /\ ~Passes
    /\ UNCHANGED <<torn, planned>>
    /\ EndPremarket

Refused ==
    /\ settings.auto_enter /\ ~Passes
    /\ planned' = NoPlan
    /\ UNCHANGED torn /\ EndPremarket

(* The switch is active, there is no candidate, or no equity.              *)
Suppressed ==
    /\ Passes
    /\ planned' = NoPlan
    /\ UNCHANGED torn /\ EndPremarket

(* An unreadable partition, or a failed write of the decision log, raises  *)
(* out of plan after planned was emptied.                                  *)
PlanRaises ==
    /\ Passes /\ candidates # {}
    /\ planned' = NoPlan
    /\ \/ UNCHANGED <<torn, faults>>
       \/ torn' = torn \cup {Decisions} /\ Fault
    /\ UNCHANGED <<snap, cleared>>

Sized ==
    /\ Passes /\ candidates # {} /\ torn = {}
    /\ \E S \in SUBSET {t \in candidates : GateContext(t)} :
         /\ S # {}
         /\ planned' = [day |-> day, names |-> S,
                        stamp |-> IF settings.require_fresh THEN stamp ELSE 0]
    /\ UNCHANGED torn /\ EndPremarket

premarket_verify ==
    /\ Fires("premarket")
    /\ NotAutomatic \/ Refused \/ Suppressed \/ PlanRaises \/ Sized
    /\ UNCHANGED <<day, hour, up, settings, bars, lost, stamp, ing, report, candidates, bought>>

-----------------------------------------------------------------------------
(* The session *)

(* execute_planned: the plan is taken; the switch, a missing quote or a    *)
(* size below one share may leave none or some of its names.  The tick     *)
(* knows weekends but no holidays (is_regular_session).                    *)
Tick ==
    /\ up /\ hour = "session" /\ day \in Weekdays
    /\ planned' = NoPlan
    /\ \E S \in SUBSET planned.names :
         bought' = IF S = {} THEN bought
                   ELSE [on |-> day, plan |-> planned.day, stamp |-> planned.stamp, names |-> S]
    /\ Persist
    /\ UNCHANGED <<clock, up, settings, storage, ing, report, candidates, cleared>>

(* eod_close, at 16:30, knows the holidays.                                *)
eod_close ==
    /\ up /\ hour = "session" /\ day \in Sessions
    /\ UNCHANGED planned
    /\ Persist
    /\ UNCHANGED <<clock, up, settings, storage, ing, report, candidates, bought, cleared>>

-----------------------------------------------------------------------------
(* The process *)

(* The partitions a crash may catch half written.                          *)
BeingWritten ==
    {t \in Tickers : \E d \in Days : \E a \in ing[d].asks : a.ticker = t} \cup
    {p \in {Decisions} : due /\ hour = "premarket" /\ Passes /\ candidates # {}}

Crash ==
    /\ up /\ Fault
    /\ up' = FALSE /\ due' = FALSE
    /\ \/ UNCHANGED <<bars, torn, lost>>
       \/ \E p \in BeingWritten : Loses(p)
    /\ ing' = [d \in Days |-> NoIngest]
    /\ candidates' = NoCandidates /\ planned' = NoPlan
    /\ UNCHANGED <<day, hour, settings, stamp, report, snap, bought, cleared>>

(* The main loop is left: the jobs that run are awaited, and the plan is   *)
(* saved once more.                                                        *)
shutdown ==
    /\ up /\ Running = {} /\ Fault
    /\ up' = FALSE /\ due' = FALSE
    /\ snap' \in {planned, snap}
    /\ candidates' = NoCandidates /\ planned' = NoPlan
    /\ UNCHANGED <<day, hour, settings, storage, ing, report, bought, cleared>>

(* setup: the plan comes back from the snapshot, the candidates do not.    *)
(* The settings may have been edited.                                      *)
Restart ==
    /\ ~up
    /\ up' = TRUE /\ planned' = snap /\ settings' \in Configs
    /\ UNCHANGED <<clock, storage, ing, report, candidates, snap, bought, cleared, faults>>

Next ==
    \/ TimePasses \/ StartIngest
    \/ \E d \in Days : \/ \E t \in Tickers : IngestTicker(d, t)
                       \/ FetchEnds(d) \/ IngestRaises(d) \/ EndIngest(d)
    \/ nightly_scan \/ premarket_verify \/ Tick \/ eod_close \/ Crash
    \/ shutdown \/ Restart

Spec == Init /\ [][Next]_vars

-----------------------------------------------------------------------------
(* Properties *)

Plan == [day : Days, names : SUBSET Tickers, stamp : Days]

TypeOK ==
    /\ day \in FirstDay..LastDay /\ hour \in Hours /\ due \in BOOLEAN /\ up \in BOOLEAN
    /\ settings \in Configs
    /\ bars \in [Tickers -> SUBSET Sessions]
    /\ torn \subseteq Tickers \cup {Decisions} /\ lost \subseteq Tickers
    /\ stamp \in Sessions \cup {0}
    /\ ing \in [Days -> Ingest]
    /\ report \in [day : Days, missed : SUBSET Tickers]
    /\ candidates \subseteq Tickers
    /\ planned \in Plan /\ snap \in Plan
    /\ bought \in [on : Days, plan : Days, stamp : Days, names : SUBSET Tickers]
    /\ cleared \in BOOLEAN /\ faults \in 0..MaxFaults

(* NoHoles: whatever fetches fail, jobs are lost, run side by side or are  *)
(* cut off, the bars of a ticker on disk are all the sessions up to its    *)
(* last one: a fetch starts from the ticker's own last bar (eod.py 83-88), *)
(* so a failure delays bars and never skips one, as long as the source     *)
(* itself skips none.  A write that loses a partition which another ingest *)
(* is about to continue does leave a hole.                                 *)
NoHoles ==
    \A t \in Tickers \ lost : bars[t] = SessionsTo(Newest(bars[t]))

(* CleanIngestCompletes: one ticker failing never blocks the others        *)
(* (eod.py 6-7): an ingest that ends has brought every ticker it does not  *)
(* report as failed to the session before, however far it was behind,      *)
(* unless the source lagged behind for that very ticker (an empty answer   *)
(* is no failure, eod.py 117-119) or a failed write has lost its bars.     *)
CleanIngestCompletes ==
    \A t \in Tickers \ (report.missed \cup lost) :
        SessionsTo(report.day - 1) \subseteq bars[t]

(* StampIsABar: the stamp the gate reads is the day of a bar on disk, not  *)
(* the day an ingest ran, so a holiday, an outage or a late source never   *)
(* makes the cache look fresher than its newest bar (freshness.py 3-5),    *)
(* until a write that fails loses bars.                                    *)
StampIsABar ==
    stamp = 0 \/ lost # {} \/ \E t \in Tickers : stamp \in bars[t]

(* BoughtOnLastBars: what is bought by the plan of the day was planned     *)
(* while the stamp was within its budget, unless the gate was switched     *)
(* off, and with the bar of the last session: the stamp is of the newest   *)
(* bar of any ticker, a ticker whose own bars are behind is still left out *)
(* (context.py 62, runtime.py 441-461).                                    *)
BoughtOnLastBars ==
    bought.on > 0 /\ bought.plan = bought.on =>
        /\ bought.stamp > 0 => Age(bought.stamp, bought.on) <= MaxAge
        /\ \A t \in bought.names \ lost : Newest(SessionsTo(bought.on - 1)) \in bars[t]

(* PlanOfTheDay: a session buys the plan of an earlier day only when the   *)
(* premarket job of its own day was lost or did not reach the snapshot: a  *)
(* plan that no tick has taken is gone after the next premarket, through   *)
(* crashes and restarts (runtime.py 751, 761, 769).                        *)
PlanOfTheDay ==
    [][bought' # bought /\ bought' # NoEntries /\ bought'.plan < day => ~cleared]_vars
=============================================================================
