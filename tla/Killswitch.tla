------------------------------ MODULE Killswitch ------------------------------
(***************************************************************************)
(* The global killswitch: the verdict and the sticky cooldown of           *)
(* risk/killswitch.py, the state, gauges and snapshot of                   *)
(* risk/killswitch_controller.py, the telemetry it is fed by               *)
(* (telemetry.py), and the jobs of runtime.py that feed it or obey it: the *)
(* premarket plan, the tick, the EOD reconcile, the snapshot, the restart. *)
(*                                                                         *)
(* A day is a session and the time off between two of them; the cooldown   *)
(* is counted in these parts, outage times in ticks.  A quote is "gap"     *)
(* when it is further below the entry price than the gap arm allows.  The  *)
(* two equity arms are one, "loss".  While there is a storm broker calls   *)
(* may fail, quotes may gap and equity may be lost.  The calls of a tick   *)
(* that place and settle orders are one step each, and what a snapshot     *)
(* says of the book may be anything: Entries and Lifecycle are about those.*)
(***************************************************************************)
EXTENDS Integers, FiniteSets

CONSTANTS
    Tickers,
    Cooldown,        \* cooldown_days, in parts of a day
    OutageMax,       \* broker_outage_max_seconds, in ticks
    StaleMax,        \* data_stale_max_seconds, in ticks
    ManageMayRaise   \* a sell may raise after other positions were closed

ASSUME CooldownAssumption == Cooldown \in Nat \ {0}
ASSUME ArmsAssumption     == OutageMax \in Nat \ {0} /\ StaleMax \in Nat \ {0}
ASSUME RaiseAssumption    == ManageMayRaise \in BOOLEAN

VARIABLES
    book,        \* keys of lifecycle_state.positions
    planned,     \* entries.planned
    marks,       \* telemetry.position_marks
    silent,      \* ticks since the broker heartbeat
    stale,       \* ticks since a quote was delivered
    ks,          \* active, reason, first_tripped_at
    reasons,     \* active_reasons
    gauges,      \* labels of sh_kill_switch_active that read 1
    pc,          \* where the running job is suspended
    before,      \* positions_before of the tick
    snap,        \* the killswitch in the last snapshot written
    part,        \* part of the day
    ticked,      \* a tick of this session has started
    storm,       \* broker calls may fail, quotes gap, equity be lost
    lock,        \* what is left of the last window opened (history)
    durable      \* that window is in the snapshot (history)

tele_vars  == <<marks, silent, stale>>
ks_vars    == <<ks, reasons, gauges>>
env_vars   == <<part, ticked, storm>>
lock_vars  == <<lock, durable>>
vars == <<book, planned, tele_vars, ks_vars, pc, before, snap, env_vars, lock_vars>>

Reasons == {"loss", "gap_through_stop", "broker_outage", "data_stale"}
Quotes  == {"ok", "gap"}
NoTrip  == -1

(* first is the time left of the window: NoTrip for None, 0 once it is over. *)
KillswitchState == [active : BOOLEAN, reason : Reasons \cup {"none"},
                    first : 0..Cooldown \cup {NoTrip}]
Clear == [active |-> FALSE, reason |-> "none", first |-> NoTrip]

Saved   == [ks : KillswitchState, reasons : SUBSET Reasons]
Nothing == [ks |-> Clear, reasons |-> {}]

TypeOK ==
    /\ book \in SUBSET Tickers /\ planned \in SUBSET Tickers
    /\ marks \in [Tickers -> Quotes \cup {"none"}]
    /\ silent \in 0..OutageMax /\ stale \in 0..StaleMax
    /\ ks \in KillswitchState
    /\ reasons \in SUBSET Reasons /\ gauges \in SUBSET Reasons
    /\ pc \in {"down", "idle", "entries", "manage", "health", "marks", "evaluate",
               "persist", "setup"}
    /\ before \in SUBSET Tickers
    /\ snap \in Saved
    /\ part \in {"off", "session"} /\ ticked \in BOOLEAN
    /\ storm \in BOOLEAN
    /\ lock \in 0..Cooldown /\ durable \in BOOLEAN

Init ==
    /\ book = {} /\ planned = {}
    /\ marks = [t \in Tickers |-> "none"] /\ silent = 0 /\ stale = 0
    /\ ks = Clear /\ reasons = {} /\ gauges = {}
    /\ pc = "idle" /\ before = {} /\ snap = Nothing
    /\ part = "off" /\ ticked = FALSE
    /\ storm = FALSE
    /\ lock = 0 /\ durable = FALSE

-----------------------------------------------------------------------------
(* risk/killswitch.py *)

(* evaluate_killswitch: the first arm that trips names the reason. *)
Verdict(loss) ==
    IF loss THEN "loss"
    ELSE IF \E t \in Tickers : marks[t] = "gap" THEN "gap_through_stop"
    ELSE IF silent = OutageMax THEN "broker_outage"
    ELSE IF stale = StaleMax THEN "data_stale"
    ELSE "none"

(* Mutant of advance_killswitch: the window lasts one step too long. *)
AdvanceOverlong(state, verdict) ==
    IF state.first > 0 THEN [state EXCEPT !.active = TRUE]
    ELSE IF verdict # "none"
         THEN [active |-> TRUE, reason |-> verdict,
               first |-> IF state.active THEN state.first ELSE Cooldown + 1]
    ELSE Clear

(* The state after one step. *)
advance_killswitch(state, verdict) ==
    IF state.first > 0 THEN [state EXCEPT !.active = TRUE]
    ELSE IF verdict # "none"
         THEN [active |-> TRUE, reason |-> verdict,
               first |-> IF state.active THEN state.first ELSE Cooldown]
    ELSE Clear

(* Transition "tripped". *)
OpensWindow(state, verdict) == state.first <= 0 /\ verdict # "none" /\ ~state.active

-----------------------------------------------------------------------------
(* The surroundings *)

Sooner(first) == IF first > 0 THEN first - 1 ELSE first

StormToggles ==
    /\ storm' = ~storm
    /\ UNCHANGED <<book, planned, tele_vars, ks_vars, pc, before, snap, part, ticked, lock_vars>>

TimePasses ==
    /\ pc \in {"idle", "down"}
    /\ pc = "idle" /\ part = "session" => ticked
    /\ part' = IF part = "off" THEN "session" ELSE "off"
    /\ ticked' = FALSE
    /\ ks' = [ks EXCEPT !.first = Sooner(@)]
    /\ snap' = [snap EXCEPT !.ks.first = Sooner(@)]
    /\ lock' = Sooner(lock)
    /\ UNCHANGED <<book, planned, tele_vars, reasons, gauges, pc, before, storm, durable>>

-----------------------------------------------------------------------------
(* Snapshot, written at the end of every job; an OSError leaves the old one. *)

Snapshot == [ks |-> ks, reasons |-> reasons]

Persist ==
    /\ pc = "persist" /\ pc' = "idle"
    /\ \/ snap' = Snapshot /\ durable' = TRUE
       \/ UNCHANGED <<snap, durable>>
    /\ UNCHANGED <<book, planned, tele_vars, ks_vars, before, env_vars, lock>>

(* Mutant of Reconcile: a dropped position keeps its mark. *)
ReconcileKeepsMarks ==
    \/ \E dropped \in SUBSET book, adopted \in SUBSET (Tickers \ book) :
          /\ book' = (book \ dropped) \cup adopted
          /\ marks' = [t \in Tickers |-> IF t \in adopted THEN "ok" ELSE marks[t]]
    \/ storm /\ UNCHANGED <<book, marks>>

(* reconcile_book: drops and adopts, with their marks; nothing when the    *)
(* broker does not answer.                                                 *)
Reconcile ==
    \/ \E dropped \in SUBSET book, adopted \in SUBSET (Tickers \ book) :
          /\ book' = (book \ dropped) \cup adopted
          /\ marks' = [t \in Tickers |-> CASE t \in dropped -> "none"
                                           [] t \in adopted -> "ok"
                                           [] OTHER         -> marks[t]]
    \/ storm /\ UNCHANGED <<book, marks>>

-----------------------------------------------------------------------------
(* The jobs outside the session *)

(* premarket_verify: refused on stale data, suppressed by the switch. *)
PremarketVerify ==
    /\ pc = "idle" /\ part = "off"
    /\ planned' \in IF ks.active THEN {{}} ELSE SUBSET (Tickers \ book)
    /\ pc' = "persist"
    /\ UNCHANGED <<book, tele_vars, ks_vars, before, snap, env_vars, lock_vars>>

EodClose ==
    /\ pc = "idle" /\ part = "off"
    /\ Reconcile
    /\ pc' = "persist"
    /\ UNCHANGED <<planned, silent, stale, ks_vars, before, snap, env_vars, lock_vars>>

reset_killswitch ==
    /\ pc = "idle"
    /\ ks' = Clear /\ reasons' = {} /\ gauges' = gauges \ reasons
    /\ lock' = 0
    /\ UNCHANGED <<book, planned, tele_vars, pc, before, snap, env_vars, durable>>

-----------------------------------------------------------------------------
(* The tick *)

AtMost(n, max) == IF n > max THEN max ELSE n

(* clamp_freshness_to: the outage times restart at the first tick of a day. *)
StartTick ==
    /\ pc = "idle" /\ part = "session"
    /\ silent' = IF ticked THEN AtMost(silent + 1, OutageMax) ELSE 0
    /\ stale'  = IF ticked THEN AtMost(stale + 1, StaleMax) ELSE 0
    /\ before' = book
    /\ ticked' = TRUE /\ pc' = "entries"
    /\ UNCHANGED <<book, planned, marks, ks_vars, snap, part, storm, lock_vars>>

(* What execute_planned may buy: nothing while the switch is active. *)
Buyable == IF ks.active THEN {} ELSE planned \ book

(* execute_planned: before the window nothing, then the list is emptied.   *)
(* A buy that fills later is taken for a position adopted by Reconcile.    *)
(* A call that raises ends the tick.                                       *)
TickEntries ==
    /\ pc = "entries"
    /\ pc' = "manage" \/ (storm /\ pc' = "idle")
    /\ \/ UNCHANGED <<book, planned, marks>>
       \/ \E bought \in SUBSET Buyable :
             /\ planned' = {} /\ book' = book \cup bought
             /\ marks' = [t \in Tickers |-> IF t \in bought THEN "ok" ELSE marks[t]]
    /\ UNCHANGED <<silent, stale, ks_vars, before, snap, env_vars, lock_vars>>

(* Mutant of ClearExited: marks outlive their positions. *)
ClearNone(gone) == UNCHANGED marks

ClearExited(gone) == marks' = [t \in Tickers |-> IF t \in gone THEN "none" ELSE marks[t]]

(* manage_positions closes some positions, then the marks of those held    *)
(* when the tick started go.                                               *)
TickManage ==
    /\ pc = "manage" /\ pc' = "health"
    /\ \E exits \in SUBSET book : book' = book \ exits
    /\ ClearExited(before \ book')
    /\ before' = {}
    /\ UNCHANGED <<planned, silent, stale, ks_vars, snap, env_vars, lock_vars>>

(* submit_sell raises in manage_positions, perhaps after other positions   *)
(* were closed: the tick ends there.                                       *)
TickManageRaises ==
    /\ storm
    /\ pc = "manage" /\ pc' = "idle"
    /\ \E exits \in SUBSET book :
          /\ exits # book /\ (exits # {} => ManageMayRaise)
          /\ book' = book \ exits
    /\ UNCHANGED <<planned, tele_vars, ks_vars, before, snap, env_vars, lock_vars>>

(* health: a heartbeat, freshness for a flat book, the tick's reconcile. *)
TickHealth ==
    /\ pc = "health"
    /\ \/ /\ silent' = 0
          /\ stale' = IF book = {} THEN 0 ELSE stale
          /\ Reconcile
          /\ pc' = "marks"
       \/ /\ storm
          /\ pc' = "evaluate"
          /\ UNCHANGED <<book, tele_vars>>
    /\ UNCHANGED <<planned, ks_vars, before, snap, env_vars, lock_vars>>

TickMarks ==
    /\ pc = "marks" /\ pc' = "evaluate"
    /\ \E quoted \in SUBSET book, gapped \in SUBSET book :
          /\ storm \/ (quoted = book /\ gapped = {})
          /\ marks' = [t \in Tickers |-> CASE t \in quoted \cap gapped -> "gap"
                                           [] t \in quoted \ gapped   -> "ok"
                                           [] OTHER                   -> marks[t]]
          /\ stale' = IF quoted = {} THEN stale ELSE 0
    /\ UNCHANGED <<book, planned, silent, ks_vars, before, snap, env_vars, lock_vars>>

(* Mutant of SetGauges: only the last reason's gauge is put back. *)
SetGaugesLast(next) ==
    IF next.active
    THEN gauges' = gauges \cup {next.reason} /\ reasons' = reasons \cup {next.reason}
    ELSE gauges' = gauges \ {ks.reason} /\ reasons' = {}

SetGauges(next) ==
    IF next.active
    THEN gauges' = gauges \cup {next.reason} /\ reasons' = reasons \cup {next.reason}
    ELSE gauges' = gauges \ reasons /\ reasons' = {}

Evaluate ==
    /\ pc = "evaluate" /\ pc' = "persist"
    /\ \E loss \in {FALSE, storm} :
          /\ ks' = advance_killswitch(ks, Verdict(loss))
          /\ IF OpensWindow(ks, Verdict(loss))
             THEN lock' = Cooldown /\ durable' = FALSE
             ELSE UNCHANGED lock_vars
    /\ SetGauges(ks')
    /\ UNCHANGED <<book, planned, tele_vars, before, snap, env_vars>>

-----------------------------------------------------------------------------
(* The process *)

Crash ==
    /\ pc # "down" /\ pc' = "down"
    /\ book' = {} /\ planned' = {}
    /\ marks' = [t \in Tickers |-> "none"] /\ silent' = 0 /\ stale' = 0
    /\ ks' = Clear /\ reasons' = {} /\ gauges' = {} /\ before' = {}
    /\ lock' = IF durable THEN lock ELSE 0
    /\ UNCHANGED <<snap, env_vars, durable>>

(* Mutant of Restored: the window's start is not read back. *)
RestoredWithoutWindow(saved) == [saved EXCEPT !.first = NoTrip]

(* KillswitchController.restore *)
Restored(saved) == saved

(* setup: _restore marks every position at its entry price; an unreadable  *)
(* snapshot is a clean start, and the lockout is lost with it.             *)
Restart ==
    /\ pc = "down" /\ pc' = "setup"
    /\ \/ /\ book' \in SUBSET Tickers
          /\ planned' \in SUBSET Tickers
          /\ ks' = Restored(snap.ks) /\ reasons' = snap.reasons
          /\ UNCHANGED <<snap, lock>>
       \/ /\ snap' = Nothing /\ lock' = 0
          /\ UNCHANGED <<book, planned, ks, reasons>>
    /\ marks' = [t \in Tickers |-> IF t \in book' THEN "ok" ELSE "none"]
    /\ UNCHANGED <<silent, stale, gauges, before, env_vars, durable>>

Setup ==
    /\ pc = "setup" /\ pc' = "persist"
    /\ Reconcile
    /\ UNCHANGED <<planned, silent, stale, ks_vars, before, snap, env_vars, lock_vars>>

-----------------------------------------------------------------------------

InJob == \/ TickEntries \/ TickManage \/ TickManageRaises \/ TickHealth \/ TickMarks
         \/ Evaluate \/ Persist \/ Setup

Runtime == \/ InJob \/ StartTick \/ Restart \/ PremarketVerify \/ EodClose

Environment == StormToggles \/ TimePasses \/ reset_killswitch \/ Crash

Next == Runtime \/ Environment

Spec == Init /\ [][Next]_vars

(* A suspended job resumes, the tick fires, the process is restarted, and  *)
(* between jobs the day goes on.                                           *)
Fairness ==
    /\ WF_vars(InJob \/ StartTick \/ Restart)
    /\ SF_vars(TimePasses)

FairSpec == Spec /\ Fairness

-----------------------------------------------------------------------------
(* Properties *)

(* NoEntryWhileLocked: from the trip on and for the whole cooldown no buy  *)
(* is submitted, whatever the verdict says meanwhile and through crashes   *)
(* and restarts, unless the operator resets the switch or the snapshot is  *)
(* lost (killswitch.py 64-71, entries.py 147-149, runtime.py 749-769).     *)
NoEntryWhileLocked == [][pc = "entries" /\ ~(book' \subseteq book) => lock = 0]_vars

(* NoGhostGap: when the verdict is taken, a gap that can trip the switch   *)
(* is the gap of a position still held: the mark of an exited, dropped or  *)
(* merged position must not arm it (runtime.py 326-336, reconcile.py 61).  *)
NoGhostGap ==
    pc = "evaluate" => \A t \in Tickers : marks[t] = "gap" => t \in book

(* GaugesTrackSwitch: a gauge that reads 1 has a label the next clear will *)
(* put back, and none reads 1 while the switch is off, although the reason *)
(* changes within a cycle (killswitch_controller.py 60-88).                *)
GaugesTrackSwitch == gauges \subseteq reasons /\ (~ks.active => gauges = {})

(* KillEventuallyClears: a switch does not stay on for ever once broker,   *)
(* quotes and equity are back to normal for good (killswitch.py 64-82,     *)
(* runtime.py 322-326).                                                    *)
KillEventuallyClears == <>[](~storm) => []<>(~ks.active)
=============================================================================
