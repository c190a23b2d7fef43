--------------------------- MODULE KillswitchProofs ---------------------------
(***************************************************************************)
(* Proofs about Killswitch, for every set of tickers, every cooldown and   *)
(* every threshold of the outage arms.                                     *)
(***************************************************************************)
EXTENDS Killswitch, TLAPS

(* The three fields of the switch agree: there is a reason and a start of  *)
(* the window exactly while it is active.                                  *)
WellFormed(state) ==
    /\ state \in KillswitchState
    /\ state.active <=> state.reason # "none"
    /\ state.active <=> state.first # NoTrip

(* One step of the sticky cooldown keeps the fields in agreement, and no   *)
(* step touches a window that is still open.                               *)
LEMMA AdvanceWellFormed ==
    ASSUME NEW state, WellFormed(state), NEW verdict \in Reasons \cup {"none"}
    PROVE  /\ WellFormed(advance_killswitch(state, verdict))
           /\ state.first > 0 => advance_killswitch(state, verdict) = state
<1> USE DEF WellFormed
<1>1. CASE state.first > 0
  <2>1. state.active
      BY <1>1 DEF KillswitchState, NoTrip
  <2>2. [state EXCEPT !.active = TRUE] = state
      BY <2>1 DEF KillswitchState
  <2> QED BY <1>1, <2>2 DEF advance_killswitch
<1>2. CASE ~(state.first > 0) /\ verdict # "none"
  <2>1. (IF state.active THEN state.first ELSE Cooldown) \in 0..Cooldown
      BY CooldownAssumption DEF KillswitchState, NoTrip
  <2> QED BY <1>2, <2>1 DEF advance_killswitch, KillswitchState, NoTrip
<1>3. CASE ~(state.first > 0) /\ verdict = "none"
    BY <1>3 DEF advance_killswitch, KillswitchState, Clear, NoTrip
<1> QED BY <1>1, <1>2, <1>3

(* The verdict names one of the arms, or none. *)
LEMMA VerdictType == ASSUME NEW loss PROVE Verdict(loss) \in Reasons \cup {"none"}
BY DEF Verdict, Reasons

(* What a part of a day leaves of a window is not more than there was. *)
LEMMA SoonerType ==
    /\ \A n \in 0..Cooldown : Sooner(n) \in 0..Cooldown /\ Sooner(n) <= n
    /\ Sooner(NoTrip) = NoTrip
BY CooldownAssumption DEF Sooner, NoTrip

(* The reconcile keeps the types of the book and of the marks. *)
LEMMA ReconcileType ==
    ASSUME TypeOK, Reconcile
    PROVE  book' \in SUBSET Tickers /\ marks' \in [Tickers -> Quotes \cup {"none"}]
<1>1. CASE storm /\ UNCHANGED <<book, marks>>
    BY <1>1 DEF TypeOK
<1>2. CASE \E dropped \in SUBSET book, adopted \in SUBSET (Tickers \ book) :
              /\ book' = (book \ dropped) \cup adopted
              /\ marks' = [t \in Tickers |-> CASE t \in dropped -> "none"
                                               [] t \in adopted -> "ok"
                                               [] OTHER         -> marks[t]]
    BY <1>2 DEF TypeOK, Quotes
<1> QED BY <1>1, <1>2 DEF Reconcile

-----------------------------------------------------------------------------
(* Type correctness *)

(* A tick's actions keep the types. *)
LEMMA TickType ==
    ASSUME TypeOK,
           StartTick \/ TickEntries \/ TickManage \/ TickManageRaises \/ TickHealth \/ TickMarks
    PROVE  TypeOK'
<1>1. CASE StartTick
    BY <1>1, ArmsAssumption
    DEF StartTick, TypeOK, AtMost, ks_vars, lock_vars
<1>2. CASE TickEntries
  <2>1. book' \in SUBSET Tickers /\ planned' \in SUBSET Tickers
        /\ marks' \in [Tickers -> Quotes \cup {"none"}]
      BY <1>2 DEF TickEntries, Buyable, TypeOK, Quotes
  <2> QED BY <1>2, <2>1 DEF TickEntries, TypeOK, ks_vars, env_vars, lock_vars
<1>3. CASE TickManage
    BY <1>3 DEF TickManage, ClearExited, TypeOK, Quotes, ks_vars, env_vars, lock_vars
<1>4. CASE TickManageRaises
    BY <1>4 DEF TickManageRaises, TypeOK, tele_vars, ks_vars, env_vars, lock_vars
<1>5. CASE TickHealth
  <2>1. silent' \in 0..OutageMax /\ stale' \in 0..StaleMax
      BY <1>5, ArmsAssumption DEF TickHealth, TypeOK, tele_vars
  <2>2. book' \in SUBSET Tickers /\ marks' \in [Tickers -> Quotes \cup {"none"}]
      BY <1>5, ReconcileType DEF TickHealth, TypeOK, tele_vars
  <2> QED BY <1>5, <2>1, <2>2 DEF TickHealth, TypeOK, ks_vars, env_vars, lock_vars
<1>6. CASE TickMarks
  <2>1. marks' \in [Tickers -> Quotes \cup {"none"}]
      BY <1>6 DEF TickMarks, TypeOK, Quotes
  <2>2. stale' \in 0..StaleMax
      BY <1>6, ArmsAssumption DEF TickMarks, TypeOK
  <2> QED BY <1>6, <2>1, <2>2 DEF TickMarks, TypeOK, ks_vars, env_vars, lock_vars
<1> QED BY <1>1, <1>2, <1>3, <1>4, <1>5, <1>6

Switches == WellFormed(ks) /\ WellFormed(snap.ks)

(* The verdict keeps the types and the agreement. *)
LEMMA EvaluateType == ASSUME TypeOK, Switches, Evaluate PROVE TypeOK' /\ Switches'
<1>1. PICK loss \in {FALSE, storm} :
          /\ ks' = advance_killswitch(ks, Verdict(loss))
          /\ IF OpensWindow(ks, Verdict(loss))
             THEN lock' = Cooldown /\ durable' = FALSE
             ELSE UNCHANGED lock_vars
    BY DEF Evaluate
<1>2. WellFormed(ks')
    BY <1>1, AdvanceWellFormed, VerdictType DEF Switches
<1>3. lock' \in 0..Cooldown /\ durable' \in BOOLEAN
  <2>1. CASE OpensWindow(ks, Verdict(loss))
    <3>1. lock' = Cooldown /\ durable' = FALSE
        BY <1>1, <2>1, Zenon
    <3>2. lock' \in 0..Cooldown
        BY <3>1, CooldownAssumption
    <3>3. durable' \in BOOLEAN
        BY <3>1, Zenon
    <3> QED BY <3>2, <3>3
  <2>2. CASE ~OpensWindow(ks, Verdict(loss))
      BY <1>1, <2>2 DEF TypeOK, lock_vars
  <2> QED BY <2>1, <2>2
<1>4. reasons' \in SUBSET Reasons /\ gauges' \in SUBSET Reasons
  <2>1. CASE ks'.active
    <3>1. ks'.reason \in Reasons
        BY <1>2, <2>1 DEF WellFormed, KillswitchState
    <3> QED BY <2>1, <3>1 DEF Evaluate, SetGauges, TypeOK
  <2>2. CASE ~ks'.active
      BY <2>2 DEF Evaluate, SetGauges, TypeOK
  <2> QED BY <2>1, <2>2
<1>5. WellFormed(snap'.ks)
    BY DEF Evaluate, Switches
<1> QED BY <1>2, <1>3, <1>4, <1>5
        DEF Evaluate, TypeOK, Switches, WellFormed, tele_vars, env_vars

(* So do the jobs outside the session and the process's own steps. *)
LEMMA JobType ==
    ASSUME TypeOK, Switches,
           \/ Persist \/ PremarketVerify \/ EodClose \/ reset_killswitch
           \/ Crash \/ Restart \/ Setup
    PROVE  TypeOK' /\ Switches'
<1> USE DEF Switches, WellFormed
<1>0. WellFormed(Clear) /\ Nothing \in Saved
    BY CooldownAssumption DEF Clear, KillswitchState, NoTrip, Nothing, Saved
<1>1. CASE Persist
  <2>1. snap' \in Saved /\ WellFormed(snap'.ks)
      BY <1>1 DEF Persist, Snapshot, Saved, TypeOK
  <2>2. durable' \in BOOLEAN
      BY <1>1, Zenon DEF Persist, TypeOK
  <2> QED BY <1>1, <2>1, <2>2 DEF Persist, TypeOK, tele_vars, ks_vars, env_vars
<1>2. CASE PremarketVerify
    BY <1>2 DEF PremarketVerify, TypeOK, tele_vars, ks_vars, env_vars, lock_vars
<1>3. CASE EodClose
    BY <1>3, ReconcileType DEF EodClose, TypeOK, ks_vars, env_vars, lock_vars
<1>4. CASE reset_killswitch
    BY <1>4, <1>0, CooldownAssumption DEF reset_killswitch, TypeOK, tele_vars, env_vars
<1>5. CASE Crash
    BY <1>5, <1>0, CooldownAssumption, ArmsAssumption DEF Crash, TypeOK, env_vars
<1>6. CASE Restart
  <2>1. marks' \in [Tickers -> Quotes \cup {"none"}]
      BY <1>6 DEF Restart, Quotes
  <2>2. /\ book' \in SUBSET Tickers /\ planned' \in SUBSET Tickers
        /\ WellFormed(ks') /\ reasons' \in SUBSET Reasons
        /\ snap' \in Saved /\ WellFormed(snap'.ks) /\ lock' \in 0..Cooldown
      BY <1>6, <1>0, CooldownAssumption DEF Restart, Restored, TypeOK, Saved, Nothing
  <2> QED BY <1>6, <2>1, <2>2 DEF Restart, TypeOK, env_vars
<1>7. CASE Setup
    BY <1>7, ReconcileType DEF Setup, TypeOK, ks_vars, env_vars, lock_vars
<1> QED BY <1>1, <1>2, <1>3, <1>4, <1>5, <1>6, <1>7

(* The passing of time keeps the types and the agreement. *)
LEMMA TimeType == ASSUME TypeOK, Switches, TimePasses PROVE TypeOK' /\ Switches'
<1>1. ASSUME NEW state, WellFormed(state)
      PROVE  WellFormed([state EXCEPT !.first = Sooner(@)])
  <2>1. /\ Sooner(state.first) \in 0..Cooldown \cup {NoTrip}
        /\ Sooner(state.first) = NoTrip <=> state.first = NoTrip
      BY <1>1, SoonerType DEF WellFormed, KillswitchState, NoTrip
  <2> QED BY <1>1, <2>1 DEF WellFormed, KillswitchState
<1>2. WellFormed(ks')
    BY <1>1 DEF TimePasses, Switches
<1>3. snap' \in Saved /\ WellFormed(snap'.ks)
  <2>1. snap'.ks = [snap.ks EXCEPT !.first = Sooner(@)] /\ snap'.reasons = snap.reasons
      BY DEF TimePasses, TypeOK, Saved
  <2>2. WellFormed(snap'.ks)
      BY <1>1, <2>1 DEF Switches
  <2> QED BY <2>1, <2>2 DEF TimePasses, TypeOK, Saved, WellFormed
<1>4. lock' \in 0..Cooldown
    BY SoonerType DEF TimePasses, TypeOK
<1> QED BY <1>2, <1>3, <1>4 DEF TimePasses, TypeOK, Switches, WellFormed, tele_vars

(* The type invariant, with the agreement it rests on. *)
LEMMA TypeInvariant == Spec => [](TypeOK /\ Switches)
<1>1. Init => TypeOK /\ Switches
  <2>1. WellFormed(Clear) /\ Nothing \in Saved
      BY CooldownAssumption DEF WellFormed, Clear, KillswitchState, NoTrip, Nothing, Saved
  <2>2. Init => lock \in 0..Cooldown /\ silent \in 0..OutageMax /\ stale \in 0..StaleMax
      BY CooldownAssumption, ArmsAssumption DEF Init
  <2>3. Init => marks \in [Tickers -> Quotes \cup {"none"}]
      BY DEF Init
  <2>4. Nothing.ks = Clear
      BY DEF Nothing
  <2> QED BY <2>1, <2>2, <2>3, <2>4 DEF Init, TypeOK, Switches, WellFormed
<1>2. TypeOK /\ Switches /\ [Next]_vars => (TypeOK /\ Switches)'
  <2> SUFFICES ASSUME TypeOK, Switches, [Next]_vars
               PROVE  (TypeOK /\ Switches)'
      OBVIOUS
  <2>1. CASE StartTick \/ TickEntries \/ TickManage \/ TickManageRaises \/ TickHealth \/ TickMarks
    <3>1. UNCHANGED <<ks, snap>>
        BY <2>1 DEF StartTick, TickEntries, TickManage, TickManageRaises, TickHealth, TickMarks,
                    ks_vars
    <3> QED BY <2>1, <3>1, TickType DEF Switches
  <2>2. CASE Evaluate
      BY <2>2, EvaluateType
  <2>3. CASE \/ Persist \/ PremarketVerify \/ EodClose \/ reset_killswitch
             \/ Crash \/ Restart \/ Setup
      BY <2>3, JobType
  <2>4. CASE TimePasses
      BY <2>4, TimeType
  <2>5. CASE StormToggles
      BY <2>5 DEF StormToggles, TypeOK, Switches, tele_vars, ks_vars, lock_vars
  <2>6. CASE UNCHANGED vars
      BY <2>6 DEF vars, TypeOK, Switches, tele_vars, ks_vars, env_vars, lock_vars
  <2> QED BY <2>1, <2>2, <2>3, <2>4, <2>5, <2>6 DEF Next, Runtime, InJob, Environment
<1> QED BY <1>1, <1>2, PTL DEF Spec

(* The type invariant: the window never exceeds the cooldown and the       *)
(* outage times never pass their thresholds.                               *)
THEOREM TypeCorrect == Spec => []TypeOK
BY TypeInvariant, PTL

-----------------------------------------------------------------------------
(* The lockout *)

(* While part of a window is left, the running process has it in memory,   *)
(* and a process that died left it in the snapshot.                        *)
LockInv ==
    /\ lock > 0 /\ pc # "down" => ks.first >= lock
    /\ lock > 0 /\ durable => snap.ks.first >= lock
    /\ lock > 0 /\ pc = "down" => durable

(* Every step keeps the window where the lockout needs it. *)
LEMMA LockStep ==
    ASSUME TypeOK, Switches, LockInv, [Next]_vars
    PROVE  LockInv'
<1> USE DEF LockInv
<1>1. CASE StartTick \/ TickEntries \/ TickManage \/ TickManageRaises \/ TickHealth \/ TickMarks
  <2>1. pc # "down" /\ pc' # "down" /\ UNCHANGED <<ks, snap, lock, durable>>
      BY <1>1 DEF StartTick, TickEntries, TickManage, TickManageRaises, TickHealth, TickMarks,
                  ks_vars, lock_vars
  <2> QED BY <2>1
<1>2. CASE PremarketVerify \/ EodClose \/ Setup
  <2>1. pc # "down" /\ pc' # "down" /\ UNCHANGED <<ks, snap, lock, durable>>
      BY <1>2 DEF PremarketVerify, EodClose, Setup, ks_vars, lock_vars
  <2> QED BY <2>1
<1>3. CASE Persist
    BY <1>3 DEF Persist, Snapshot, ks_vars
<1>4. CASE reset_killswitch
    BY <1>4 DEF reset_killswitch
<1>5. CASE Crash
    BY <1>5 DEF Crash
<1>6. CASE Restart
    BY <1>6 DEF Restart, Restored
<1>7. CASE Evaluate
  <2>1. PICK loss \in {FALSE, storm} :
            /\ ks' = advance_killswitch(ks, Verdict(loss))
            /\ IF OpensWindow(ks, Verdict(loss))
               THEN lock' = Cooldown /\ durable' = FALSE
               ELSE UNCHANGED lock_vars
      BY <1>7 DEF Evaluate
  <2>2. pc # "down" /\ pc' # "down" /\ snap' = snap
      BY <1>7 DEF Evaluate
  <2>3. CASE OpensWindow(ks, Verdict(loss))
    <3>1. lock' = Cooldown /\ ~durable'
        BY <2>1, <2>3, Zenon
    <3>2. ks'.first = Cooldown
        BY <2>1, <2>3, CooldownAssumption
        DEF OpensWindow, advance_killswitch, Switches, WellFormed, KillswitchState, NoTrip
    <3> QED BY <2>2, <3>1, <3>2, CooldownAssumption
  <2>4. CASE ~OpensWindow(ks, Verdict(loss))
    <3>1. lock' = lock /\ durable' = durable
        BY <2>1, <2>4 DEF lock_vars
    <3>2. ks.first > 0 => ks' = ks
        BY <2>1, AdvanceWellFormed, VerdictType DEF Switches
    <3>3. lock > 0 => ks.first > 0
        BY <2>2 DEF Switches, WellFormed, KillswitchState, TypeOK, NoTrip
    <3> QED BY <2>2, <3>1, <3>2, <3>3 DEF TypeOK
  <2> QED BY <2>3, <2>4
<1>8. CASE TimePasses
  <2>1. /\ lock' = Sooner(lock)
        /\ ks'.first = Sooner(ks.first)
        /\ snap'.ks.first = Sooner(snap.ks.first)
        /\ UNCHANGED <<pc, durable>>
      BY <1>8 DEF TimePasses, TypeOK, Saved, KillswitchState
  <2>2. lock \in Int /\ ks.first \in Int /\ snap.ks.first \in Int
      BY CooldownAssumption DEF TypeOK, Saved, KillswitchState, NoTrip
  <2>3. \A first \in Int : lock' > 0 /\ first >= lock => lock > 0 /\ Sooner(first) >= lock'
      BY <2>1, <2>2 DEF Sooner
  <2>4. lock' > 0 => lock > 0
      BY <2>1, <2>2 DEF Sooner
  <2> QED BY <2>1, <2>2, <2>3, <2>4
<1>9. CASE StormToggles \/ UNCHANGED vars
    BY <1>9 DEF StormToggles, vars, ks_vars, lock_vars
<1> QED BY <1>1, <1>2, <1>3, <1>4, <1>5, <1>6, <1>7, <1>8, <1>9
        DEF Next, Runtime, InJob, Environment

(* The lockout is where the process, alive or restarted, will find it. *)
LEMMA LockInvariant == Spec => []LockInv
<1>1. Init => LockInv
    BY DEF Init, LockInv
<1>2. TypeOK /\ Switches /\ LockInv /\ [Next]_vars => LockInv'
    BY LockStep
<1> QED BY <1>1, <1>2, TypeInvariant, PTL DEF Spec

(* No entry is bought while any of the cooldown is left, whatever the      *)
(* verdicts in between, the crashes and the restarts.                      *)
THEOREM NoEntryInLockout == Spec => NoEntryWhileLocked
<1>1. TypeOK /\ Switches /\ LockInv /\ [Next]_vars
          => [pc = "entries" /\ ~(book' \subseteq book) => lock = 0]_vars
  <2> SUFFICES ASSUME TypeOK, Switches, LockInv, Next, pc = "entries", lock # 0
               PROVE  book' \subseteq book
      BY DEF TypeOK
  <2>1. lock > 0
      BY DEF TypeOK
  <2>2. ks.active
      BY <2>1 DEF LockInv, Switches, WellFormed, KillswitchState, NoTrip, TypeOK
  <2>3. CASE TickEntries
      BY <2>2, <2>3 DEF TickEntries, Buyable
  <2>4. CASE Crash
      BY <2>4 DEF Crash
  <2>5. CASE StormToggles
      BY <2>5 DEF StormToggles
  <2> QED BY <2>3, <2>4, <2>5
          DEF Next, Runtime, InJob, Environment, StartTick, TickManage, TickManageRaises,
              TickHealth, TickMarks, Evaluate, Persist, Setup, PremarketVerify, EodClose,
              reset_killswitch, Restart, TimePasses
<1> QED BY <1>1, TypeInvariant, LockInvariant, PTL DEF Spec, NoEntryWhileLocked

-----------------------------------------------------------------------------
(* The gauges *)

(* A process that has died takes its gauges with it. *)
GaugeInv == GaugesTrackSwitch /\ (pc = "down" => gauges = {})

(* A gauge that reads 1 will be put back by the next clear, and none reads *)
(* 1 while the switch is off.                                              *)
THEOREM GaugesTrack == Spec => []GaugesTrackSwitch
<1> USE DEF GaugeInv, GaugesTrackSwitch
<1>1. Init => GaugeInv
    BY DEF Init
<1>2. GaugeInv /\ [Next]_vars => GaugeInv'
  <2> SUFFICES ASSUME GaugeInv, [Next]_vars
               PROVE  GaugeInv'
      OBVIOUS
  <2>1. CASE StartTick \/ TickEntries \/ TickManage \/ TickManageRaises \/ TickHealth \/ TickMarks
    <3>1. pc' # "down" /\ UNCHANGED <<ks, reasons, gauges>>
        BY <2>1 DEF StartTick, TickEntries, TickManage, TickManageRaises, TickHealth, TickMarks,
                    ks_vars
    <3> QED BY <3>1
  <2>2. CASE PremarketVerify \/ EodClose \/ Setup \/ Persist
    <3>1. pc' # "down" /\ UNCHANGED <<ks, reasons, gauges>>
        BY <2>2 DEF PremarketVerify, EodClose, Setup, Persist, ks_vars
    <3> QED BY <3>1
  <2>3. CASE Evaluate
      BY <2>3 DEF Evaluate, SetGauges
  <2>4. CASE reset_killswitch
      BY <2>4 DEF reset_killswitch
  <2>5. CASE Crash
      BY <2>5 DEF Crash
  <2>6. CASE Restart
      BY <2>6 DEF Restart
  <2>7. CASE TimePasses
    <3>1. UNCHANGED <<pc, reasons, gauges>>
        BY <2>7 DEF TimePasses
    <3>2. ks'.active = ks.active
        BY <2>7 DEF TimePasses
    <3> QED BY <3>1, <3>2
  <2>8. CASE StormToggles \/ UNCHANGED vars
      BY <2>8 DEF StormToggles, vars, ks_vars
  <2> QED BY <2>1, <2>2, <2>3, <2>4, <2>5, <2>6, <2>7, <2>8
          DEF Next, Runtime, InJob, Environment
<1> QED BY <1>1, <1>2, PTL DEF Spec

-----------------------------------------------------------------------------
(* The gap arm *)

(* A gap belongs to a position in the book, and from the start of a tick   *)
(* until its exits are cleared to one the tick knows it has to clear.      *)
GapHeld ==
    \A t \in Tickers : marks[t] = "gap" =>
        /\ t \in book
        /\ pc \in {"entries", "manage"} => t \in before

(* The reconcile leaves no gap behind. *)
LEMMA ReconcileGap ==
    ASSUME TypeOK, GapHeld, Reconcile
    PROVE  \A t \in Tickers : marks'[t] = "gap" => t \in book' /\ marks[t] = "gap"
BY DEF TypeOK, GapHeld, Reconcile

(* As long as no sell raises after another position was closed, only       *)
(* positions still held can trip the gap arm (runtime.py 326-336).         *)
THEOREM GapArmIsSound == ~ManageMayRaise /\ Spec => []NoGhostGap
<1>1. Init => GapHeld
    BY DEF Init, GapHeld
<1>2. ~ManageMayRaise /\ TypeOK /\ GapHeld /\ [Next]_vars => GapHeld'
  <2> SUFFICES ASSUME ~ManageMayRaise, TypeOK, GapHeld, [Next]_vars
               PROVE  GapHeld'
      OBVIOUS
  <2>1. CASE StartTick
      BY <2>1 DEF StartTick, GapHeld
  <2>2. CASE TickEntries
      BY <2>2 DEF TickEntries, GapHeld, TypeOK
  <2>3. CASE TickManage
      BY <2>3 DEF TickManage, ClearExited, GapHeld, TypeOK
  <2>4. CASE TickManageRaises
      BY <2>4 DEF TickManageRaises, GapHeld, tele_vars
  <2>5. CASE TickHealth
    <3>1. CASE Reconcile
        BY <2>5, <3>1, ReconcileGap DEF TickHealth, GapHeld
    <3>2. CASE UNCHANGED <<book, tele_vars>>
        BY <2>5, <3>2 DEF TickHealth, GapHeld, tele_vars
    <3> QED BY <2>5, <3>1, <3>2 DEF TickHealth
  <2>6. CASE TickMarks
      BY <2>6 DEF TickMarks, GapHeld, TypeOK
  <2>7. CASE EodClose \/ Setup
      BY <2>7, ReconcileGap DEF EodClose, Setup, GapHeld
  <2>8. CASE Crash \/ Restart
      BY <2>8 DEF Crash, Restart, GapHeld
  <2>9. CASE Evaluate \/ Persist \/ PremarketVerify \/ reset_killswitch
      BY <2>9 DEF Evaluate, Persist, PremarketVerify, reset_killswitch, GapHeld, tele_vars
  <2>10. CASE TimePasses \/ StormToggles \/ UNCHANGED vars
      BY <2>10 DEF TimePasses, StormToggles, GapHeld, vars, tele_vars
  <2> QED BY <2>1, <2>2, <2>3, <2>4, <2>5, <2>6, <2>7, <2>8, <2>9, <2>10
          DEF Next, Runtime, InJob, Environment
<1>3. GapHeld => NoGhostGap
    BY DEF GapHeld, NoGhostGap
<1>4. CASE ~ManageMayRaise
  <2>1. TypeOK /\ GapHeld /\ [Next]_vars => GapHeld'
      BY <1>2, <1>4
  <2>2. Spec => []NoGhostGap
      BY <1>1, <1>3, <2>1, TypeCorrect, PTL DEF Spec
  <2> QED BY <2>2
<1> QED BY <1>4
=============================================================================
