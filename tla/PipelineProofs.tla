---------------------------- MODULE PipelineProofs ----------------------------
(***************************************************************************)
(* The data pipeline for any tickers, calendar, budget, settings and       *)
(* number of faults: its type invariant, and that no crash, lost job,      *)
(* failed fetch or late source leaves a hole in the bars, a stamp that is  *)
(* no bar, or an entry of today's plan that is not on the bars of the last *)
(* session, of a ticker whose bars no failed write has lost.               *)
(***************************************************************************)
EXTENDS Pipeline, FiniteSetTheorems, WellFoundedInduction, TLAPS

-----------------------------------------------------------------------------
(* The newest of a set *)

(* A finite set of naturals that is not empty has a greatest element. The  *)
(* sets of the elements above one of its elements are well-founded by      *)
(* strict inclusion; a least one of them is empty.                         *)
LEMMA GreatestExists ==
    ASSUME NEW S \in SUBSET Nat, IsFiniteSet(S), S # {}
    PROVE  \E x \in S : \A y \in S : x >= y
<1> DEFINE Above(x) == {y \in S : y > x}
           Family   == {Above(x) : x \in S}
           R        == StrictSubsetOrdering(S)
<1>1. IsWellFoundedOn(R, FiniteSubsetsOf(S))
    BY FS_StrictSubsetOrderingWellFounded
<1>2. Family \subseteq FiniteSubsetsOf(S)
    BY FS_Subset DEF FiniteSubsetsOf
<1>3. Family # {}
    OBVIOUS
<1>4. \E A \in Family : \A B \in Family : ~(<<B, A>> \in R)
    <2> HIDE DEF Family, R
    <2>1. IsWellFoundedOn(R, Family)
        BY <1>1, <1>2, IsWellFoundedOnSubset
    <2> QED BY <2>1, <1>3, WFMin
<1>5. PICK x \in S : \A B \in Family : ~(<<B, Above(x)>> \in R)
    BY <1>4
<1>6. ASSUME NEW y \in S, y > x PROVE FALSE
  <2>1. Above(y) \subseteq Above(x)
    <3>1. ASSUME NEW z \in S, z > y PROVE z > x
        <4>1. x \in Nat /\ y \in Nat /\ z \in Nat
            OBVIOUS
        <4> QED BY <4>1, <3>1, <1>6
    <3> QED BY <3>1
  <2>2. y \in Above(x) /\ y \notin Above(y)
      BY <1>6
  <2>3. <<Above(y), Above(x)>> \in R
      BY <2>1, <2>2 DEF StrictSubsetOrdering
  <2> QED BY <2>3, <1>5
<1> QED BY <1>6

LEMMA NewestIs ==
    ASSUME NEW S \in SUBSET Nat, IsFiniteSet(S)
    PROVE  /\ Newest(S) \in S \cup {0} /\ Newest(S) \in Nat
           /\ \A y \in S : y <= Newest(S)
<1> DEFINE T == S \cup {0}
<1>1. T \in SUBSET Nat /\ IsFiniteSet(T) /\ T # {}
    BY FS_AddElement
<1> HIDE DEF T
<1>2. \E x \in T : \A y \in T : x >= y
    BY <1>1, GreatestExists
<1>3. Max(T) \in T /\ \A y \in T : Max(T) >= y
    BY <1>2 DEF Max
<1>4. Newest(S) = Max(T)
    BY DEF Newest, T
<1> QED BY <1>1, <1>3, <1>4 DEF T

-----------------------------------------------------------------------------
(* The calendar *)

LEMMA SessionsAreDays ==
    /\ Sessions \in SUBSET Nat /\ 0 \notin Sessions /\ IsFiniteSet(Sessions)
    /\ \A s \in Sessions : s \in 1..LastDay
    /\ LastDay \in Nat /\ FirstDay \in Nat \ {0} /\ FirstDay <= LastDay
<1>1. Sessions \subseteq 1..LastDay /\ LastDay \in Nat
    BY CalendarAssumption
<1>2. IsFiniteSet(1..LastDay)
    BY <1>1, FS_Interval
<1>3. IsFiniteSet(Sessions)
    BY <1>1, <1>2, FS_Subset
<1> QED BY <1>1, <1>3, CalendarAssumption

(* The newest of some sessions is one of them, or 0 when there is none.    *)
LEMMA NewestSession ==
    ASSUME NEW S \in SUBSET Sessions
    PROVE  /\ Newest(S) \in Nat /\ Newest(S) \in S \cup {0}
           /\ \A s \in S : s <= Newest(S)
           /\ \A d \in Nat : (\A s \in S : s <= d) => Newest(S) <= d
<1>1. S \in SUBSET Nat /\ IsFiniteSet(S)
    BY SessionsAreDays, FS_Subset
<1>2. /\ Newest(S) \in S \cup {0} /\ Newest(S) \in Nat
      /\ \A s \in S : s <= Newest(S)
    BY <1>1, NewestIs
<1> QED BY <1>2

LEMMA NewestOfTwo ==
    ASSUME NEW a \in Nat, NEW b \in Nat
    PROVE  /\ Newest({a, b}) \in Nat /\ Newest({a, b}) \in {a, b}
           /\ a <= Newest({a, b}) /\ b <= Newest({a, b})
<1>1. IsFiniteSet({a} \cup {b})
    BY FS_Singleton, FS_AddElement
<1>0. {a, b} = {a} \cup {b} /\ {a, b} \in SUBSET Nat
    OBVIOUS
<1>2. /\ Newest({a, b}) \in {a, b} \cup {0} /\ Newest({a, b}) \in Nat
      /\ \A y \in {a, b} : y <= Newest({a, b})
    BY <1>0, <1>1, NewestIs
<1> QED BY <1>2

(* A set of sessions without a hole has none up to any day.                *)
LEMMA SessionsClosed ==
    ASSUME NEW d \in Int
    PROVE  SessionsTo(d) = SessionsTo(Newest(SessionsTo(d)))
<1>1. SessionsTo(d) \in SUBSET Sessions
    BY DEF SessionsTo
<1>2. /\ Newest(SessionsTo(d)) \in Nat /\ Newest(SessionsTo(d)) \in SessionsTo(d) \cup {0}
      /\ \A s \in SessionsTo(d) : s <= Newest(SessionsTo(d))
    BY <1>1, NewestSession
<1>3. ASSUME NEW n \in Nat, n \in SessionsTo(d) \cup {0}, \A s \in SessionsTo(d) : s <= n
      PROVE  SessionsTo(d) = SessionsTo(n)
  <2>1. ASSUME NEW s \in Sessions PROVE s <= d <=> s <= n
    <3>1. s \in Nat /\ s # 0
        BY SessionsAreDays
    <3>2. CASE n = 0
        BY <3>1, <3>2, <1>3 DEF SessionsTo
    <3>3. CASE n # 0
      <4>1. n \in Sessions /\ n <= d
          BY <3>3, <1>3 DEF SessionsTo
      <4>2. s <= d => s <= n
          BY <1>3 DEF SessionsTo
      <4> QED BY <4>1, <4>2, <3>1
    <3> QED BY <3>2, <3>3
  <2> QED BY <2>1 DEF SessionsTo
<1> QED BY <1>2, <1>3

-----------------------------------------------------------------------------
(* The invariant *)

(* Seen so far by the ingest of day d: the newest bar of the run was on    *)
(* disk; the request that is open continues the bars of its ticker; the    *)
(* tickers that are done, and are not reported, have all sessions before.  *)
Progress(d) ==
    \/ ing[d] = NoIngest
    \/ /\ ing[d].on
       /\ ing[d].newest \in Sessions \cup {0}
       /\ ing[d].newest = 0 \/ lost # {} \/ \E t \in Tickers : ing[d].newest \in bars[t]
       /\ \A a \in ing[d].asks :
            /\ \A b \in ing[d].asks : b = a
            /\ a.from - 1 \in Sessions \cup {0}
            /\ a.ticker \in lost \/ SessionsTo(a.from - 1) \subseteq bars[a.ticker]
       /\ \A t \in Tickers :
            \/ t \in ing[d].todo \cup ing[d].missed \cup lost
            \/ \E a \in ing[d].asks : a.ticker = t
            \/ SessionsTo(d - 1) \subseteq bars[t]

(* A plan, wherever it is kept. *)
Sound(plan) ==
    plan.names # {} =>
        /\ plan.day > 0
        /\ plan.stamp > 0 => Age(plan.stamp, plan.day) <= MaxAge
        /\ \A t \in plan.names \ lost : plan.day - 1 \in bars[t]
        /\ cleared => plan.day = day

Data  == NoHoles /\ CleanIngestCompletes /\ StampIsABar /\ \A d \in Days : Progress(d)
Plans == /\ Sound(planned) /\ Sound(snap) /\ BoughtOnLastBars
         /\ hour = "premarket" /\ due => ~cleared

IInv == TypeOK /\ Data /\ Plans

(* No session comes before the first day. *)
LEMMA NoneBefore == ASSUME NEW d \in Int, d <= 0 PROVE SessionsTo(d) = {}
<1>1. ASSUME NEW s \in Sessions PROVE ~(s <= d)
  <2>1. s \in Nat /\ s > 0
      BY SessionsAreDays
  <2> QED BY <2>1
<1> QED BY <1>1 DEF SessionsTo

LEMMA EmptyTypes ==
    /\ 0 \in Days /\ 0 \in Sessions \cup {0}
    /\ NoPlan \in Plan /\ NoPlan.names = {}
    /\ NoReport \in [day : Days, missed : SUBSET Tickers]
    /\ NoEntries \in [on : Days, plan : Days, stamp : Days, names : SUBSET Tickers]
    /\ NoIngest \in Ingest
<1>1. 0 \in Days
    BY SessionsAreDays DEF Days
<1> QED BY <1>1 DEF NoPlan, Plan, NoReport, NoEntries, NoIngest, Ingest

(* The report of no ingest claims nothing. *)
LEMMA NothingReported == SessionsTo(NoReport.day - 1) = {}
<1>1. NoReport.day - 1 \in Int /\ NoReport.day - 1 <= 0
    BY DEF NoReport
<1> QED BY <1>1, NoneBefore

LEMMA InitInv == Init => IInv
<1> SUFFICES ASSUME Init PROVE IInv
    OBVIOUS
<1> USE DEF Init
<1>1. ASSUME NEW t \in Tickers
      PROVE  bars[t] \in SUBSET Sessions /\ bars[t] = SessionsTo(Newest(bars[t]))
  <2>1. CASE bars[t] = {}
    <3>1. Newest({}) = 0
        BY NewestSession
    <3>2. SessionsTo(0) = {}
        BY NoneBefore
    <3> QED BY <2>1, <3>1, <3>2
  <2>2. CASE bars[t] = SessionsTo(FirstDay - 1)
    <3>1. FirstDay - 1 \in Int
        BY SessionsAreDays
    <3>2. SessionsTo(FirstDay - 1) = SessionsTo(Newest(SessionsTo(FirstDay - 1)))
        BY <3>1, SessionsClosed
    <3> QED BY <2>2, <3>2 DEF SessionsTo
  <2> QED BY <2>1, <2>2
<1>2. TypeOK
  <2>1. bars \in [Tickers -> SUBSET Sessions]
      BY <1>1 DEF SessionsTo
  <2>2. ing \in [Days -> Ingest]
      BY EmptyTypes
  <2>3. day \in FirstDay..LastDay /\ 0 \in 0..MaxFaults
      BY SessionsAreDays, BoundsAssumption
  <2> QED BY <2>1, <2>2, <2>3, EmptyTypes DEF TypeOK, Hours, NoCandidates
<1>3. Data
    BY <1>1, NothingReported DEF Data, NoHoles, CleanIngestCompletes, StampIsABar, Progress
<1>4. Plans
    BY DEF Plans, Sound, BoughtOnLastBars, NoPlan, NoEntries
<1> QED BY <1>2, <1>3, <1>4 DEF IInv

-----------------------------------------------------------------------------
(* What several steps keep *)

(* What every step below needs to know about the state it starts from.     *)
LEMMA Typed ==
    ASSUME IInv
    PROVE  /\ day \in Nat /\ 0 < day /\ day \in Days /\ hour \in Hours /\ due \in BOOLEAN
           /\ stamp \in Nat /\ stamp \in Days
           /\ \A d \in Days : d \in Nat /\ ing[d] \in Ingest
           /\ \A d \in Days : ing[d].newest \in Nat
           /\ \A p \in {planned, snap} : p \in Plan /\ p.day \in Nat /\ p.stamp \in Nat
           /\ bars \in [Tickers -> SUBSET Sessions]
           /\ \A t \in Tickers : bars[t] \in SUBSET Sessions
           /\ \A s \in Sessions : s \in Nat /\ 0 < s /\ s \in Days
           /\ MaxAge \in Nat /\ LastDay \in Nat
<1>1. TypeOK
    BY DEF IInv
<1>2. \A d \in Days : d \in Nat
    BY SessionsAreDays DEF Days
<1>3. day \in Nat /\ 0 < day /\ day \in Days
    BY <1>1, SessionsAreDays DEF TypeOK, Days
<1>4. \A s \in Sessions : s \in Nat /\ 0 < s /\ s \in Days
    BY SessionsAreDays DEF Days
<1>5. hour \in Hours /\ due \in BOOLEAN /\ bars \in [Tickers -> SUBSET Sessions]
    BY <1>1 DEF TypeOK
<1>6. stamp \in Days
    BY <1>1, <1>4, EmptyTypes DEF TypeOK
<1>7. \A d \in Days : ing[d] \in Ingest /\ ing[d].newest \in Days
    BY <1>1 DEF TypeOK, Ingest
<1>8. \A p \in {planned, snap} : p \in Plan /\ p.day \in Days /\ p.stamp \in Days
    BY <1>1 DEF TypeOK, Plan
<1> QED
    BY <1>2, <1>3, <1>4, <1>5, <1>6, <1>7, <1>8, SessionsAreDays, BoundsAssumption

(* A step that loses no bars of a ticker it does not note as lost, and     *)
(* begins or ends an ingest at most, keeps what is known of the bars.      *)
LEMMA DataKept ==
    ASSUME IInv, stamp' = stamp, lost \subseteq lost', lost' # {} \/ bars' = bars,
           \A t \in Tickers \ lost' : bars'[t] = bars[t],
           report' \in {report, NoReport},
           \A d \in Days : ing'[d] \in {ing[d], NoIngest,
                                        [NoIngest EXCEPT !.on = TRUE, !.todo = Tickers]}
    PROVE  Data'
<1>1. NoHoles' /\ CleanIngestCompletes' /\ StampIsABar'
    BY NothingReported DEF IInv, Data, NoHoles, CleanIngestCompletes, StampIsABar
<1>2. ASSUME NEW d \in Days PROVE Progress(d)'
  <2>1. CASE ing'[d] = NoIngest
      BY <2>1 DEF Progress
  <2>2. CASE ing'[d] = [NoIngest EXCEPT !.on = TRUE, !.todo = Tickers]
      BY <2>2 DEF Progress, NoIngest
  <2>3. CASE ing'[d] = ing[d]
    <3>1. \A a \in ing[d].asks : a.ticker \in Tickers
        BY Typed DEF Ingest, Request
    <3> QED BY <2>3, <3>1 DEF IInv, Data, Progress
  <2> QED BY <1>2, <2>1, <2>2, <2>3
<1> QED BY <1>1, <1>2 DEF Data

(* A step that takes no bar from a ticker it does not note as lost, and    *)
(* moves or drops plans, keeps what is known of them.                      *)
LEMMA PlansKept ==
    ASSUME IInv, UNCHANGED <<day, hour, cleared, bought>>, due' \in {due, FALSE},
           lost \subseteq lost', \A t \in Tickers \ lost' : bars[t] \subseteq bars'[t],
           planned' \in {planned, snap, NoPlan}, snap' \in {planned, snap, NoPlan}
    PROVE  Plans'
<1>1. \A p \in {planned, snap} : p.names \subseteq Tickers
    BY Typed DEF Plan
<1>2. bought.names \subseteq Tickers
    BY DEF IInv, TypeOK
<1>3. ASSUME NEW p, p \in {planned, snap, NoPlan}
      PROVE  p.names # {} =>
                /\ p.day > 0
                /\ p.stamp > 0 => Age(p.stamp, p.day) <= MaxAge
                /\ \A t \in p.names \ lost' : p.day - 1 \in bars'[t]
                /\ cleared' => p.day = day'
  <2>1. CASE p = NoPlan
      BY <2>1, EmptyTypes
  <2>2. CASE p \in {planned, snap}
      BY <2>2, <1>1 DEF IInv, Plans, Sound
  <2> QED BY <1>3, <2>1, <2>2
<1>4. Sound(planned)' /\ Sound(snap)'
    BY <1>3 DEF Sound
<1>5. BoughtOnLastBars'
    BY <1>2 DEF IInv, Plans, BoughtOnLastBars
<1>6. (hour = "premarket" /\ due => ~cleared)'
    BY DEF IInv, Plans
<1> QED BY <1>4, <1>5, <1>6 DEF Plans

(* An ingest or a write that fails spends a fault. *)
LEMMA FaultTyped == ASSUME IInv, Fault PROVE faults' \in 0..MaxFaults
<1>1. faults \in 0..MaxFaults /\ MaxFaults \in Nat
    BY BoundsAssumption DEF IInv, TypeOK
<1> QED BY <1>1 DEF Fault

LEMMA PersistTyped ==
    ASSUME IInv, Persist PROVE faults' \in 0..MaxFaults /\ snap' \in {planned', snap}
<1>1. faults \in 0..MaxFaults
    BY DEF IInv, TypeOK
<1> QED BY <1>1, FaultTyped DEF Persist

(* A partition that is lost leaves the others as they are. *)
LEMMA LostInv ==
    ASSUME IInv, NEW p \in Tickers \cup {Decisions}, Loses(p)
    PROVE  /\ bars' \in [Tickers -> SUBSET Sessions]
           /\ torn' \subseteq Tickers \cup {Decisions} /\ lost' \subseteq Tickers
           /\ lost \subseteq lost'
           /\ lost' # {} \/ bars' = bars
           /\ \A t \in Tickers \ lost' : bars'[t] = bars[t]
<1>1. /\ bars \in [Tickers -> SUBSET Sessions]
      /\ torn \subseteq Tickers \cup {Decisions} /\ lost \subseteq Tickers
    BY DEF IInv, TypeOK
<1>2. bars' = [t \in Tickers |-> IF t = p THEN {} ELSE bars[t]]
    BY DEF Loses
<1>3. lost' # {} \/ bars' = bars
  <2>1. CASE p \in Tickers
      BY <2>1 DEF Loses
  <2>2. CASE p \notin Tickers
    <3>1. \A t \in Tickers : bars'[t] = bars[t]
        BY <2>2, <1>2
    <3> QED BY <3>1, <1>1, <1>2
  <2> QED BY <2>1, <2>2
<1> QED BY <1>1, <1>2, <1>3 DEF Loses

-----------------------------------------------------------------------------
(* The steps of the ingest *)

LEMMA StartIngestInv == ASSUME IInv, StartIngest PROVE IInv'
<1>1. /\ UNCHANGED <<day, hour, up, settings, bars, torn, lost, stamp, report, candidates,
                      planned, snap, bought, cleared, faults>>
      /\ due' = FALSE
      /\ ing' = [ing EXCEPT ![day] = [NoIngest EXCEPT !.on = TRUE, !.todo = Tickers]]
    BY DEF StartIngest, Fires, storage
<1>2. [NoIngest EXCEPT !.on = TRUE, !.todo = Tickers] \in Ingest
    BY EmptyTypes DEF NoIngest, Ingest
<1>3. TypeOK'
    BY <1>1, <1>2 DEF IInv, TypeOK
<1>4. \A d \in Days : ing'[d] \in {ing[d], [NoIngest EXCEPT !.on = TRUE, !.todo = Tickers]}
    BY <1>1 DEF IInv, TypeOK
<1>5. Data'
    BY <1>1, <1>4, DataKept
<1>6. Plans'
    BY <1>1, PlansKept
<1> QED BY <1>3, <1>5, <1>6 DEF IInv

(* A ticker that is up to date has all sessions before the run; the        *)
(* request for another continues its last bar.                             *)
LEMMA IngestTickerInv ==
    ASSUME IInv, NEW d \in Days, NEW t \in Tickers, IngestTicker(d, t) PROVE IInv'
<1> DEFINE n == Newest(bars[t])
<1>1. /\ UNCHANGED <<day, hour, due, up, settings, bars, torn, lost, stamp, report, candidates,
                      planned, snap, bought, cleared, faults>>
      /\ ing[d].on /\ ing[d].asks = {} /\ t \in ing[d].todo
    BY DEF IngestTicker, clock, storage
<1>2. /\ n \in Nat /\ n \in bars[t] \cup {0} /\ \A s \in bars[t] : s <= n
      /\ n \in Sessions \cup {0} /\ n \in Days
    BY NewestSession, Typed, EmptyTypes
<1>3. t \notin lost => bars[t] = SessionsTo(n)
    BY DEF IInv, Data, NoHoles
<1> HIDE DEF n
<1>4. ing[d] \in Ingest /\ ing[d].newest \in Nat /\ d \in Nat /\ ing \in [Days -> Ingest]
    BY Typed DEF IInv, TypeOK
<1>5. Progress(d) /\ ing[d] # NoIngest
    BY <1>1 DEF IInv, Data, NoIngest
<1>6. /\ ing'[d] \in Ingest /\ \A e \in Days \ {d} : ing'[e] = ing[e]
      /\ ing' = [ing EXCEPT ![d] = ing'[d]] /\ Progress(d)'
  <2>1. CASE UpToDate(d, t)
    <3>1. /\ n + 1 > d
          /\ ing' = [ing EXCEPT ![d].todo = @ \ {t}, ![d].newest = Newest({@, n})]
        BY <2>1 DEF UpToDate, FetchFrom, n
    <3>2. ing'[d] = [ing[d] EXCEPT !.todo = @ \ {t}, !.newest = Newest({@, n})]
        BY <3>1, <1>4
    <3>3. Newest({ing[d].newest, n}) \in {ing[d].newest, n}
        BY <1>2, <1>4, NewestOfTwo
    <3>4. ing'[d] \in Ingest
        BY <3>2, <3>3, <1>2, <1>4 DEF Ingest
    <3>5. t \in lost \/ SessionsTo(d - 1) \subseteq bars[t]
      <4>1. ASSUME NEW s \in SessionsTo(d - 1) PROVE s \in SessionsTo(n)
          BY <3>1, <1>2, <1>4, Typed DEF SessionsTo
      <4> QED BY <4>1, <1>3
    <3>11. ing'[d].newest = ing[d].newest \/ ing'[d].newest = n
        BY <3>2, <3>3, <1>4 DEF Ingest
    <3>6. ing'[d].newest = 0 \/ lost # {} \/ \E u \in Tickers : ing'[d].newest \in bars[u]
        BY <3>11, <1>2, <1>5 DEF Progress
    <3>7. ing'[d].newest \in Sessions \cup {0}
        BY <3>11, <1>2, <1>5 DEF Progress
    <3>8. /\ ing'[d].on /\ ing'[d].asks = {} /\ ing'[d].missed = ing[d].missed
          /\ ing'[d].todo = ing[d].todo \ {t}
        BY <3>2, <1>1, <1>4 DEF Ingest
    <3>9. \A u \in Tickers : u \in ing'[d].todo \cup ing'[d].missed \cup lost
                             \/ SessionsTo(d - 1) \subseteq bars[u]
        BY <3>5, <3>8, <1>1, <1>5 DEF Progress
    <3>10. Progress(d)'
        BY <3>6, <3>7, <3>8, <3>9, <1>1 DEF Progress
    <3> QED BY <3>1, <3>4, <3>10, <1>4
  <2>2. CASE Ask(d, t)
    <3> DEFINE a == [ticker |-> t, from |-> n + 1]
    <3>1. n + 1 <= d /\ ing' = [ing EXCEPT ![d].todo = @ \ {t}, ![d].asks = {a}]
        BY <2>2 DEF Ask, FetchFrom, n
    <3>2. ing'[d] = [ing[d] EXCEPT !.todo = @ \ {t}, !.asks = {a}]
        BY <3>1, <1>4
    <3>3. a \in Request
        BY <3>1, <1>2, Typed DEF Request, Days
    <3>4. ing'[d] \in Ingest
      <4> HIDE DEF a
      <4>1. {a} \in SUBSET Request /\ ing[d].todo \ {t} \in SUBSET Tickers
          BY <3>3, <1>4 DEF Ingest
      <4>2. ing'[d] = [on |-> ing[d].on, todo |-> ing[d].todo \ {t}, asks |-> {a},
                       newest |-> ing[d].newest, missed |-> ing[d].missed]
          BY <3>2, <1>4 DEF Ingest
      <4> QED BY <4>1, <4>2, <1>4 DEF Ingest
    <3>5. /\ ing'[d].on /\ ing'[d].asks = {a} /\ ing'[d].missed = ing[d].missed
          /\ ing'[d].todo = ing[d].todo \ {t} /\ ing'[d].newest = ing[d].newest
        BY <3>2, <1>1, <1>4 DEF Ingest
    <3>6. /\ a.ticker = t /\ a.from - 1 = n
        BY <1>2
    <3>7. a.ticker \in lost \/ SessionsTo(a.from - 1) \subseteq bars[a.ticker]
        BY <3>6, <1>3
    <3> HIDE DEF a
    <3>8. \A u \in Tickers : \/ u \in ing'[d].todo \cup ing'[d].missed \cup lost
                             \/ \E b \in ing'[d].asks : b.ticker = u
                             \/ SessionsTo(d - 1) \subseteq bars[u]
        BY <3>5, <3>6, <1>1, <1>5 DEF Progress
    <3>9. Progress(d)'
        BY <3>5, <3>6, <3>7, <3>8, <1>1, <1>2, <1>5 DEF Progress
    <3> QED BY <3>1, <3>4, <3>9, <1>4
  <2> QED BY <2>1, <2>2 DEF IngestTicker
<1>7. TypeOK'
    BY <1>1, <1>4, <1>6 DEF IInv, TypeOK
<1>8. Data'
  <2>1. ASSUME NEW e \in Days PROVE Progress(e)'
    <3>1. CASE e = d
        BY <3>1, <1>6
    <3>2. CASE e # d
        BY <3>2, <1>1, <1>6 DEF IInv, Data, Progress
    <3> QED BY <3>1, <3>2
  <2> QED
      BY <2>1, <1>1 DEF IInv, Data, NoHoles, CleanIngestCompletes, StampIsABar
<1>9. Plans'
    BY <1>1, PlansKept
<1> QED BY <1>7, <1>8, <1>9 DEF IInv

(* Two prefixes of the calendar, one after the other, are a prefix. *)
LEMMA PrefixUnion ==
    ASSUME NEW n \in Nat, NEW p \in Nat
    PROVE  SessionsTo(n) \cup SessionsTo(p) = SessionsTo(Newest(SessionsTo(n) \cup SessionsTo(p)))
<1> DEFINE U == SessionsTo(n) \cup SessionsTo(p)
<1>1. \A s \in Sessions : s \in Nat
    BY SessionsAreDays
<1>2. CASE n <= p
  <2>1. U = SessionsTo(p)
      BY <1>1, <1>2 DEF SessionsTo
  <2> QED BY <2>1, SessionsClosed
<1>3. CASE p <= n
  <2>1. U = SessionsTo(n)
      BY <1>1, <1>3 DEF SessionsTo
  <2> QED BY <2>1, SessionsClosed
<1> QED BY <1>2, <1>3

(* What an answer brings, and what it leaves: the bars of the ticker stay  *)
(* a prefix of the calendar, and reach the session before the run unless   *)
(* the source lagged behind for it.                                        *)
LEMMA AnsweredInv ==
    ASSUME IInv, NEW d \in Days, NEW a \in ing[d].asks, Answered(d, a),
           UNCHANGED <<clock, up, settings, torn, lost, stamp, report, candidates, planned, snap,
                       bought, cleared, faults>>
    PROVE  IInv'
<1> USE DEF clock
<1> DEFINE t == a.ticker
           q == a.from - 1
<1>1. /\ ing[d] \in Ingest /\ ing[d].newest \in Nat /\ ing[d].newest \in Days /\ d \in Nat
      /\ ing \in [Days -> Ingest]
      /\ bars \in [Tickers -> SUBSET Sessions]
      /\ \A u \in Tickers : bars[u] \in SUBSET Sessions
    BY Typed DEF IInv, TypeOK, Ingest
<1>2. a \in Request
    BY <1>1 DEF Ingest
<1>3. a.from \in 1..LastDay /\ t \in Tickers /\ q \in Nat
    BY <1>2, Typed DEF Request
<1>4. Progress(d) /\ ing[d] # NoIngest
    BY DEF IInv, Data, NoIngest
<1>5. /\ ing[d].on /\ \A b \in ing[d].asks : b = a
      /\ q \in Sessions \cup {0} /\ (t \in lost \/ SessionsTo(q) \subseteq bars[t])
    BY <1>4 DEF Progress
<1>6. PICK p \in a.from - 1..d :
        LET new == SessionsTo(p) \ SessionsTo(a.from - 1) IN
        /\ new # {} => a.ticker \notin torn
        /\ bars' = [bars EXCEPT ![a.ticker] = @ \cup new]
        /\ ing' = [ing EXCEPT
               ![d].asks = {},
               ![d].newest = Newest({@, a.from - 1} \cup new),
               ![d].missed = IF SessionsTo(d - 1) \subseteq SessionsTo(p) THEN @
                             ELSE @ \cup {a.ticker}]
    BY DEF Answered
<1> DEFINE new == SessionsTo(p) \ SessionsTo(q)
           m   == Newest({ing[d].newest, q} \cup new)
           miss == IF SessionsTo(d - 1) \subseteq SessionsTo(p) THEN ing[d].missed
                   ELSE ing[d].missed \cup {t}
<1>7. /\ bars' = [bars EXCEPT ![t] = @ \cup new]
      /\ ing' = [ing EXCEPT ![d].asks = {}, ![d].newest = m, ![d].missed = miss]
    BY <1>6
<1>8. p \in Nat /\ q <= p /\ p <= d
    BY <1>1, <1>3, <1>6
<1>9. new \in SUBSET Sessions
    BY DEF SessionsTo
<1>10. /\ \A u \in Tickers \ {t} : bars'[u] = bars[u]
       /\ bars'[t] = bars[t] \cup new /\ bars' \in [Tickers -> SUBSET Sessions]
       /\ \A u \in Tickers : bars[u] \subseteq bars'[u]
    BY <1>1, <1>3, <1>7, <1>9
<1>11. t \in lost \/ (bars'[t] = SessionsTo(Newest(bars'[t])) /\ SessionsTo(p) \subseteq bars'[t])
  <2> SUFFICES ASSUME t \notin lost
               PROVE  bars'[t] = SessionsTo(Newest(bars'[t])) /\ SessionsTo(p) \subseteq bars'[t]
      OBVIOUS
  <2> DEFINE n == Newest(bars[t])
  <2>1. bars[t] = SessionsTo(n) /\ SessionsTo(q) \subseteq bars[t]
      BY <1>3, <1>5 DEF IInv, Data, NoHoles
  <2>2. n \in Nat
      BY <1>1, <1>3, NewestSession
  <2>3. bars'[t] = SessionsTo(n) \cup SessionsTo(p)
    <3>1. bars'[t] = bars[t] \cup new /\ bars[t] = SessionsTo(n)
        BY <1>10, <2>1
    <3> QED BY <3>1, <2>1
  <2> HIDE DEF n
  <2> QED BY <2>2, <2>3, <1>8, PrefixUnion
<1>12. /\ m \in {ing[d].newest, q} \cup new \cup {0} /\ m \in Nat
  <2>1. IsFiniteSet({ing[d].newest, q} \cup new)
    <3>1. IsFiniteSet({ing[d].newest} \cup {q})
        BY FS_Singleton, FS_AddElement
    <3>2. IsFiniteSet(new)
        BY <1>9, SessionsAreDays, FS_Subset
    <3>3. IsFiniteSet(({ing[d].newest} \cup {q}) \cup new)
        BY <3>1, <3>2, FS_Union
    <3>4. {ing[d].newest, q} \cup new = ({ing[d].newest} \cup {q}) \cup new
        OBVIOUS
    <3> QED BY <3>3, <3>4
  <2>2. {ing[d].newest, q} \cup new \in SUBSET Nat
      BY <1>1, <1>3, <1>9, Typed
  <2> QED BY <2>1, <2>2, NewestIs
<1> HIDE DEF m, miss
<1>13. ing'[d] = [ing[d] EXCEPT !.asks = {}, !.newest = m, !.missed = miss]
       /\ \A e \in Days \ {d} : ing'[e] = ing[e]
    BY <1>1, <1>7
<1>14. /\ ing'[d].on /\ ing'[d].asks = {} /\ ing'[d].todo = ing[d].todo
       /\ ing'[d].newest = m /\ ing'[d].missed = miss
    BY <1>13, <1>1, <1>5 DEF Ingest
<1>15. m \in Sessions \cup {0} /\ m \in Days
    BY <1>4, <1>5, <1>9, <1>12, Typed, EmptyTypes DEF Progress
<1>16. miss \subseteq Tickers /\ ing[d].missed \subseteq miss
    BY <1>1, <1>3 DEF miss, Ingest
<1>17. ing'[d] \in Ingest
    BY <1>1, <1>13, <1>15, <1>16 DEF Ingest
<1>18. ing' \in [Days -> Ingest]
    BY <1>1, <1>7, <1>17, <1>13
<1>19. TypeOK'
    BY <1>10, <1>18 DEF IInv, TypeOK
<1>20. ASSUME NEW e \in Days PROVE Progress(e)'
  <2>1. CASE e # d
    <3>1. \A b \in ing[e].asks : b.ticker \in Tickers
        BY Typed DEF Ingest, Request
    <3>2. Progress(e) /\ ing'[e] = ing[e] /\ lost' = lost
        BY <2>1, <1>13 DEF IInv, Data
    <3> QED BY <3>1, <3>2, <1>10 DEF Progress
  <2>2. CASE e = d
    <3>1. m = 0 \/ lost # {} \/ \E u \in Tickers : m \in bars'[u]
      <4>1. CASE m = ing[d].newest
          BY <4>1, <1>4, <1>10 DEF Progress
      <4>2. CASE m = q /\ q # 0
        <5>1. q \in SessionsTo(q)
            BY <4>2, <1>3, <1>5 DEF SessionsTo
        <5> QED BY <4>2, <5>1, <1>3, <1>5, <1>10
      <4>3. CASE m \in new
          BY <4>3, <1>3, <1>10
      <4> QED BY <4>1, <4>2, <4>3, <1>12
    <3>2. t \in miss \cup lost \/ SessionsTo(d - 1) \subseteq bars'[t]
        BY <1>11 DEF miss
    <3>3. \A u \in Tickers : u \in ing[d].todo \cup miss \cup lost
                             \/ SessionsTo(d - 1) \subseteq bars'[u]
        BY <3>2, <1>4, <1>5, <1>10, <1>16 DEF Progress
    <3>4. lost' = lost
        OBVIOUS
    <3> QED BY <2>2, <3>1, <3>3, <3>4, <1>14, <1>15 DEF Progress
  <2> QED BY <2>1, <2>2
<1>21. NoHoles' /\ CleanIngestCompletes' /\ StampIsABar'
  <2>1. NoHoles'
      BY <1>10, <1>11 DEF IInv, Data, NoHoles
  <2>2. CleanIngestCompletes' /\ StampIsABar'
      BY <1>10 DEF IInv, Data, CleanIngestCompletes, StampIsABar
  <2> QED BY <2>1, <2>2
<1>22. Plans'
    BY <1>10, PlansKept
<1> QED BY <1>19, <1>20, <1>21, <1>22 DEF IInv, Data

LEMMA FetchFailsInv ==
    ASSUME IInv, NEW d \in Days, NEW a \in ing[d].asks, FetchFails(d, a),
           UNCHANGED <<clock, up, settings, torn, lost, stamp, report, candidates, planned, snap,
                       bought, cleared, faults>>
    PROVE  IInv'
<1> USE DEF clock
<1>1. /\ ing[d] \in Ingest /\ ing \in [Days -> Ingest] /\ bars' = bars
      /\ ing' = [ing EXCEPT ![d].asks = {}, ![d].missed = @ \cup {a.ticker}]
    BY Typed DEF IInv, TypeOK, FetchFails
<1>2. a.ticker \in Tickers
    BY <1>1 DEF Ingest, Request
<1>3. /\ ing'[d] = [ing[d] EXCEPT !.asks = {}, !.missed = @ \cup {a.ticker}]
      /\ \A e \in Days \ {d} : ing'[e] = ing[e]
    BY <1>1
<1>4. ing'[d] \in Ingest
    BY <1>1, <1>2, <1>3 DEF Ingest
<1>5. TypeOK'
  <2>1. ing' \in [Days -> Ingest]
      BY <1>1, <1>3, <1>4
  <2> QED BY <1>1, <2>1 DEF IInv, TypeOK
<1>6. Progress(d) /\ ing[d] # NoIngest
    BY DEF IInv, Data, NoIngest
<1>7. /\ ing'[d].on /\ ing'[d].asks = {} /\ ing'[d].todo = ing[d].todo
      /\ ing'[d].newest = ing[d].newest /\ ing'[d].missed = ing[d].missed \cup {a.ticker}
    BY <1>1, <1>3, <1>6 DEF Ingest, Progress
<1>8. ASSUME NEW e \in Days PROVE Progress(e)'
  <2>1. CASE e # d
      BY <2>1, <1>1, <1>3 DEF IInv, Data, Progress
  <2>2. CASE e = d
    <3>1. \A b \in ing[d].asks : b = a
        BY <1>6 DEF Progress
    <3>2. lost' = lost
        OBVIOUS
    <3> QED BY <2>2, <3>1, <3>2, <1>1, <1>6, <1>7 DEF Progress
  <2> QED BY <2>1, <2>2
<1>9. NoHoles' /\ CleanIngestCompletes' /\ StampIsABar'
    BY <1>1 DEF IInv, Data, NoHoles, CleanIngestCompletes, StampIsABar
<1>10. Plans'
    BY <1>1, PlansKept
<1> QED BY <1>5, <1>8, <1>9, <1>10 DEF IInv, Data

LEMMA FetchEndsInv == ASSUME IInv, NEW d \in Days, FetchEnds(d) PROVE IInv'
    BY AnsweredInv, FetchFailsInv DEF FetchEnds

(* The stamp that is written is a bar the run has seen, or the old one. *)
LEMMA StampTyped ==
    ASSUME IInv, NEW d \in Days
    PROVE  /\ StampOfBars(d) \in Sessions \cup {0}
           /\ StampOfBars(d) = 0 \/ lost # {} \/ \E t \in Tickers : StampOfBars(d) \in bars[t]
<1>1. Progress(d) /\ TypeOK /\ StampIsABar
    BY DEF IInv, Data
<1>2. ing[d] = NoIngest => ing[d].newest = 0
    BY DEF NoIngest
<1> QED BY <1>1, <1>2, Typed DEF StampOfBars, Progress, TypeOK, StampIsABar

LEMMA EndIngestInv == ASSUME IInv, NEW d \in Days, EndIngest(d) PROVE IInv'
<1>1. /\ UNCHANGED <<day, hour, due, up, settings, bars, torn, lost, candidates, planned,
                      bought, cleared>>
      /\ stamp' = StampOfBars(d) /\ report' = [day |-> d, missed |-> ing[d].missed]
      /\ ing' = [ing EXCEPT ![d] = NoIngest]
      /\ faults' \in 0..MaxFaults /\ snap' \in {planned', snap}
    BY PersistTyped DEF EndIngest, clock
<1>2. ing[d] \in Ingest /\ ing \in [Days -> Ingest]
    BY Typed DEF IInv, TypeOK
<1>3. \A e \in Days : ing'[e] \in {ing[e], NoIngest}
    BY <1>1, <1>2
<1>4. TypeOK'
  <2>1. ing' \in [Days -> Ingest]
      BY <1>1, <1>2, EmptyTypes
  <2>2. report' \in [day : Days, missed : SUBSET Tickers]
      BY <1>1, <1>2 DEF Ingest
  <2>3. snap' \in Plan
      BY <1>1 DEF IInv, TypeOK
  <2> QED BY <1>1, <2>1, <2>2, <2>3, StampTyped DEF IInv, TypeOK
<1>5. CleanIngestCompletes'
  <2>1. Progress(d) /\ ing[d] # NoIngest /\ ing[d].asks = {} /\ ing[d].todo = {}
      BY DEF EndIngest, IInv, Data, NoIngest
  <2>2. \A t \in Tickers \ (ing[d].missed \cup lost) : SessionsTo(d - 1) \subseteq bars[t]
      BY <2>1 DEF Progress
  <2> QED BY <1>1, <2>2 DEF CleanIngestCompletes
<1>6. NoHoles' /\ StampIsABar' /\ \A e \in Days : Progress(e)'
  <2>1. NoHoles' /\ StampIsABar'
      BY <1>1, StampTyped DEF IInv, Data, NoHoles, StampIsABar
  <2>2. ASSUME NEW e \in Days PROVE Progress(e)'
      BY <1>1, <1>3 DEF IInv, Data, Progress
  <2> QED BY <2>1, <2>2
<1>7. Plans'
    BY <1>1, PlansKept
<1> QED BY <1>4, <1>5, <1>6, <1>7 DEF IInv, Data

LEMMA IngestRaisesInv == ASSUME IInv, NEW d \in Days, IngestRaises(d) PROVE IInv'
<1>1. /\ UNCHANGED <<day, hour, due, up, settings, report, candidates, planned, snap, bought,
                      cleared>>
      /\ ing' = [ing EXCEPT ![d] = NoIngest]
    BY DEF IngestRaises, clock
<1>2. ing[d] \in Ingest /\ ing \in [Days -> Ingest]
    BY Typed DEF IInv, TypeOK
<1>3. \A e \in Days : ing'[e] \in {ing[e], NoIngest}
    BY <1>1, <1>2
<1>4. /\ bars' \in [Tickers -> SUBSET Sessions]
      /\ torn' \subseteq Tickers \cup {Decisions} /\ lost' \subseteq Tickers
      /\ lost \subseteq lost'
      /\ lost' # {} \/ bars' = bars
      /\ \A t \in Tickers \ lost' : bars'[t] = bars[t]
      /\ faults' \in 0..MaxFaults
      /\ stamp' = stamp \/ (stamp' = StampOfBars(d) /\ UNCHANGED <<bars, lost>>)
  <2>0. /\ bars \in [Tickers -> SUBSET Sessions] /\ faults \in 0..MaxFaults
        /\ torn \subseteq Tickers \cup {Decisions} /\ lost \subseteq Tickers
      BY DEF IInv, TypeOK
  <2>1. CASE UNCHANGED <<storage, faults>>
      BY <2>0, <2>1 DEF storage
  <2>2. CASE \E a \in ing[d].asks : Loses(a.ticker) /\ Fault /\ UNCHANGED stamp
    <3>1. PICK a \in ing[d].asks : Loses(a.ticker) /\ Fault /\ UNCHANGED stamp
        BY <2>2
    <3>2. a.ticker \in Tickers \cup {Decisions}
        BY <1>2 DEF Ingest, Request
    <3> QED BY <3>1, <3>2, LostInv, FaultTyped
  <2>3. CASE stamp' \in {stamp, StampOfBars(d)} /\ UNCHANGED <<bars, torn, lost, faults>>
      BY <2>0, <2>3
  <2> QED BY <2>1, <2>2, <2>3 DEF IngestRaises
<1>5. TypeOK'
  <2>1. ing' \in [Days -> Ingest]
      BY <1>1, <1>2, EmptyTypes
  <2> QED BY <1>1, <1>4, <2>1, StampTyped DEF IInv, TypeOK
<1>6. Data'
  <2>1. CASE stamp' = stamp
      BY <2>1, <1>1, <1>3, <1>4, DataKept
  <2>2. CASE stamp' = StampOfBars(d) /\ UNCHANGED <<bars, lost>>
    <3>1. NoHoles' /\ CleanIngestCompletes' /\ StampIsABar'
        BY <2>2, <1>1, StampTyped
        DEF IInv, Data, NoHoles, CleanIngestCompletes, StampIsABar
    <3>2. ASSUME NEW e \in Days PROVE Progress(e)'
        BY <2>2, <1>3 DEF IInv, Data, Progress
    <3> QED BY <3>1, <3>2 DEF Data
  <2> QED BY <2>1, <2>2, <1>4
<1>7. Plans'
    BY <1>1, <1>4, PlansKept
<1> QED BY <1>5, <1>6, <1>7 DEF IInv

-----------------------------------------------------------------------------
(* The other steps *)

(* The clock goes on: a new day has no premarket behind it. *)
LEMMA TimePassesInv == ASSUME IInv, TimePasses PROVE IInv'
<1>1. /\ UNCHANGED <<up, settings, bars, torn, lost, stamp, ing, candidates, planned, snap,
                      faults>>
      /\ due' = (up /\ day' \in Weekdays) /\ report' = NoReport /\ bought' = NoEntries
      /\ cleared' = (cleared /\ day' = day)
      /\ \/ day' = day /\ hour' = NextHour[hour] /\ hour # "scan"
         \/ day < LastDay /\ day' = day + 1 /\ hour' = "premarket"
    BY DEF TimePasses, storage
<1>2. hour' \in Hours /\ (hour' = "premarket" => day' # day)
    BY <1>1, Typed DEF NextHour, Hours
<1>3. TypeOK'
  <2>1. day' \in FirstDay..LastDay
      BY <1>1, SessionsAreDays DEF IInv, TypeOK
  <2>2. due' \in BOOLEAN /\ cleared' \in BOOLEAN
      BY <1>1
  <2> QED BY <1>1, <1>2, <2>1, <2>2, EmptyTypes DEF IInv, TypeOK
<1>4. Data'
    BY <1>1, DataKept
<1>5. Plans'
  <2>1. (hour = "premarket" /\ due => ~cleared)'
      BY <1>1, <1>2
  <2>2. Sound(planned)' /\ Sound(snap)'
      BY <1>1 DEF IInv, Plans, Sound
  <2>3. BoughtOnLastBars'
      BY <1>1 DEF BoughtOnLastBars, NoEntries
  <2> QED BY <2>1, <2>2, <2>3 DEF Plans
<1> QED BY <1>3, <1>4, <1>5 DEF IInv

LEMMA ScanInv == ASSUME IInv, nightly_scan PROVE IInv'
<1>1. /\ UNCHANGED <<day, hour, up, settings, bars, torn, lost, stamp, ing, report, bought,
                      cleared, planned>>
      /\ due' = FALSE
    BY DEF nightly_scan, Fires, storage
<1>2. candidates' \subseteq Tickers /\ snap' \in {planned', snap} /\ faults' \in 0..MaxFaults
  <2>1. CASE ScanRaises
      BY <2>1 DEF ScanRaises, IInv, TypeOK
  <2>2. CASE ScanRanks
      BY <2>2, PersistTyped DEF ScanRanks, NoCandidates
  <2> QED BY <2>1, <2>2 DEF nightly_scan
<1>3. TypeOK'
    BY <1>1, <1>2 DEF IInv, TypeOK
<1>4. Data' /\ Plans'
    BY <1>1, <1>2, DataKept, PlansKept
<1> QED BY <1>3, <1>4 DEF IInv

LEMMA eodInv == ASSUME IInv, eod_close PROVE IInv'
<1>1. /\ UNCHANGED <<day, hour, due, up, settings, bars, torn, lost, stamp, ing, report,
                      candidates, bought, cleared, planned>>
      /\ snap' \in {planned', snap} /\ faults' \in 0..MaxFaults
    BY PersistTyped DEF eod_close, storage, clock
<1>2. TypeOK'
    BY <1>1 DEF IInv, TypeOK
<1>3. Data' /\ Plans'
    BY <1>1, DataKept, PlansKept
<1> QED BY <1>2, <1>3 DEF IInv

LEMMA RestartInv == ASSUME IInv, Restart PROVE IInv'
<1>1. /\ UNCHANGED <<day, hour, due, bars, torn, lost, stamp, ing, report, candidates, bought,
                      cleared, snap, faults>>
      /\ planned' = snap /\ up' = TRUE /\ settings' \in Configs
    BY DEF Restart, storage, clock
<1>2. TypeOK'
    BY <1>1 DEF IInv, TypeOK
<1>3. Data' /\ Plans'
    BY <1>1, DataKept, PlansKept
<1> QED BY <1>2, <1>3 DEF IInv

(* A crash may lose a partition that is being written, and no other. *)
LEMMA CrashInv == ASSUME IInv, Crash PROVE IInv'
<1>1. /\ UNCHANGED <<day, hour, settings, stamp, report, snap, bought, cleared>>
      /\ up' = FALSE /\ due' = FALSE
      /\ ing' = [d \in Days |-> NoIngest] /\ candidates' = {} /\ planned' = NoPlan
      /\ faults' \in 0..MaxFaults
    BY FaultTyped DEF Crash, NoCandidates
<1>2. /\ bars' \in [Tickers -> SUBSET Sessions]
      /\ torn' \subseteq Tickers \cup {Decisions} /\ lost' \subseteq Tickers
      /\ lost \subseteq lost'
      /\ lost' # {} \/ bars' = bars
      /\ \A t \in Tickers \ lost' : bars'[t] = bars[t]
  <2>1. CASE UNCHANGED <<bars, torn, lost>>
      BY <2>1 DEF IInv, TypeOK
  <2>2. CASE \E p \in BeingWritten : Loses(p)
    <3>1. BeingWritten \subseteq Tickers \cup {Decisions}
        BY DEF BeingWritten
    <3> QED BY <2>2, <3>1, LostInv
  <2> QED BY <2>1, <2>2 DEF Crash
<1>3. TypeOK'
    BY <1>1, <1>2, EmptyTypes DEF IInv, TypeOK
<1>4. Data' /\ Plans'
    BY <1>1, <1>2, DataKept, PlansKept
<1> QED BY <1>3, <1>4 DEF IInv

LEMMA ShutdownInv == ASSUME IInv, shutdown PROVE IInv'
<1>1. /\ UNCHANGED <<day, hour, settings, bars, torn, lost, stamp, ing, report, bought, cleared>>
      /\ up' = FALSE /\ due' = FALSE /\ faults' \in 0..MaxFaults
      /\ candidates' = {} /\ planned' = NoPlan /\ snap' \in {planned, snap}
    BY FaultTyped DEF shutdown, storage, NoCandidates
<1>2. TypeOK'
    BY <1>1, EmptyTypes DEF IInv, TypeOK
<1>3. Data' /\ Plans'
    BY <1>1, DataKept, PlansKept
<1> QED BY <1>2, <1>3 DEF IInv

(* What a tick buys by the plan of today was planned on the last session.  *)
LEMMA TickInv == ASSUME IInv, Tick PROVE IInv'
<1>1. /\ UNCHANGED <<day, hour, due, up, settings, bars, torn, lost, stamp, ing, report,
                      candidates, cleared>>
      /\ planned' = NoPlan /\ snap' \in {planned', snap} /\ faults' \in 0..MaxFaults
    BY PersistTyped DEF Tick, storage, clock
<1>2. PICK S \in SUBSET planned.names :
          bought' = IF S = {} THEN bought
                    ELSE [on |-> day, plan |-> planned.day, stamp |-> planned.stamp, names |-> S]
    BY DEF Tick
<1>3. TypeOK'
  <2>1. bought' \in [on : Days, plan : Days, stamp : Days, names : SUBSET Tickers]
      BY <1>2, Typed DEF IInv, TypeOK, Plan
  <2> QED BY <1>1, <2>1, EmptyTypes DEF IInv, TypeOK
<1>4. BoughtOnLastBars'
  <2>1. CASE S = {}
      BY <2>1, <1>1, <1>2 DEF IInv, Plans, BoughtOnLastBars
  <2>2. CASE S # {}
    <3>1. bought' = [on |-> day, plan |-> planned.day, stamp |-> planned.stamp, names |-> S]
        BY <2>2, <1>2
    <3>2. planned.stamp > 0 => Age(planned.stamp, planned.day) <= MaxAge
        BY <2>2 DEF IInv, Plans, Sound
    <3>3. ASSUME planned.day = day, NEW t \in S, t \notin lost
          PROVE  Newest(SessionsTo(day - 1)) \in bars[t]
      <4>1. t \in Tickers /\ day - 1 \in bars[t]
          BY <3>3, Typed DEF IInv, Plans, Sound, Plan
      <4>2. day - 1 \in SessionsTo(day - 1) /\ SessionsTo(day - 1) \in SUBSET Sessions
          BY <4>1, Typed DEF SessionsTo
      <4>3. /\ day - 1 <= Newest(SessionsTo(day - 1)) /\ Newest(SessionsTo(day - 1)) \in Nat
            /\ Newest(SessionsTo(day - 1)) \in SessionsTo(day - 1) \cup {0}
          BY <4>2, NewestSession
      <4>4. day - 1 \in Nat /\ \A s \in SessionsTo(day - 1) : s <= day - 1
          BY Typed DEF SessionsTo
      <4>5. Newest(SessionsTo(day - 1)) <= day - 1
          BY <4>3, <4>4
      <4>6. Newest(SessionsTo(day - 1)) = day - 1
          BY <4>3, <4>4, <4>5
      <4> QED BY <4>1, <4>6
    <3> QED BY <3>1, <3>2, <3>3, <1>1 DEF BoughtOnLastBars
  <2> QED BY <2>1, <2>2
<1>5. Data'
    BY <1>1, DataKept
<1>6. Plans'
  <2>1. Sound(planned)' /\ Sound(snap)'
    <3>1. Sound(NoPlan)'
        BY EmptyTypes DEF Sound
    <3>2. Sound(snap) /\ UNCHANGED <<lost, bars, cleared, day>>
        BY <1>1 DEF IInv, Plans
    <3> QED BY <1>1, <3>1, <3>2 DEF Sound
  <2> QED BY <2>1, <1>1, <1>4 DEF IInv, Plans
<1> QED BY <1>3, <1>5, <1>6 DEF IInv

(* The plan that is made passed the freshness gate and, name by name, the  *)
(* context of the day before; a plan that was not made is gone.            *)
LEMMA PremarketInv == ASSUME IInv, premarket_verify PROVE IInv'
<1>1. /\ UNCHANGED <<day, hour, up, settings, bars, lost, stamp, ing, report, candidates, bought>>
      /\ due' = FALSE /\ ~cleared
    BY DEF premarket_verify, Fires, IInv, Plans
<1>2. /\ snap' \in {planned', snap} /\ cleared' \in BOOLEAN
      /\ cleared' => snap' = planned'
      /\ faults' \in 0..MaxFaults
      /\ torn' \subseteq Tickers \cup {Decisions}
  <2>0. /\ torn \subseteq Tickers \cup {Decisions} /\ faults \in 0..MaxFaults
        /\ cleared \in BOOLEAN
      BY DEF IInv, TypeOK
  <2>1. CASE NotAutomatic
      BY <2>0, <2>1, <1>1 DEF NotAutomatic
  <2>2. CASE Refused \/ Suppressed \/ Sized
      BY <2>0, <2>2, PersistTyped DEF Refused, Suppressed, Sized, EndPremarket
  <2>3. CASE PlanRaises
      BY <2>0, <2>3, <1>1, FaultTyped DEF PlanRaises
  <2> QED BY <2>1, <2>2, <2>3 DEF premarket_verify
<1>3. \/ planned' = NoPlan
      \/ /\ Passes
         /\ \E S \in SUBSET {t \in candidates : GateContext(t)} :
                planned' = [day |-> day, names |-> S,
                            stamp |-> IF settings.require_fresh THEN stamp ELSE 0]
    BY DEF premarket_verify, NotAutomatic, Refused, Suppressed, PlanRaises, Sized
<1>4. ASSUME NEW t \in Tickers, GateContext(t) PROVE day - 1 \in bars[t]
  <2>1. bars[t] # {}
      BY <1>4, FS_EmptySet DEF GateContext
  <2>2. Newest(bars[t]) \in bars[t] \cup {0} /\ \A s \in bars[t] : s <= Newest(bars[t])
      BY Typed, NewestSession
  <2>3. \A s \in bars[t] : s \in Nat /\ 0 < s
      BY Typed
  <2>4. Newest(bars[t]) # 0
      BY <2>1, <2>2, <2>3
  <2> QED BY <2>2, <2>4, <1>4 DEF GateContext
<1>5. /\ planned' \in Plan
      /\ planned'.names # {} =>
            /\ planned'.day = day
            /\ planned'.stamp > 0 => Age(planned'.stamp, day) <= MaxAge
            /\ \A t \in planned'.names : day - 1 \in bars[t]
  <2>1. CASE planned' = NoPlan
      BY <2>1, EmptyTypes
  <2>2. CASE planned' # NoPlan
    <3> DEFINE z == IF settings.require_fresh THEN stamp ELSE 0
    <3>1. PICK S \in SUBSET {t \in candidates : GateContext(t)} :
              planned' = [day |-> day, names |-> S, stamp |-> z]
        BY <2>2, <1>3
    <3>2. S \subseteq Tickers /\ \A t \in S : GateContext(t)
        BY DEF IInv, TypeOK
    <3>3. \A t \in S : day - 1 \in bars[t]
        BY <3>2, <1>4
    <3>4. z \in Days /\ (z > 0 => Age(z, day) <= MaxAge)
        BY <2>2, <1>3, Typed, EmptyTypes DEF Passes, Fresh
    <3> HIDE DEF z
    <3> QED BY <3>1, <3>2, <3>3, <3>4, Typed DEF Plan
  <2> QED BY <2>1, <2>2
<1>6. TypeOK'
  <2>1. snap' \in Plan
      BY <1>2, <1>5 DEF IInv, TypeOK
  <2> QED BY <1>1, <1>2, <1>5, <2>1 DEF IInv, TypeOK
<1>7. Data'
    BY <1>1, DataKept
<1>8. Sound(planned)'
    BY <1>1, <1>5, Typed DEF Sound
<1>9. Sound(snap)'
  <2>1. CASE snap' = planned'
      BY <1>8, <2>1 DEF Sound
  <2>2. CASE snap' = snap /\ ~cleared'
      BY <2>2, <1>1 DEF IInv, Plans, Sound
  <2> QED BY <1>2, <2>1, <2>2
<1>10. Plans'
    BY <1>1, <1>8, <1>9 DEF IInv, Plans, BoughtOnLastBars
<1> QED BY <1>6, <1>7, <1>10 DEF IInv

LEMMA StutterInv == ASSUME IInv, UNCHANGED vars PROVE IInv'
<1>1. /\ UNCHANGED <<day, hour, due, up, settings, bars, torn, lost, stamp, ing, report,
                      candidates, planned, snap, bought, cleared, faults>>
    BY DEF vars, clock, storage
<1>2. TypeOK'
    BY <1>1 DEF IInv, TypeOK
<1>3. Data' /\ Plans'
    BY <1>1, DataKept, PlansKept
<1> QED BY <1>2, <1>3 DEF IInv

LEMMA NextInv == ASSUME IInv, [Next]_vars PROVE IInv'
<1>1. CASE TimePasses
    BY <1>1, TimePassesInv
<1>2. CASE StartIngest
    BY <1>2, StartIngestInv
<1>3. ASSUME NEW d \in Days, NEW t \in Tickers, IngestTicker(d, t) PROVE IInv'
    BY <1>3, IngestTickerInv
<1>4. ASSUME NEW d \in Days, FetchEnds(d) \/ IngestRaises(d) \/ EndIngest(d) PROVE IInv'
    BY <1>4, FetchEndsInv, IngestRaisesInv, EndIngestInv
<1>5. CASE nightly_scan
    BY <1>5, ScanInv
<1>6. CASE premarket_verify
    BY <1>6, PremarketInv
<1>7. CASE Tick
    BY <1>7, TickInv
<1>8. CASE eod_close
    BY <1>8, eodInv
<1>9. CASE Crash
    BY <1>9, CrashInv
<1>10. CASE shutdown
    BY <1>10, ShutdownInv
<1>11. CASE Restart
    BY <1>11, RestartInv
<1>12. CASE UNCHANGED vars
    BY <1>12, StutterInv
<1> QED
    BY <1>1, <1>2, <1>3, <1>4, <1>5, <1>6, <1>7, <1>8, <1>9, <1>10, <1>11, <1>12
    DEF Next

LEMMA Invariance == Spec => []IInv
<1>1. Init => IInv
    BY InitInv
<1>2. IInv /\ [Next]_vars => IInv'
    BY NextInv
<1> QED BY <1>1, <1>2, PTL DEF Spec

-----------------------------------------------------------------------------
(* The theorems *)

(* Whatever fails or is lost, every variable keeps its type; no session is *)
(* recorded that is none, the stamp is a session, and no plan names a      *)
(* ticker outside the universe.                                            *)
THEOREM TypeCorrect == Spec => []TypeOK
<1>1. IInv => TypeOK
    BY DEF IInv
<1> QED BY <1>1, Invariance, PTL

(* The bars of a ticker on disk never have a hole, unless a failed write   *)
(* lost some: every fetch starts after the ticker's own last bar (eod.py   *)
(* 83-88), whatever the stamp says, also of ingests that run side by side. *)
THEOREM NoHolesEver == Spec => []NoHoles
<1>1. IInv => NoHoles
    BY DEF IInv, Data
<1> QED BY <1>1, Invariance, PTL

(* An ingest that ends has brought every ticker to the session before it   *)
(* that it does not report and for which the source did not lag behind,    *)
(* however many jobs were lost before (eod.py 73-131).                     *)
THEOREM CleanIngest == Spec => []CleanIngestCompletes
<1>1. IInv => CleanIngestCompletes
    BY DEF IInv, Data
<1> QED BY <1>1, Invariance, PTL

(* The stamp the freshness gate reads is the day of a bar on disk, as long *)
(* as no failed write lost bars (eod.py 122-131, freshness.py 43-69).      *)
THEOREM StampIsReal == Spec => []StampIsABar
<1>1. IInv => StampIsABar
    BY DEF IInv, Data
<1> QED BY <1>1, Invariance, PTL

(* What the plan of the day buys was planned within the freshness budget   *)
(* and on the bar of the last session (runtime.py 441-461, context.py 62). *)
THEOREM BoughtOnLast == Spec => []BoughtOnLastBars
<1>1. IInv => BoughtOnLastBars
    BY DEF IInv, Plans
<1> QED BY <1>1, Invariance, PTL

(* Once the premarket job of a day has reached the snapshot, no plan of an *)
(* earlier day is bought, through crashes and restarts (runtime.py 742-769). *)
THEOREM PlanIsOfTheDay == Spec => PlanOfTheDay
<1>1. ASSUME IInv, [Next]_vars, bought' # bought, bought' # NoEntries, bought'.plan < day
      PROVE  ~cleared
  <2>1. Tick
      BY <1>1
      DEF Next, vars, TimePasses, StartIngest, IngestTicker, FetchEnds, EndIngest, IngestRaises,
          nightly_scan, premarket_verify, eod_close, Crash, shutdown, Restart
  <2>2. planned.names # {} /\ bought'.plan = planned.day
    <3>1. PICK S \in SUBSET planned.names :
              bought' = IF S = {} THEN bought
                        ELSE [on |-> day, plan |-> planned.day, stamp |-> planned.stamp,
                              names |-> S]
        BY <2>1 DEF Tick
    <3> QED BY <3>1, <1>1
  <2>3. planned.day < day /\ planned.day \in Nat /\ day \in Nat
      BY <1>1, <2>2, Typed
  <2> QED BY <2>2, <2>3, <1>1 DEF IInv, Plans, Sound
<1>2. IInv /\ [Next]_vars =>
          [bought' # bought /\ bought' # NoEntries /\ bought'.plan < day => ~cleared]_vars
    BY <1>1
<1> QED BY <1>2, Invariance, PTL DEF Spec, PlanOfTheDay
=============================================================================
