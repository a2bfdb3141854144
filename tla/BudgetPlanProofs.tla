--------------------------- MODULE BudgetPlanProofs ---------------------------
(***************************************************************************)
(* Theorems of BudgetPlan, for every value of its constants.               *)
(*                                                                         *)
(* The argument: a row of either table is stamped with the commit that     *)
(* wrote it and at most once with a later one that superseded it, so what  *)
(* stood at an earlier commit never changes again; and a plan writes rows  *)
(* of one period, which is not over.  Of the periods nothing is assumed:   *)
(* that a preview is four periods of its schedule, and what another        *)
(* preview computes from one of them, are the theorems of CalendarProofs.  *)
(***************************************************************************)
EXTENDS BudgetPlan, CalendarProofs

\* A row was written by one commit, and perhaps superseded by a later one.
Stamped(row) == row.at \in 1 .. commits /\ (row.until # 0 => row.until \in row.at + 1 .. commits)

\* The base targets of a category that stood at an instant.
StoodAt(c, n) == {b \in base : b.category = c /\ InForce(b, n)}

\* What a period target tells of its computation.
Explained(t) ==
    IF t.from = 0 THEN StoodAt(t.category, t.at) = {} /\ t.amount = 0
    ELSE \E b \in StoodAt(t.category, t.at) : b.at = t.from /\ b.amount = t.amount

OneStandingTarget ==
    \A t, u \in Standing(target) : t.period = u.period /\ t.category = u.category => t = u

\* The inductive invariant.
PlanInv ==
    /\ PlanTypeOK
    /\ \A row \in base \cup target : Stamped(row)
    /\ \A t \in target : Explained(t)
    /\ OneStandingTarget

-----------------------------------------------------------------------------
(***************************************************************************)
(* What superseding does to a table.                                       *)
(***************************************************************************)

\* Superseding keeps the typing of base targets.
LEMMA SupersedeBaseType ==
  ASSUME commits \in Nat, NEW rows \in SUBSET BaseRows, NEW some \in SUBSET rows
  PROVE  Supersede(rows, some) \subseteq BaseRows
  BY DEF Supersede, BaseRows, Now

\* A superseded period target is the row it was, but for when that happened.
LEMMA SupersededTargetIs ==
  ASSUME commits \in Nat, NEW t \in TargetRows, NEW day \in Int
  PROVE  LET u == SupersededTarget(t, day)
         IN  /\ u \in TargetRows
             /\ u.category = t.category /\ u.period = t.period /\ u.at = t.at
             /\ u.from = t.from /\ u.amount = t.amount
             /\ u.until = Now /\ u.until # 0 /\ u.supersededOn = day
  <1> DEFINE v == [t EXCEPT !.until = Now]
             u == [v EXCEPT !.supersededOn = day]
  <1>1. Now \in Nat /\ Now # 0
    BY DEF Now
  <1>2. /\ v \in TargetRows /\ v.until = Now
        /\ v.category = t.category /\ v.period = t.period /\ v.at = t.at
        /\ v.from = t.from /\ v.amount = t.amount
    BY <1>1 DEF TargetRows
  <1>3. u = SupersededTarget(t, day)
    BY DEF SupersededTarget
  <1> HIDE DEF v
  <1>4. /\ u \in TargetRows /\ u.until = v.until /\ u.supersededOn = day
        /\ u.category = v.category /\ u.period = v.period /\ u.at = v.at
        /\ u.from = v.from /\ u.amount = v.amount
    BY <1>2 DEF TargetRows
  <1> HIDE DEF u
  <1> QED  BY <1>1, <1>2, <1>3, <1>4

\* The days a transaction that commits today may have begun and read.
LEMMA DaysUnderWay ==
  ASSUME PlanTypeOK, NEW days \in UnderWay
  PROVE  days[2] \in {today - 1, today} /\ days[2] \in Int /\ today \in Int
  BY DEF UnderWay, PlanTypeOK

-----------------------------------------------------------------------------
(***************************************************************************)
(* Type correctness.                                                       *)
(***************************************************************************)

\* A written space has its four periods.
LEMMA ConfirmedPeriods ==
  ASSUME PlanTypeOK, MayWrite
  PROVE  /\ period \in Previews /\ DOMAIN period = 1 .. 4
         /\ draft # Unset
         /\ commits \in Nat /\ Now \in Nat /\ Now = commits + 1
  BY DEF PlanTypeOK, MayWrite, Confirmed, Previews, Now

\* The target computed of a live category is a row of the table.
LEMMA FullPeriodTargetType ==
  ASSUME PlanTypeOK, MayWrite, NEW p \in DOMAIN period, NEW c \in Categories,
         NEW day \in Int
  PROVE  LET t == FullPeriodTarget(p, c, day)
         IN  /\ t \in TargetRows
             /\ t.category = c /\ t.period = p /\ t.at = Now /\ t.until = 0 /\ t.computedOn = day
             /\ BaseOf(c) = {} => t.from = 0 /\ t.amount = 0
             /\ BaseOf(c) # {} => \E b \in BaseOf(c) : t.from = b.at /\ t.amount = b.amount
  <1>1. /\ p \in Nat /\ Now \in Nat
    BY ConfirmedPeriods
  <1>2. CASE BaseOf(c) = {}
    BY <1>1, <1>2 DEF FullPeriodTarget, TargetRows
  <1>3. CASE BaseOf(c) # {}
    <2> DEFINE row == CHOOSE b \in BaseOf(c) : TRUE
    <2>1. row \in BaseOf(c)
      BY <1>3
    <2>2. row \in BaseRows
      BY <2>1 DEF BaseOf, Standing, PlanTypeOK
    <2>3. FullPeriodTarget(p, c, day) = [category |-> c, period |-> p, amount |-> row.amount,
                                         from |-> row.at, at |-> Now, until |-> 0,
                                         computedOn |-> day, supersededOn |-> 0]
      BY <1>3 DEF FullPeriodTarget
    <2> HIDE DEF row
    <2> QED  BY <1>1, <1>3, <2>1, <2>2, <2>3 DEF TargetRows, BaseRows
  <1> QED  BY <1>2, <1>3

\* The rows a plan stores are rows of its period, one for each live category.
LEMMA FreshTargetsType ==
  ASSUME PlanTypeOK, MayWrite, NEW p \in DOMAIN period, NEW day \in Int
  PROVE  /\ FreshTargets(p, day) \subseteq TargetRows
         /\ \A t \in FreshTargets(p, day) :
               /\ t.period = p /\ t.at = Now /\ t.until = 0 /\ t.computedOn = day
               /\ t = FullPeriodTarget(p, t.category, day)
               /\ t.category \in Categories
               /\ BaseOf(t.category) = {} => t.from = 0 /\ t.amount = 0
               /\ BaseOf(t.category) # {} =>
                     \E b \in BaseOf(t.category) : t.from = b.at /\ t.amount = b.amount
  BY FullPeriodTargetType DEF FreshTargets, Live

\* A request names categories.
LEMMA RequestDomain ==
  ASSUME NEW values, NEW request \in RequestsOf(values)
  PROVE  /\ DOMAIN request \subseteq Categories
         /\ \A c \in DOMAIN request : request[c] \in values
  BY DEF RequestsOf

\* What a plan that is stored leaves of a row: it stays, is superseded, or is
\* new.
LEMMA ReadPlanRows ==
  ASSUME PlanTypeOK, NEW asked, NEW begun, NEW handled \in Int, ReadPlan(asked, begun, handled),
         NEW u \in target'
  PROVE  LET p == PlanPeriod(asked)
         IN  \/ u \in target \ StoredTargets(p)
             \/ \E t \in StoredTargets(p) : u = SupersededTarget(t, handled)
             \/ u \in FreshTargets(p, handled)
  BY DEF ReadPlan, StoreTargets

\* The typing is kept by a plan that is stored.
LEMMA ReadPlanType ==
  ASSUME PlanTypeOK, NEW asked, NEW begun, NEW handled \in Int, ReadPlan(asked, begun, handled)
  PROVE  target' \subseteq TargetRows /\ commits' \in Nat
  <1> DEFINE p == PlanPeriod(asked)
  <1>1. MayWrite /\ p \in DOMAIN period /\ commits' = Now
    BY DEF ReadPlan, Committed
  <1>2. StoredTargets(p) \subseteq target /\ target \subseteq TargetRows
    BY DEF StoredTargets, Standing, PlanTypeOK
  <1>3. FreshTargets(p, handled) \subseteq TargetRows /\ commits \in Nat /\ Now \in Nat
    BY <1>1, FreshTargetsType, ConfirmedPeriods
  <1>4. \A t \in StoredTargets(p) : SupersededTarget(t, handled) \in TargetRows
    BY <1>2, <1>3, SupersededTargetIs
  <1> QED  BY <1>1, <1>2, <1>3, <1>4, ReadPlanRows

\* The typing is kept by base targets that are set.
LEMMA SetBaseTargetsType ==
  ASSUME PlanTypeOK, NEW amounts \in RequestsOf(Amounts), SetBaseTargets(amounts)
  PROVE  base' \subseteq BaseRows /\ commits' \in Nat
  <1> DEFINE changed == {c \in DOMAIN amounts : \A b \in BaseOf(c) : b.amount # amounts[c]}
             some == UNION {BaseOf(c) : c \in changed}
             added == {[category |-> c, amount |-> amounts[c], at |-> Now, until |-> 0] : c \in changed}
  <1>1. MayWrite /\ commits' = Now /\ base' = Supersede(base, some) \cup added
    BY DEF SetBaseTargets, Committed
  <1>2. some \subseteq base
    BY DEF BaseOf, Standing
  <1>3. commits \in Nat /\ Now \in Nat
    BY <1>1, ConfirmedPeriods
  <1>4. \A c \in changed : c \in Categories /\ amounts[c] \in Nat
    BY RequestDomain, BoundsAssumption
  <1>5. added \subseteq BaseRows
    BY <1>3, <1>4 DEF BaseRows
  <1>6. base \subseteq BaseRows
    BY DEF PlanTypeOK
  <1> QED  BY <1>1, <1>2, <1>3, <1>5, <1>6, SupersedeBaseType

\* What a proposal previews are four periods of its schedule, and the first
\* contains its date.
LEMMA ProposedPreview ==
  ASSUME NEW s \in Definitions, NEW d \in StartDays, CanPreview(s, d)
  PROVE  IsPreviewAt(s, SchedulePreview(s, d), d) /\ SchedulePreview(s, d) \in Previews
  <1>1. IsValidDefinition(s) /\ d \in Int
    BY DefinitionsAssumption, BoundsAssumption
  <1>2. IsPreviewAt(s, SchedulePreview(s, d), d)
    BY <1>1, PreviewPeriods
  <1>3. SchedulePreview(s, d) \in [1 .. 4 -> [start : Int, end : Int]]
    BY <1>1, <1>2, PreviewFollows
  <1> QED  BY <1>2, <1>3 DEF Previews

\* Every step keeps the typing.
LEMMA PlanTypeStep == PlanTypeOK /\ [PlanStep]_planVars => PlanTypeOK'
  <1> SUFFICES ASSUME PlanTypeOK, [PlanStep]_planVars PROVE PlanTypeOK'
    OBVIOUS
  <1>1. ASSUME NEW d \in VisitedDays, DaysPass(d) PROVE PlanTypeOK'
    <2>1. draft = Unset => d \in StartDays
      BY DEF VisitedDays
    <2>2. d \in Nat
      <3>1. CASE draft = Unset
        BY <2>1, <3>1, BoundsAssumption
      <3>2. CASE draft # Unset
        <4>1. draft.day \in Nat
          BY <3>2, BoundsAssumption DEF PlanTypeOK
        <4>2. PICK n \in Nat : d = draft.day + n
          BY <3>2, BoundsAssumption DEF VisitedDays
        <4> QED  BY <4>1, <4>2
      <3> QED  BY <3>1, <3>2
    <2> QED  BY <1>1, <2>1, <2>2 DEF DaysPass, PlanTypeOK
  <1>2. ASSUME NEW s \in Definitions, Propose(s) PROVE PlanTypeOK'
    <2>1. today \in StartDays
      BY <1>2 DEF Propose, PlanTypeOK
    <2>2. SchedulePreview(s, today) \in Previews
      BY <1>2, <2>1, ProposedPreview DEF Propose
    <2> QED  BY <1>2, <2>1, <2>2 DEF Propose, PlanTypeOK
  <1>3. CASE OpenSpace
    BY <1>3 DEF OpenSpace, PlanTypeOK
  <1>4. ASSUME NEW archived, UpsertCategories(archived) PROVE PlanTypeOK'
    <2>1. category' \in [Categories -> {"absent", "live", "archived"}]
      BY <1>4 DEF UpsertCategories, PlanTypeOK
    <2>2. commits' \in Nat
      BY <1>4, ConfirmedPeriods DEF UpsertCategories, Committed
    <2> QED  BY <1>4, <2>1, <2>2 DEF UpsertCategories, PlanTypeOK
  <1>5. ASSUME NEW amounts \in RequestsOf(Amounts), SetBaseTargets(amounts) PROVE PlanTypeOK'
    <2>1. base' \subseteq BaseRows /\ commits' \in Nat
      BY <1>5, SetBaseTargetsType
    <2>2. UNCHANGED <<today, draft, period, category, target>>
      BY <1>5 DEF SetBaseTargets
    <2> QED  BY <2>1, <2>2 DEF PlanTypeOK
  <1>6. ASSUME NEW asked, NEW days \in UnderWay, ReadPlan(asked, days[1], days[2]) PROVE PlanTypeOK'
    <2>1. target' \subseteq TargetRows /\ commits' \in Nat
      BY <1>6, DaysUnderWay, ReadPlanType
    <2>2. UNCHANGED <<today, draft, period, category, base>>
      BY <1>6 DEF ReadPlan
    <2> QED  BY <2>1, <2>2 DEF PlanTypeOK
  <1>7. CASE UNCHANGED planVars
    BY <1>7 DEF planVars, PlanTypeOK
  <1> QED  BY <1>1, <1>2, <1>3, <1>4, <1>5, <1>6, <1>7 DEF PlanStep

\* Every variable of the plan keeps its shape (confirmation-store.ts,
\* targets/application.ts), for any schedules, dates, categories and amounts.
THEOREM PlanTypes == PlanSpec => []PlanTypeOK
  <1>1. PlanInit => PlanTypeOK
    BY DEF PlanInit, PlanTypeOK
  <1> QED  BY <1>1, PlanTypeStep, PTL DEF PlanSpec

-----------------------------------------------------------------------------
(***************************************************************************)
(* The periods are those of the schedule.                                  *)
(***************************************************************************)

\* A proposal keeps the preview of its date, and the rows of the space are it.
PeriodsInv ==
    /\ PlanTypeOK
    /\ draft # Unset => IsPreviewAt(draft.schedule, draft.periods, draft.day) /\ draft.day <= today
    /\ period # <<>> => draft # Unset /\ period = draft.periods

\* Every step keeps the rows what the proposal previewed.
LEMMA PeriodsStep == PeriodsInv /\ [PlanStep]_planVars => PeriodsInv'
  <1> SUFFICES ASSUME PeriodsInv, [PlanStep]_planVars PROVE PeriodsInv'
    OBVIOUS
  <1>1. PlanTypeOK /\ PlanTypeOK'
    BY PlanTypeStep DEF PeriodsInv
  <1>2. ASSUME NEW s \in Definitions, Propose(s) PROVE PeriodsInv'
    <2>1. today \in StartDays /\ CanPreview(s, today)
      BY <1>1, <1>2 DEF Propose, PlanTypeOK
    <2>2. IsPreviewAt(s, SchedulePreview(s, today), today)
      BY <2>1, ProposedPreview
    <2>3. /\ draft'.schedule = s /\ draft'.periods = SchedulePreview(s, today) /\ draft'.day = today
          /\ period' = <<>> /\ today' = today /\ today \in Nat
      BY <1>1, <1>2 DEF Propose, PlanTypeOK
    <2>4. draft'.day <= today'
      BY <2>3
    <2> QED  BY <1>1, <2>2, <2>3, <2>4 DEF PeriodsInv
  <1>3. CASE OpenSpace
    BY <1>1, <1>3 DEF OpenSpace, PeriodsInv
  <1>4. ASSUME UNCHANGED <<today, draft, period>> PROVE PeriodsInv'
    BY <1>1, <1>4 DEF PeriodsInv
  <1>5. ASSUME NEW d, DaysPass(d) PROVE PeriodsInv'
    <2>1. UNCHANGED <<draft, period>> /\ today' > today
      BY <1>5 DEF DaysPass
    <2>2. ASSUME draft # Unset PROVE draft.day <= today'
      <3>1. today \in Nat /\ today' \in Nat /\ draft.day <= today
        BY <1>1, <2>2 DEF PeriodsInv, PlanTypeOK
      <3>2. \A n \in StartDays : n \in Nat
        BY BoundsAssumption
      <3>3. draft.day \in Nat
        BY <1>1, <2>2, <3>2 DEF PlanTypeOK
      <3> QED  BY <2>1, <3>1, <3>3
    <2> QED  BY <1>1, <2>1, <2>2 DEF PeriodsInv
  <1>6. ASSUME NEW archived, UpsertCategories(archived) PROVE PeriodsInv'
    BY <1>4, <1>6 DEF UpsertCategories
  <1>7. ASSUME NEW amounts, SetBaseTargets(amounts) PROVE PeriodsInv'
    BY <1>4, <1>7 DEF SetBaseTargets
  <1>8. ASSUME NEW asked, NEW begun, NEW handled, ReadPlan(asked, begun, handled) PROVE PeriodsInv'
    BY <1>4, <1>8 DEF ReadPlan
  <1>9. CASE UNCHANGED planVars
    BY <1>4, <1>9 DEF planVars
  <1> QED  BY <1>2, <1>3, <1>5, <1>6, <1>7, <1>8, <1>9 DEF PlanStep

\* Each row of a confirmed space is the period of some date.
LEMMA RowIsPeriod ==
  ASSUME PeriodsInv, Confirmed
  PROVE  /\ IsValidDefinition(draft.schedule) /\ draft.day \in Int
         /\ IsPreviewAt(draft.schedule, period, draft.day)
         /\ DOMAIN period = 1 .. 4
         /\ \A i \in 1 .. 4 : \E x \in Int : IsPeriodAt(draft.schedule, period[i], x)
  <1>1. draft # Unset /\ period = draft.periods
    BY DEF PeriodsInv, Confirmed
  <1>2. draft.schedule \in Definitions /\ draft.day \in StartDays
    BY <1>1 DEF PeriodsInv, PlanTypeOK
  <1>3. IsValidDefinition(draft.schedule) /\ draft.day \in Int
    <2>1. IsValidDefinition(draft.schedule)
      BY <1>2, DefinitionsAssumption, Zenon
    <2>2. \A n \in StartDays : n \in Int
      BY BoundsAssumption
    <2>3. draft.day \in Int
      BY <1>2, <2>2, Zenon
    <2> QED  BY <2>1, <2>3
  <1>4. IsPreviewAt(draft.schedule, period, draft.day)
    BY <1>1 DEF PeriodsInv
  <1>5. DOMAIN period = 1 .. 4 /\ \A i \in 1 .. 4 : period[i].end \in Int
    BY <1>3, <1>4, PreviewFollows
  <1>6. period[1].end + 1 \in Int /\ period[2].end + 1 \in Int /\ period[3].end + 1 \in Int
    BY <1>5
  <1>7. \A i \in 1 .. 4 : i = 1 \/ i = 2 \/ i = 3 \/ i = 4
    OBVIOUS
  <1>8. \A i \in 1 .. 4 : \E x \in Int : IsPeriodAt(draft.schedule, period[i], x)
    BY <1>3, <1>4, <1>6, <1>7, Zenon DEF IsPreviewAt
  <1> QED  BY <1>3, <1>4, <1>5, <1>8

\* The row the detail route takes is one of the four.
LEMMA ActiveRowStored ==
  ASSUME DOMAIN period = 1 .. 4
  PROVE  ActiveRow \in 1 .. 4
  <1> DEFINE rows == RowsContaining(today)
  <1>1. rows \subseteq 1 .. 4
    BY DEF RowsContaining
  <1>2. CASE rows # {}
    <2>1. rows \in SUBSET Int /\ \A i \in rows : 1 <= i
      BY <1>1
    <2> HIDE DEF rows
    <2>2. Min(rows) \in rows
      BY <1>2, <2>1, LeastOfDates
    <2> QED  BY <1>1, <1>2, <2>2 DEF ActiveRow, rows
  <1>3. CASE rows = {}
    BY <1>3 DEF ActiveRow, CurrentPeriodId
  <1> QED  BY <1>2, <1>3

\* What is stored and what the detail route shows follow the schedule.
LEMMA PeriodsImply == PeriodsInv => PeriodsFollowSchedule
  <1> SUFFICES ASSUME PeriodsInv, Confirmed
               PROVE  /\ 1 \in RowsContaining(draft.day)
                      /\ FollowsSchedule(period)
                      /\ DetailReadable => FollowsSchedule(DetailPeriods)
    BY DEF PeriodsFollowSchedule
  <1> DEFINE s == draft.schedule
             d == draft.day
  <1>1. /\ IsValidDefinition(s) /\ d \in Int /\ IsPreviewAt(s, period, d) /\ DOMAIN period = 1 .. 4
        /\ \A i \in 1 .. 4 : \E x \in Int : IsPeriodAt(s, period[i], x)
    BY RowIsPeriod
  <1>2. 1 \in RowsContaining(d)
    <2>1. period[1].start <= d /\ d <= period[1].end
      BY <1>1, Zenon DEF IsPreviewAt, IsPeriodAt
    <2> QED  BY <1>1, <2>1 DEF RowsContaining
  <1>3. ASSUME NEW rows, Follows(s, rows) PROVE FollowsSchedule(rows)
    BY <1>3, Zenon DEF Follows, FollowsSchedule
  <1>4. Follows(s, period)
    BY <1>1, PreviewFollows
  <1>5. ASSUME DetailReadable PROVE Follows(s, DetailPeriods)
    <2> DEFINE p == period[ActiveRow]
    <2>1. ActiveRow \in 1 .. 4
      BY <1>1, ActiveRowStored
    <2>2. PICK x \in Int : IsPeriodAt(s, p, x)
      BY <1>1, <2>1
    <2>3. CanPreview(s, p.start) /\ DetailPeriods = <<p>> \o SubSeq(SchedulePreview(s, p.start), 2, 4)
      BY <1>5, Zenon DEF DetailReadable, DetailPeriods
    <2> HIDE DEF p, s
    <2>4. Follows(s, <<p>> \o SubSeq(SchedulePreview(s, p.start), 2, 4))
      BY <1>1, <2>2, <2>3, PreviewContinues
    <2> QED  BY <2>3, <2>4
  <1> QED  BY <1>2, <1>3, <1>4, <1>5

\* The stored periods begin with the one the proposal was made in and follow
\* the schedule, and so do those the detail route computes again from the
\* stored row, on any later date and over another horizon (paycheck-period.ts:
\* "any two horizons agree on every boundary they both cover"; "the following
\* three periods continue the stored one", budget-space-reader.ts), whatever
\* the schedule and whatever the dates.
THEOREM PeriodsAreTheSchedules == PlanSpec => []PeriodsFollowSchedule
  <1>1. PlanInit => PeriodsInv
    BY DEF PlanInit, PeriodsInv, PlanTypeOK
  <1> QED  BY <1>1, PeriodsStep, PeriodsImply, PTL DEF PlanSpec

\* The period of today, as the detail route finds it, is the one the plan route
\* takes when none is asked for: exactly until the first period is over, and
\* again after the last one that is stored.
RoutesAgreeInTime ==
    Confirmed =>
        (ActiveRow = PlanPeriod(Unset) <=> today <= period[1].end \/ period[4].end < today)

\* The rows contain every day from the proposal to the last one's end, and the
\* first contains no day after its own.
LEMMA RoutesImply == PeriodsInv => RoutesAgreeInTime
  <1> SUFFICES ASSUME PeriodsInv, Confirmed
               PROVE  ActiveRow = PlanPeriod(Unset) <=> today <= period[1].end \/ period[4].end < today
    BY DEF RoutesAgreeInTime
  <1> DEFINE s == draft.schedule
             rows == RowsContaining(today)
             p1 == period[1]
             p2 == period[2]
             p3 == period[3]
             p4 == period[4]
  <1>1. PlanPeriod(Unset) = 1 /\ CurrentPeriodId = 1
    BY DEF PlanPeriod, CurrentPeriodId
  <1>2. /\ IsValidDefinition(s) /\ draft.day \in Int /\ IsPreviewAt(s, period, draft.day)
        /\ DOMAIN period = 1 .. 4
    BY RowIsPeriod
  <1>3. draft.day <= today /\ today \in Int
    BY DEF PeriodsInv, PlanTypeOK, Confirmed
  <1>4. /\ p1.start \in Int /\ p1.end \in Int /\ p2.start \in Int /\ p2.end \in Int
        /\ p3.start \in Int /\ p3.end \in Int /\ p4.start \in Int /\ p4.end \in Int
    BY <1>2, PreviewFollows
  <1>5. p1.start <= draft.day /\ p2.start = p1.end + 1 /\ p3.start = p2.end + 1 /\ p4.start = p3.end + 1
    <2>1. /\ IsPeriodAt(s, p1, draft.day) /\ IsPeriodAt(s, p2, p1.end + 1)
          /\ IsPeriodAt(s, p3, p2.end + 1) /\ IsPeriodAt(s, p4, p3.end + 1)
      BY <1>2, Zenon DEF IsPreviewAt
    <2>2. p1.end + 1 \in Int /\ p2.end + 1 \in Int
      BY <1>4
    <2>3. p1.start <= draft.day
      BY <2>1, Zenon DEF IsPeriodAt
    <2> QED  BY <1>2, <2>1, <2>2, <2>3, NextPeriod
  <1>6. p1.end <= p2.end /\ p2.end <= p3.end /\ p3.end <= p4.end
    <2>1. /\ p1.end + 1 <= p2.end /\ p2.end + 1 <= p3.end /\ p3.end + 1 <= p4.end
      BY <1>2, Zenon DEF IsPreviewAt, IsPeriodAt
    <2> HIDE DEF p1, p2, p3, p4
    <2> QED  BY <1>4, <2>1
  <1>7. \A i \in 1 .. 4 : i \in rows <=> period[i].start <= today /\ today <= period[i].end
    BY <1>2, Zenon DEF RowsContaining
  <1>8. /\ 1 \in rows <=> p1.start <= today /\ today <= p1.end
        /\ 2 \in rows <=> p2.start <= today /\ today <= p2.end
        /\ 3 \in rows <=> p3.start <= today /\ today <= p3.end
        /\ 4 \in rows <=> p4.start <= today /\ today <= p4.end
    <2>1. 1 \in 1 .. 4 /\ 2 \in 1 .. 4 /\ 3 \in 1 .. 4 /\ 4 \in 1 .. 4
      OBVIOUS
    <2> QED  BY <1>7, <2>1, Zenon
  <1>9. rows \subseteq 1 .. 4 /\ rows \in SUBSET Int /\ \A i \in rows : 1 <= i
    BY <1>2 DEF RowsContaining
  <1> DEFINE d == draft.day
  <1> HIDE DEF rows, p1, p2, p3, p4, d
  <1>10. rows # {} => Min(rows) \in rows /\ \A i \in rows : Min(rows) <= i
    BY <1>9, LeastOfDates
  <1>11. ActiveRow = IF rows # {} THEN Min(rows) ELSE 1
    BY <1>1, Zenon DEF ActiveRow, rows
  <1>12. d \in Int /\ d <= today /\ p1.start <= d
    BY <1>2, <1>3, <1>5 DEF d
  <1>13. CASE today <= p1.end
    <2>1. 1 \in rows
      BY <1>3, <1>4, <1>8, <1>12, <1>13
    <2>2. Min(rows) \in Int /\ 1 <= Min(rows) /\ Min(rows) <= 1
      BY <1>9, <1>10, <2>1, Zenon
    <2> DEFINE least == Min(rows)
    <2>3. least = 1
      <3>1. least \in Int /\ 1 <= least /\ least <= 1
        BY <2>2
      <3> HIDE DEF least
      <3> QED  BY <3>1
    <2> QED  BY <1>1, <1>11, <1>13, <2>1, <2>3 DEF p1
  <1>14. CASE p4.end < today
    <2>1. 1 \notin rows /\ 2 \notin rows /\ 3 \notin rows /\ 4 \notin rows
      BY <1>3, <1>4, <1>6, <1>8, <1>14
    <2>2. rows = {}
      BY <1>9, <2>1
    <2> QED  BY <1>1, <1>11, <1>14, <2>2 DEF p4
  <1>15. CASE ~(today <= p1.end) /\ ~(p4.end < today)
    <2>1. 1 \notin rows /\ (2 \in rows \/ 3 \in rows \/ 4 \in rows)
      BY <1>3, <1>4, <1>5, <1>8, <1>15 DEF p1, p2, p3, p4
    <2>2. ActiveRow \in rows
      BY <1>10, <1>11, <2>1
    <2> QED  BY <1>1, <1>15, <2>1, <2>2 DEF p1, p4
  <1> QED  BY <1>13, <1>14, <1>15

\* "The plan route and the detail route agree on periodId", says
\* budget-space-reader.ts: they do until the first period is over, whatever the
\* schedule, and from the day after it they do not.
THEOREM RoutesPartWhenItEnds == PlanSpec => []RoutesAgreeInTime
  <1>1. PlanInit => PeriodsInv
    BY DEF PlanInit, PeriodsInv, PlanTypeOK
  <1> QED  BY <1>1, PeriodsStep, RoutesImply, PTL DEF PlanSpec

-----------------------------------------------------------------------------
(***************************************************************************)
(* What stood at a commit stays what stood then.                           *)
(***************************************************************************)

\* A row that this commit supersedes has a good stamp.
LEMMA SupersededStamp ==
  ASSUME commits \in Nat, commits' = Now, NEW old, Stamped(old),
         NEW row, row.at = old.at, row.until = Now
  PROVE  Stamped(row)'
  <1>1. old.at \in 1 .. commits /\ Now = commits + 1
    BY DEF Stamped, Now
  <1> QED  BY <1>1 DEF Stamped

\* Stamps of the base targets stay good when some that stand are superseded and
\* rows of this commit are added.
LEMMA StampsKept ==
  ASSUME commits \in Nat, commits' = Now,
         NEW rows, NEW some \in SUBSET Standing(rows), NEW added,
         \A row \in rows : Stamped(row),
         \A row \in added : row.at = Now /\ row.until = 0,
         rows \subseteq BaseRows
  PROVE  \A row \in Supersede(rows, some) \cup added : Stamped(row)'
  <1>0. /\ Now = commits + 1
        /\ \A row \in rows : row.at \in Nat /\ row.until \in Nat
    BY DEF Now, BaseRows
  <1> SUFFICES ASSUME NEW row \in Supersede(rows, some) \cup added PROVE Stamped(row)'
    OBVIOUS
  <1>1. CASE row \in rows
    <2>1. Stamped(row) /\ row.at \in Nat /\ row.until \in Nat
      BY <1>0, <1>1
    <2> QED  BY <1>0, <2>1 DEF Stamped
  <1>2. CASE row \in added
    BY <1>0, <1>2 DEF Stamped
  <1>3. ASSUME NEW old \in some, row = [old EXCEPT !.until = Now] PROVE Stamped(row)'
    <2>1. Stamped(old) /\ old \in BaseRows
      BY DEF Standing
    <2>2. row.at = old.at /\ row.until = Now
      BY <1>3, <2>1 DEF BaseRows
    <2> QED  BY <2>1, <2>2, SupersededStamp
  <1> QED  BY <1>1, <1>2, <1>3 DEF Supersede

\* A stamp stays good at the next commit.
LEMMA StampStays ==
  ASSUME commits \in Nat, commits' \in {commits, Now}, NEW row, Stamped(row)
  PROVE  Stamped(row)'
  <1>1. row.at \in 1 .. commits /\ (row.until # 0 => row.until \in row.at + 1 .. commits)
    BY DEF Stamped
  <1>2. row.at \in 1 .. commits' /\ (row.until # 0 => row.until \in row.at + 1 .. commits')
    BY <1>1 DEF Now
  <1> QED  BY <1>2 DEF Stamped

\* Setting base targets at this commit changes nothing that stood at an
\* earlier one, up to its being superseded now.
LEMMA PastStands ==
  ASSUME commits \in Nat, base \subseteq BaseRows, \A b \in base : Stamped(b),
         NEW some \in SUBSET Standing(base), NEW added,
         \A b \in added : b.at = Now /\ b.until = 0,
         base' = Supersede(base, some) \cup added,
         NEW c, NEW n \in 1 .. commits
  PROVE  /\ \A b \in StoodAt(c, n) : \E d \in StoodAt(c, n)' : d.at = b.at /\ d.amount = b.amount
         /\ \A d \in StoodAt(c, n)' : StoodAt(c, n) # {}
  <1>0. /\ Now = commits + 1
        /\ \A b \in base : b.at \in Nat /\ b.until \in Nat /\ b.amount \in Nat
    BY DEF Now, BaseRows
  <1>1. ASSUME NEW b \in StoodAt(c, n)
        PROVE  \E d \in StoodAt(c, n)' : d.at = b.at /\ d.amount = b.amount
    <2>1. b \in base /\ b.category = c /\ InForce(b, n)
      BY DEF StoodAt
    <2>2. CASE b \notin some
      <3>1. b \in base'
        BY <2>1, <2>2 DEF Supersede
      <3> QED  BY <2>1, <3>1 DEF StoodAt
    <2>3. CASE b \in some
      <3> DEFINE d == [b EXCEPT !.until = Now]
      <3>1. d \in base'
        BY <2>3 DEF Supersede
      <3>2. /\ d.at = b.at /\ d.amount = b.amount /\ d.category = c /\ d.until = Now
        BY <2>1 DEF BaseRows
      <3> HIDE DEF d
      <3>3. InForce(d, n)
        BY <1>0, <2>1, <3>2 DEF InForce
      <3> QED  BY <3>1, <3>2, <3>3 DEF StoodAt
    <2> QED  BY <2>2, <2>3
  <1>2. ASSUME NEW d \in StoodAt(c, n)' PROVE StoodAt(c, n) # {}
    <2>1. d \in base' /\ d.category = c /\ InForce(d, n)
      BY DEF StoodAt
    <2>2. d \notin added
      BY <1>0, <2>1 DEF InForce
    <2>3. CASE d \in base
      BY <2>1, <2>3 DEF StoodAt
    <2>4. ASSUME NEW b \in some, d = [b EXCEPT !.until = Now] PROVE StoodAt(c, n) # {}
      <3>1. b \in base /\ b.until = 0
        BY DEF Standing
      <3>2. b.at = d.at /\ b.category = c
        BY <2>1, <2>4, <3>1 DEF BaseRows
      <3>3. InForce(b, n)
        BY <2>1, <3>1, <3>2 DEF InForce
      <3> QED  BY <3>1, <3>2, <3>3 DEF StoodAt
    <2> QED  BY <2>1, <2>2, <2>3, <2>4 DEF Supersede
  <1> QED  BY <1>1, <1>2

\* Base targets are superseded and written under the targets computed of them.
LEMMA SetBaseTargetsKeeps ==
  ASSUME PlanInv, NEW amounts \in RequestsOf(Amounts), SetBaseTargets(amounts)
  PROVE  /\ \A row \in base' \cup target' : Stamped(row)'
         /\ \A t \in target' : Explained(t)'
  <1> DEFINE changed == {c \in DOMAIN amounts : \A b \in BaseOf(c) : b.amount # amounts[c]}
             some == UNION {BaseOf(c) : c \in changed}
             added == {[category |-> c, amount |-> amounts[c], at |-> Now, until |-> 0] : c \in changed}
  <1>1. /\ commits \in Nat /\ commits' = Now /\ Now = commits + 1 /\ target' = target
        /\ base' = Supersede(base, some) \cup added
        /\ base \subseteq BaseRows /\ target \subseteq TargetRows
        /\ \A row \in base \cup target : Stamped(row)
    BY ConfirmedPeriods DEF SetBaseTargets, Committed, PlanInv, PlanTypeOK
  <1>2. some \subseteq Standing(base)
    BY DEF BaseOf
  <1>3. \A b \in added : b.at = Now /\ b.until = 0
    OBVIOUS
  <1> HIDE DEF some, added
  <1>4. \A row \in base' : Stamped(row)'
    BY ZenonT(40), <1>1, <1>2, <1>3, StampsKept
  <1>5. \A t \in target' : Stamped(t)'
    BY <1>1, StampStays
  <1>6. ASSUME NEW t \in target PROVE Explained(t)'
    <2>1. t.at \in 1 .. commits
      BY <1>1 DEF Stamped
    <2>2. /\ \A b \in StoodAt(t.category, t.at) :
                \E d \in StoodAt(t.category, t.at)' : d.at = b.at /\ d.amount = b.amount
          /\ \A d \in StoodAt(t.category, t.at)' : StoodAt(t.category, t.at) # {}
      BY <1>1, <1>2, <1>3, <2>1, PastStands
    <2>3. Explained(t)
      BY DEF PlanInv
    <2>4. CASE t.from = 0
      BY <2>2, <2>3, <2>4 DEF Explained
    <2>5. CASE t.from # 0
      <3>1. PICK b \in StoodAt(t.category, t.at) : b.at = t.from /\ b.amount = t.amount
        BY <2>3, <2>5 DEF Explained
      <3>2. PICK d \in StoodAt(t.category, t.at)' : d.at = b.at /\ d.amount = b.amount
        BY <2>2
      <3> QED  BY <2>5, <3>1, <3>2 DEF Explained
    <2> QED  BY <2>4, <2>5
  <1> QED  BY <1>1, <1>4, <1>5, <1>6

\* What stands now is what stood at this commit.
LEMMA StandsNow ==
  ASSUME commits \in Nat, base \subseteq BaseRows, \A b \in base : Stamped(b), NEW c
  PROVE  StoodAt(c, Now) = BaseOf(c)
  <1>1. ASSUME NEW b \in base PROVE InForce(b, Now) <=> b.until = 0
    <2>1. b.at \in 1 .. commits /\ (b.until # 0 => b.until \in b.at + 1 .. commits)
      BY DEF Stamped
    <2>2. b.at \in Nat /\ b.until \in Nat
      BY DEF BaseRows
    <2> QED  BY <2>1, <2>2 DEF InForce, Now
  <1> QED  BY <1>1 DEF StoodAt, BaseOf, Standing

\* A row that tells the same computation is explained by the same base targets.
LEMMA SameExplained ==
  ASSUME NEW t, NEW u, Explained(t), UNCHANGED base,
         u.category = t.category, u.at = t.at, u.from = t.from, u.amount = t.amount
  PROVE  Explained(u)'
  <1>1. \A c, n : StoodAt(c, n)' = StoodAt(c, n)
    BY DEF StoodAt
  <1> QED  BY <1>1 DEF Explained

\* A plan that is stored explains its rows and keeps one standing row for each
\* period and category.
LEMMA ReadPlanKeeps ==
  ASSUME PlanInv, NEW asked, NEW begun, NEW handled \in Int, ReadPlan(asked, begun, handled)
  PROVE  /\ \A row \in base' \cup target' : Stamped(row)'
         /\ \A t \in target' : Explained(t)'
         /\ OneStandingTarget'
  <1> DEFINE p == PlanPeriod(asked)
             fresh == FreshTargets(p, handled)
  <1>1. /\ commits \in Nat /\ commits' = Now /\ Now = commits + 1 /\ base' = base
        /\ MayWrite /\ p \in DOMAIN period
        /\ base \subseteq BaseRows /\ target \subseteq TargetRows
        /\ \A row \in base \cup target : Stamped(row)
    BY ConfirmedPeriods DEF ReadPlan, Committed, PlanInv, PlanTypeOK
  <1>2. StoredTargets(p) \subseteq target /\ \A t \in StoredTargets(p) : t.until = 0
    BY DEF StoredTargets, Standing
  <1>3. \A t \in fresh :
           /\ t \in TargetRows /\ t.period = p /\ t.at = Now /\ t.until = 0
           /\ t = FullPeriodTarget(p, t.category, handled)
           /\ BaseOf(t.category) = {} => t.from = 0 /\ t.amount = 0
           /\ BaseOf(t.category) # {} =>
                 \E b \in BaseOf(t.category) : t.from = b.at /\ t.amount = b.amount
    BY <1>1, FreshTargetsType DEF PlanInv
  <1>4. \A t \in StoredTargets(p) :
           LET u == SupersededTarget(t, handled)
           IN  /\ u.category = t.category /\ u.at = t.at /\ u.from = t.from /\ u.amount = t.amount
               /\ u.until = Now /\ u.until # 0
    BY <1>1, <1>2, SupersededTargetIs
  <1>5. \A u \in target' :
           \/ u \in target \ StoredTargets(p)
           \/ \E t \in StoredTargets(p) : u = SupersededTarget(t, handled)
           \/ u \in fresh
    BY ReadPlanRows DEF PlanInv
  <1> HIDE DEF p, fresh
  <1>6. ASSUME NEW u \in target' PROVE Stamped(u)'
    <2>1. CASE u \in target
      BY <1>1, <2>1, StampStays
    <2>2. ASSUME NEW t \in StoredTargets(p), u = SupersededTarget(t, handled) PROVE Stamped(u)'
      BY <1>1, <1>2, <1>4, <2>2, SupersededStamp
    <2>3. CASE u \in fresh
      BY <1>1, <1>3, <2>3 DEF Stamped
    <2> QED  BY <1>5, <2>1, <2>2, <2>3
  <1>7. \A b \in base' : Stamped(b)'
    BY <1>1, StampStays
  <1>8. ASSUME NEW t \in fresh PROVE Explained(t)'
    <2>1. StoodAt(t.category, t.at) = BaseOf(t.category)
      BY <1>1, <1>3, StandsNow
    <2>2. Explained(t)
      <3>1. CASE BaseOf(t.category) = {}
        BY <1>3, <2>1, <3>1 DEF Explained
      <3>2. CASE BaseOf(t.category) # {}
        <4>1. PICK b \in BaseOf(t.category) : t.from = b.at /\ t.amount = b.amount
          BY <1>3, <3>2
        <4>2. b.at # 0
          BY <1>1, <4>1 DEF BaseOf, Standing, Stamped
        <4> QED  BY <2>1, <4>1, <4>2 DEF Explained
      <3> QED  BY <3>1, <3>2
    <2> QED  BY <1>1, <2>2 DEF Explained, StoodAt
  <1>9. ASSUME NEW u \in target' PROVE Explained(u)'
    <2>1. \A t \in target : Explained(t)
      BY DEF PlanInv
    <2>2. CASE u \in target
      BY <1>1, <2>1, <2>2, SameExplained
    <2>3. ASSUME NEW t \in StoredTargets(p), u = SupersededTarget(t, handled) PROVE Explained(u)'
      BY <1>1, <1>2, <1>4, <2>1, <2>3, SameExplained
    <2> QED  BY <1>5, <1>8, <2>2, <2>3
  <1>10. ASSUME NEW t \in target', NEW u \in target', t.until = 0, u.until = 0,
                t.period = u.period, t.category = u.category
         PROVE  t = u
    <2>1. \A r \in target' : r.until = 0 =>
             \/ r \in fresh
             \/ r \in target /\ r.period # p
      BY <1>4, <1>5 DEF Standing, StoredTargets
    <2>2. CASE t \in fresh
      BY <1>3, <1>10, <2>1, <2>2
    <2>3. CASE t \notin fresh
      <3>1. t \in Standing(target) /\ u \in Standing(target)
        BY <1>3, <1>10, <2>1, <2>3 DEF Standing
      <3> QED  BY <1>10, <3>1 DEF PlanInv, OneStandingTarget
    <2> QED  BY <2>2, <2>3
  <1> QED  BY <1>6, <1>7, <1>9, <1>10 DEF OneStandingTarget, Standing

\* Every step keeps the inductive invariant.
LEMMA PlanInvStep == PlanInv /\ [PlanStep]_planVars => PlanInv'
  <1> SUFFICES ASSUME PlanInv, [PlanStep]_planVars PROVE PlanInv'
    OBVIOUS
  <1>1. PlanTypeOK'
    BY PlanTypeStep DEF PlanInv
  <1>2. ASSUME UNCHANGED <<base, target>>, commits' \in {commits, Now} PROVE PlanInv'
    <2>1. commits \in Nat
      BY DEF PlanInv, PlanTypeOK
    <2>2. ASSUME NEW row \in base \cup target PROVE Stamped(row)'
      <3>1. Stamped(row) /\ row.at \in Nat
        BY DEF PlanInv, PlanTypeOK, BaseRows, TargetRows
      <3> QED  BY <1>2, <2>1, <3>1 DEF Stamped, Now
    <2> QED  BY <1>1, <1>2, <2>2 DEF PlanInv, Explained, StoodAt, OneStandingTarget, Standing
  <1>3. ASSUME NEW d \in VisitedDays, DaysPass(d) PROVE PlanInv'
    BY <1>2, <1>3 DEF DaysPass
  <1>4. ASSUME NEW s \in Definitions, Propose(s) PROVE PlanInv'
    BY <1>2, <1>4 DEF Propose
  <1>5. CASE OpenSpace
    BY <1>2, <1>5 DEF OpenSpace
  <1>6. ASSUME NEW archived, UpsertCategories(archived) PROVE PlanInv'
    BY <1>2, <1>6 DEF UpsertCategories, Committed
  <1>7. ASSUME NEW amounts \in RequestsOf(Amounts), SetBaseTargets(amounts) PROVE PlanInv'
    <2>1. target' = target
      BY <1>7 DEF SetBaseTargets
    <2>2. OneStandingTarget'
      BY <2>1 DEF PlanInv, OneStandingTarget, Standing
    <2> QED  BY <1>1, <1>7, <2>2, SetBaseTargetsKeeps DEF PlanInv
  <1>8. ASSUME NEW asked, NEW days \in UnderWay, ReadPlan(asked, days[1], days[2]) PROVE PlanInv'
    BY <1>1, <1>8, DaysUnderWay, ReadPlanKeeps DEF PlanInv
  <1>9. CASE UNCHANGED planVars
    BY <1>2, <1>9 DEF planVars
  <1> QED  BY <1>3, <1>4, <1>5, <1>6, <1>7, <1>8, <1>9 DEF PlanStep

\* The inductive invariant of the plan.
THEOREM PlanInvariance == PlanSpec => []PlanInv
  <1>1. PlanInit => PlanInv
    BY DEF PlanInit, PlanInv, PlanTypeOK, OneStandingTarget, Standing
  <1> QED  BY <1>1, PlanInvStep, PTL DEF PlanSpec

\* In the order of the commits, every version of a period target, superseded or
\* not, tells the base target it was computed from, and no period has two
\* current targets of a category (targets/application.ts readPlan), however
\* reads, base targets and categories interleave.
THEOREM RowsExplainThemselves == PlanSpec => []PlanRowsExplain
  <1>1. PlanInv => PlanRowsExplain
    BY DEF PlanInv, PlanRowsExplain, Explained, StoodAt, OneStandingTarget
  <1> QED  BY <1>1, PlanInvariance, PTL

-----------------------------------------------------------------------------
(***************************************************************************)
(* Completed periods.                                                      *)
(***************************************************************************)

\* What a plan adds or supersedes says of itself that its period was not over.
LEMMA WrittenInTime ==
  ASSUME PlanTypeOK, NEW asked, NEW days \in UnderWay, ReadPlan(asked, days[1], days[2]),
         NEW u \in target' \ target
  PROVE  WrittenOn(u) \in {today - 1, today} /\ ~Completed(u.period, WrittenOn(u))
  <1> DEFINE p == PlanPeriod(asked)
  <1>1. MayWrite /\ p \in DOMAIN period /\ ~Completed(p, days[2])
    BY DEF ReadPlan
  <1>2. days[2] \in {today - 1, today} /\ days[2] \in Int /\ commits \in Nat /\ target \subseteq TargetRows
    BY DaysUnderWay DEF PlanTypeOK
  <1>3. ASSUME NEW t \in StoredTargets(p), u = SupersededTarget(t, days[2])
        PROVE  u.period = p /\ WrittenOn(u) = days[2]
    <2>1. t \in TargetRows /\ t.period = p
      BY <1>2 DEF StoredTargets, Standing
    <2>2. u.period = t.period /\ u.until # 0 /\ u.supersededOn = days[2]
      BY <1>2, <1>3, <2>1, SupersededTargetIs
    <2> QED  BY <2>1, <2>2 DEF WrittenOn
  <1>4. ASSUME u \in FreshTargets(p, days[2])
        PROVE  u.period = p /\ WrittenOn(u) = days[2]
    BY <1>1, <1>2, <1>4, FreshTargetsType DEF WrittenOn
  <1>5. u.period = p /\ WrittenOn(u) = days[2]
    BY <1>2, <1>3, <1>4, ReadPlanRows
  <1> QED  BY <1>1, <1>2, <1>5

\* What a plan takes from the standing rows is still there, superseded.
LEMMA SupersededStays ==
  ASSUME PlanInv, NEW asked, NEW days \in UnderWay, ReadPlan(asked, days[1], days[2]),
         NEW t \in target \ target'
  PROVE  t.until = 0 /\ \E u \in target' \ target :
                           u.period = t.period /\ u.category = t.category /\ u.at = t.at /\ u.until # 0
  <1> DEFINE p == PlanPeriod(asked)
             u == SupersededTarget(t, days[2])
  <1>1. t \in StoredTargets(p) /\ u \in target'
    BY DEF ReadPlan, StoreTargets
  <1>2. days[2] \in Int /\ commits \in Nat /\ t \in TargetRows /\ t.until = 0
    BY <1>1, DaysUnderWay DEF PlanInv, PlanTypeOK, StoredTargets, Standing
  <1>3. u.period = t.period /\ u.category = t.category /\ u.at = t.at /\ u.until = Now /\ u.until # 0
    BY <1>2, SupersededTargetIs
  <1>4. ASSUME u \in target PROVE FALSE
    <2>1. u.until \in u.at + 1 .. commits
      BY <1>3, <1>4 DEF PlanInv, Stamped
    <2>2. u.at \in Nat
      BY <1>4 DEF PlanInv, PlanTypeOK, TargetRows
    <2> HIDE DEF u
    <2> QED  BY <1>2, <1>3, <2>1, <2>2 DEF Now
  <1> QED  BY <1>1, <1>2, <1>3, <1>4

\* A period that is over keeps its rows for ever (readPlan, and the trigger of
\* the table), whatever happens to the base targets and the categories and
\* whoever reads its plan, also when a midnight passes under the read.
THEOREM CompletedPeriodsKept == PlanSpec => ClosedPeriodKept
  <1> DEFINE Kept ==
               /\ \A t \in target' \ target :
                     WrittenOn(t) \in {today - 1, today} /\ ~Completed(t.period, WrittenOn(t))
               /\ \A t \in target \ target' :
                     t.until = 0 /\ \E u \in target' \ target :
                        u.period = t.period /\ u.category = t.category /\ u.at = t.at /\ u.until # 0
  <1>1. PlanInv /\ [PlanStep]_planVars => [Kept]_planVars
    <2> SUFFICES ASSUME PlanInv, PlanStep PROVE Kept
      OBVIOUS
    <2>1. CASE UNCHANGED target
      BY <2>1
    <2>2. ASSUME NEW asked, NEW days \in UnderWay, ReadPlan(asked, days[1], days[2]) PROVE Kept
      BY <2>2, WrittenInTime, SupersededStays DEF PlanInv
    <2> QED  BY <2>1, <2>2
             DEF PlanStep, DaysPass, Propose, OpenSpace, UpsertCategories, SetBaseTargets
  <1> QED  BY <1>1, PlanInvariance, PTL DEF PlanSpec, ClosedPeriodKept
=============================================================================
