----------------------------- MODULE BudgetPlan -----------------------------
(***************************************************************************)
(* The periods and the plan of one budget space: the preview a proposal    *)
(* keeps, the period rows its confirmation stores, what the detail route   *)
(* shows of them later, the categories, and the base and period targets    *)
(* (budget-application/src/targets, persistence/budget-space-reader.ts and *)
(* the tables they write).                                                 *)
(*                                                                         *)
(* Each call of a route is one SERIALIZABLE transaction that is not        *)
(* retried, so a call is one step; one that is refused or loses a conflict *)
(* changes nothing.  Labels, positions and row versions of a category are  *)
(* left out, and with them the requests they refuse.  Dates are the        *)
(* numbers of BudgetCalendar; of the handlers' clocks, which stamp the     *)
(* rows, they are what is kept.  `at' and `until' are not these stamps but *)
(* the order of the commits, in which the tables are seen to change.       *)
(***************************************************************************)
EXTENDS BudgetCalendar, Sequences

CONSTANTS
    Definitions,  \* schedules a proposal is made with
    StartDays,    \* bound: the dates on which proposals are made
    Offsets,      \* bound: the later dates visited, as days after the proposal
    Categories,
    Amounts,      \* bound: amounts of the requests, in minor units
    Unset,
    MaxCommits    \* bound: commits that write, for each definition

Previews == [1 .. 4 -> [start : Int, end : Int]]

ASSUME DefinitionsAssumption == \A s \in Definitions : IsValidDefinition(s)
ASSUME BoundsAssumption ==
    /\ StartDays \subseteq Nat \ {0} /\ Offsets \subseteq Nat /\ Amounts \subseteq Nat
    /\ MaxCommits \in [Definitions -> Nat]

VARIABLES
    today,     \* the budget-space date; 0 before the first proposal
    draft,     \* the proposal: its schedule, its date, its previewed periods
    period,    \* budget_space_period: the rows, none before the confirmation
    category,  \* budget_category: each one's state
    base,      \* budget_category_base_target
    target,    \* budget_category_period_target
    commits    \* the commits so far that wrote targets or categories

planVars == <<today, draft, period, category, base, target, commits>>

PlanInit ==
    /\ today = 0 /\ draft = Unset /\ period = <<>>
    /\ category = [c \in Categories |-> "absent"]
    /\ base = {} /\ target = {} /\ commits = 0

-----------------------------------------------------------------------------
(* The space                                                                *)

VisitedDays == IF draft = Unset THEN StartDays ELSE {draft.day + n : n \in Offsets}

\* Midnights pass in the space's time zone.
DaysPass(d) ==
    /\ d \in VisitedDays /\ d > today
    /\ today' = d
    /\ UNCHANGED <<draft, period, category, base, target, commits>>

\* The proposal computes the preview of its date and keeps it.
Propose(s) ==
    /\ today > 0 /\ draft = Unset
    /\ CanPreview(s, today)
    /\ draft' = [schedule |-> s, day |-> today, periods |-> SchedulePreview(s, today)]
    /\ UNCHANGED <<today, period, category, base, target, commits>>

\* Within half an hour, so at most one midnight later, the confirmation stores
\* the previewed periods as they are.  The first is the space's
\* current_period_id, and nothing in the program writes that column or another
\* period row again.
OpenSpace ==
    /\ draft # Unset /\ period = <<>>
    /\ today <= draft.day + 1
    /\ period' = draft.periods
    /\ UNCHANGED <<today, draft, category, base, target, commits>>

Confirmed == period # <<>>
CurrentPeriodId == 1

\* The detail route: the stored row that contains today, and the current
\* period's row when none does; the next three are computed from its start.
RowsContaining(d) == {i \in DOMAIN period : period[i].start <= d /\ d <= period[i].end}
ActiveRow == IF RowsContaining(today) # {} THEN Min(RowsContaining(today)) ELSE CurrentPeriodId

DetailReadable == CanPreview(draft.schedule, period[ActiveRow].start)
DetailPeriods ==
    <<period[ActiveRow]>> \o SubSeq(SchedulePreview(draft.schedule, period[ActiveRow].start), 2, 4)

-----------------------------------------------------------------------------
(* Categories and base targets (upsertCategories, setBaseTargets)           *)

MayWrite == Confirmed /\ commits < MaxCommits[draft.schedule]

\* The place of the transaction among the commits.  The code stamps its rows
\* with the handler's clock instead, which may run against that order.
Now == commits + 1
Committed == commits' = Now

Standing(rows) == {r \in rows : r.until = 0}
Supersede(rows, some) == (rows \ some) \cup {[r EXCEPT !.until = Now] : r \in some}

Live == {c \in Categories : category[c] = "live"}

\* A request names some categories, new or known, and archives each or not.
UpsertCategories(archived) ==
    /\ MayWrite
    /\ category' = [c \in Categories |->
                        IF c \notin DOMAIN archived THEN category[c]
                        ELSE IF archived[c] THEN "archived" ELSE "live"]
    /\ Committed
    /\ UNCHANGED <<today, draft, period, base, target>>

\* Faulty: every row of the category counts.
BaseOfAnyVersion(c) == {b \in base : b.category = c}

\* currentBaseTargets: the standing row of a category, if it has one.
BaseOf(c) == {b \in Standing(base) : b.category = c}

\* All the categories named must be live.  An unchanged amount is left alone,
\* a changed one supersedes the standing row.
SetBaseTargets(amounts) ==
    LET changed == {c \in DOMAIN amounts : \A b \in BaseOf(c) : b.amount # amounts[c]}
    IN  /\ MayWrite
        /\ DOMAIN amounts \subseteq Live
        /\ changed # {}
        /\ base' = Supersede(base, UNION {BaseOf(c) : c \in changed}) \cup
                     {[category |-> c, amount |-> amounts[c], at |-> Now, until |-> 0] : c \in changed}
        /\ Committed
        /\ UNCHANGED <<today, draft, period, category, target>>

-----------------------------------------------------------------------------
(* The plan of one period (readPlan)                                        *)

\* Without a period in the request the plan is that of the current period.
PlanPeriod(asked) == IF asked = Unset THEN CurrentPeriodId ELSE asked

Completed(p, d) == period[p].end < d

\* fullPeriodTargets: every live category's standing amount, zero without one,
\* and the row it was computed from.
FullPeriodTarget(p, c, day) ==
    LET known == BaseOf(c) # {}
        row == CHOOSE b \in BaseOf(c) : TRUE
    IN  [category |-> c, period |-> p,
         amount |-> IF known THEN row.amount ELSE 0, from |-> IF known THEN row.at ELSE 0,
         at |-> Now, until |-> 0, computedOn |-> day, supersededOn |-> 0]

FreshTargets(p, day) == {FullPeriodTarget(p, c, day) : c \in Live}
StoredTargets(p) == {t \in Standing(target) : t.period = p}

\* sameStoredTarget: two sets are the same but for when they were computed.
Content(rows) == {[category |-> t.category, amount |-> t.amount, from |-> t.from] : t \in rows}

\* The trigger of the table: no row of a completed period is superseded, nor
\* one that was.
TriggerAdmits(rows, d) == \A t \in rows : t.until = 0 /\ ~Completed(t.period, d)

\* supersedePeriodTargets: what stands of a period is superseded, and the new
\* rows stored, on the day of the handler's clock.
SupersededTarget(t, day) == [t EXCEPT !.until = Now, !.supersededOn = day]

StoreTargets(p, day) ==
    target' = (target \ StoredTargets(p)) \cup {SupersededTarget(t, day) : t \in StoredTargets(p)}
                \cup FreshTargets(p, day)

\* A transaction that commits today may have begun, and its handler may have
\* read the clock, before the last midnight; their two clocks are taken to agree.
UnderWay == {days \in {today - 1, today} \X {today - 1, today} : days[1] <= days[2]}

\* Faulty: the period is judged on the day the transaction began.
ReadPlanOfEarlierDay(asked, begun, handled) ==
    LET p == PlanPeriod(asked)
    IN  /\ MayWrite
        /\ p \in DOMAIN period
        /\ Live # {}
        /\ ~Completed(p, begun)
        /\ Content(StoredTargets(p)) # Content(FreshTargets(p, handled))
        /\ TriggerAdmits(StoredTargets(p), begun)
        /\ StoreTargets(p, handled)
        /\ Committed
        /\ UNCHANGED <<today, draft, period, category, base>>

\* A plan that is read of an open period is stored, unless it is what is
\* stored.  Without live categories the read returns before it writes, and
\* nothing is written of a period that was completed when the handler read the
\* clock; the trigger compares with the start of the transaction.
ReadPlan(asked, begun, handled) ==
    LET p == PlanPeriod(asked)
    IN  /\ MayWrite
        /\ p \in DOMAIN period
        /\ Live # {}
        /\ ~Completed(p, handled)
        /\ Content(StoredTargets(p)) # Content(FreshTargets(p, handled))
        /\ TriggerAdmits(StoredTargets(p), begun)
        /\ StoreTargets(p, handled)
        /\ Committed
        /\ UNCHANGED <<today, draft, period, category, base>>

-----------------------------------------------------------------------------
RequestsOf(values) == UNION {[some -> values] : some \in SUBSET Categories \ {{}}}

PlanStep ==
    \/ \E d \in VisitedDays : DaysPass(d)
    \/ \E s \in Definitions : Propose(s)
    \/ OpenSpace
    \/ \E archived \in RequestsOf(BOOLEAN) : UpsertCategories(archived)
    \/ \E amounts \in RequestsOf(Amounts) : SetBaseTargets(amounts)
    \/ \E asked \in {Unset} \cup (1 .. 4), days \in UnderWay : ReadPlan(asked, days[1], days[2])

PlanSpec == PlanInit /\ [][PlanStep]_planVars

-----------------------------------------------------------------------------
(* Properties                                                               *)

BaseRows == [category : Categories, amount : Nat, at : Nat, until : Nat]
TargetRows == [category : Categories, period : Nat, amount : Nat, from : Nat, at : Nat, until : Nat,
               computedOn : Int, supersededOn : Int]

PlanTypeOK ==
    /\ today \in Nat /\ commits \in Nat
    /\ draft = Unset => today \in {0} \cup StartDays /\ period = <<>>
    /\ draft # Unset => draft \in [schedule : Definitions, day : StartDays, periods : Previews]
    /\ period = <<>> \/ period \in Previews
    /\ category \in [Categories -> {"absent", "live", "archived"}]
    /\ base \subseteq BaseRows
    /\ target \subseteq TargetRows

\* Consecutive periods that begin where the schedule says, and nowhere else.
FollowsSchedule(rows) ==
    /\ \A i \in 1 .. Len(rows) - 1 : rows[i + 1].start = rows[i].end + 1
    /\ Beginnings(draft.schedule, rows[1].start, rows[Len(rows)].end + 1) =
          {rows[i].start : i \in DOMAIN rows} \cup {rows[Len(rows)].end + 1}

\* The stored periods begin with the one the proposal was made in and are
\* those of the schedule; so are the ones the detail route shows, which it
\* computes again from another date and over another horizon: "any two
\* horizons agree on every boundary they both cover" (paycheck-period.ts), so
\* that "the following three periods continue the stored one"
\* (budget-space-reader.ts).
PeriodsFollowSchedule ==
    Confirmed =>
        /\ 1 \in RowsContaining(draft.day)
        /\ FollowsSchedule(period)
        /\ DetailReadable => FollowsSchedule(DetailPeriods)

\* A row of base or period targets counted at a place among the commits.
InForce(row, n) == row.at < n /\ (row.until = 0 \/ n < row.until)

\* Every version of a period target, superseded or not, still tells how it was
\* computed: it names the base target that stood where its commit stands among
\* the others and has its amount, or none stood; and no period has two current targets of a category
\* (records.ts: "recorded so the stored result can be re-derived").
PlanRowsExplain ==
    /\ \A t \in target :
          LET standing == {b \in base : b.category = t.category /\ InForce(b, t.at)}
          IN  IF t.from = 0 THEN standing = {} /\ t.amount = 0
              ELSE \E b \in standing : b.at = t.from /\ b.amount = t.amount
    /\ \A t, u \in Standing(target) :
          t.period = u.period /\ t.category = u.category => t = u

\* The day on which a row, as it now is, says it was written.
WrittenOn(t) == IF t.until = 0 THEN t.computedOn ELSE t.supersededOn

\* Once a period's last day is over no step adds a row to it or changes one,
\* whatever happens to the base targets and the categories and whoever reads
\* its plan (INV-79); and when a midnight falls between the begin of a read,
\* its clock and its commit, what it writes says of itself that the period was
\* not over.  A row that goes is still there, superseded.
ClosedPeriodKept ==
    [][/\ \A t \in target' \ target :
             WrittenOn(t) \in {today - 1, today} /\ ~Completed(t.period, WrittenOn(t))
       /\ \A t \in target \ target' :
             t.until = 0 /\ \E u \in target' \ target :
                                u.period = t.period /\ u.category = t.category /\ u.at = t.at /\ u.until # 0]_planVars

\* "The plan route and the detail route agree on periodId", says
\* budget-space-reader.ts of a plan that is read without naming a period.
RoutesAgree == Confirmed => ActiveRow = PlanPeriod(Unset)
=============================================================================
