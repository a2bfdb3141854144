--------------------------- MODULE BudgetCalendar ---------------------------
(***************************************************************************)
(* The calendar of a budget: packages/budget-domain/src/schedule and       *)
(* shared/iso-date.ts, and the preview the application makes from them.    *)
(* Pure functions of a schedule definition and a date.                     *)
(*                                                                         *)
(* A date is a day number, 0 being 1970-01-01: adding days, comparing and  *)
(* counting between dates are arithmetic.  A month is the number           *)
(* year * 12 + month - 1, the cursor of paycheck-period.ts.  A weekday is  *)
(* 0 (Monday) to 6, as dayOfWeekIndex answers.                             *)
(***************************************************************************)
EXTENDS Integers, FiniteSetsExt

Monday == 0
Thursday == 3
Weekdays == 0 .. 6

DayOfWeek(d) == (d + 3) % 7

IsLeapYear(y) == (y % 4 = 0 /\ y % 100 # 0) \/ y % 400 = 0

DaysInMonth(m) ==
    CASE m % 12 = 1 -> IF IsLeapYear(m \div 12) THEN 29 ELSE 28
      [] m % 12 \in {3, 5, 8, 10} -> 30
      [] OTHER -> 31

\* External: the JavaScript Date, which the code uses for these two only.
DaysBefore == <<0, 31, 59, 90, 120, 151, 181, 212, 243, 273, 304, 334>>
LeapYearsThrough(y) == (y \div 4) - (y \div 100) + (y \div 400)

FirstOfMonth(m) ==
    LET y == m \div 12
        k == m % 12
    IN  365 * (y - 1970) + LeapYearsThrough(y - 1) - LeapYearsThrough(1969)
            + DaysBefore[k + 1] + (IF k > 1 /\ IsLeapYear(y) THEN 1 ELSE 0)

MonthOf(d) ==
    LET about == 1970 * 12 + (4800 * d) \div 146097
    IN  CHOOSE m \in about - 1 .. about + 1 : FirstOfMonth(m) <= d /\ d < FirstOfMonth(m + 1)

YearOf(d) == MonthOf(d) \div 12

LastOfMonth(m) == FirstOfMonth(m) + DaysInMonth(m) - 1

-----------------------------------------------------------------------------
(* Federal Reserve business days (business-day.ts)                          *)

VerifiedFrom == 2026
VerifiedThrough == 2030
MaxAdjustmentSteps == 14

IsYearCovered(y) == y \in VerifiedFrom .. VerifiedThrough

NthWeekdayOfMonth(m, weekday, n) ==
    LET first == FirstOfMonth(m)
    IN  first + ((weekday - DayOfWeek(first)) % 7) + 7 * (n - 1)

LastWeekdayOfMonth(m, weekday) ==
    LastOfMonth(m) - ((DayOfWeek(LastOfMonth(m)) - weekday) % 7)

\* The dates the eleven holidays fall on, before any observance.
FederalReserveHolidays ==
    [y \in VerifiedFrom .. VerifiedThrough |->
        LET month(n) == 12 * y + n - 1
            fixed(n, day) == FirstOfMonth(month(n)) + day - 1
        IN  {fixed(1, 1), fixed(6, 19), fixed(7, 4), fixed(11, 11), fixed(12, 25),
             NthWeekdayOfMonth(month(1), Monday, 3), NthWeekdayOfMonth(month(2), Monday, 3),
             LastWeekdayOfMonth(month(5), Monday), NthWeekdayOfMonth(month(9), Monday, 1),
             NthWeekdayOfMonth(month(10), Monday, 2), NthWeekdayOfMonth(month(11), Thursday, 4)}]

\* A holiday on a Sunday closes the Monday after it, one on a Saturday nothing
\* more.  Of a date in a year that is not covered the code refuses to speak.
IsBusinessDay(d) ==
    /\ DayOfWeek(d) < 5
    /\ d \notin FederalReserveHolidays[YearOf(d)]
    /\ DayOfWeek(d) = Monday =>
          ~(IsYearCovered(YearOf(d - 1)) /\ d - 1 \in FederalReserveHolidays[YearOf(d - 1)])

StepOf(policy) == IF policy = "previous-business-day" THEN -1 ELSE 1

\* How many days the policy moves a date that is not a business day.
Moves(d, policy) ==
    Min({n \in 1 .. MaxAdjustmentSteps :
            IsYearCovered(YearOf(d + StepOf(policy) * n)) => IsBusinessDay(d + StepOf(policy) * n)})

\* The adjustment asks about the date and the days it walks over, and throws
\* at the first in a year that is not covered.
CanAdjust(d, policy) ==
    /\ IsYearCovered(YearOf(d))
    /\ ~IsBusinessDay(d) /\ policy # "keep-original-date" =>
          IsYearCovered(YearOf(d + StepOf(policy) * Moves(d, policy)))

AdjustToBusinessDay(d, policy) ==
    IF IsBusinessDay(d) \/ policy = "keep-original-date" THEN d
    ELSE d + StepOf(policy) * Moves(d, policy)

-----------------------------------------------------------------------------
(* Definitions (definition.ts) and what is accepted of them (validate.ts)   *)

\* A monthly anchor is a numbered day or the last day of the month.
IsMonthlyAnchor(a) == a.last \/ a.day \in 1 .. 31
SameMonthlyAnchor(a, b) == IF a.last \/ b.last THEN a.last = b.last ELSE a.day = b.day

IsRecurrenceOrigin(d, weekday) == d \in Int /\ weekday \in Weekdays /\ DayOfWeek(d) = weekday

IsPaycheckPattern(p) ==
    \/ p.kind = "weekly" /\ p.weekday \in Weekdays
    \/ p.kind = "twice-per-week" /\ p.weekdays \in Weekdays \X Weekdays /\ p.weekdays[1] # p.weekdays[2]
    \/ p.kind = "every-two-weeks" /\ IsRecurrenceOrigin(p.recurrenceOrigin, p.weekday)
    \/ /\ p.kind = "custom-weekly-interval"
       /\ IsRecurrenceOrigin(p.recurrenceOrigin, p.weekday) /\ p.everyWeeks \in 1 .. 4
    \/ p.kind = "monthly" /\ IsMonthlyAnchor(p.anchor)
    \/ /\ p.kind = "twice-per-month"
       /\ \A i \in 1 .. 2 : IsMonthlyAnchor(p.anchors[i])
       /\ ~SameMonthlyAnchor(p.anchors[1], p.anchors[2])

IsValidDefinition(s) ==
    \/ s.cadence = "weekly" /\ s.anchor \in Weekdays
    \/ s.cadence = "monthly" /\ IsMonthlyAnchor(s.anchor)
    \/ s.cadence = "custom-fixed-length" /\ s.startBoundary \in Int /\ s.lengthInDays \in 1 .. 366
    \/ /\ s.cadence = "paycheck"
       /\ IsPaycheckPattern(s.pattern)
       /\ s.businessDayPolicy \in {"previous-business-day", "next-business-day", "keep-original-date"}

-----------------------------------------------------------------------------
(* Weekly, monthly and fixed-length boundaries (period.ts, custom-period.ts) *)

\* A numbered anchor is clamped to the last day of a shorter month.
MonthlyBoundaryWithin(m, anchor) ==
    FirstOfMonth(m) - 1 + (IF anchor.last THEN DaysInMonth(m) ELSE Min({anchor.day, DaysInMonth(m)}))

BoundaryAtOrBefore(s, d) ==
    CASE s.cadence = "weekly" -> d - ((DayOfWeek(d) - s.anchor) % 7)
      [] s.cadence = "monthly" ->
            LET thisMonth == MonthlyBoundaryWithin(MonthOf(d), s.anchor)
            IN  IF thisMonth <= d THEN thisMonth ELSE MonthlyBoundaryWithin(MonthOf(d) - 1, s.anchor)
      [] s.cadence = "custom-fixed-length" ->
            s.startBoundary + ((d - s.startBoundary) \div s.lengthInDays) * s.lengthInDays

NextBoundaryAfter(s, d) ==
    CASE s.cadence = "weekly" -> BoundaryAtOrBefore(s, d) + 7
      [] s.cadence = "monthly" ->
            LET thisMonth == MonthlyBoundaryWithin(MonthOf(d), s.anchor)
            IN  IF thisMonth > d THEN thisMonth ELSE MonthlyBoundaryWithin(MonthOf(d) + 1, s.anchor)
      [] s.cadence = "custom-fixed-length" -> BoundaryAtOrBefore(s, d) + s.lengthInDays

-----------------------------------------------------------------------------
(* Paycheck boundaries over a horizon (paycheck-period.ts)                  *)

\* The dates from one on, a stride apart, that do not pass another.
Strides(first, stride, through) ==
    {first + stride * n : n \in 0 .. (through - first) \div stride}

FirstWeekdayOnOrAfter(d, weekday) == d + ((weekday - DayOfWeek(d)) % 7)

\* Faulty: the interval is walked from the first such weekday of the horizon.
FirstOnOrAfterInHorizon(origin, stride, from) == FirstWeekdayOnOrAfter(from, DayOfWeek(origin))

\* An interval is walked in whole strides from its origin, never from the
\* horizon: the first at or after the horizon's start.
FirstOnOrAfter(origin, stride, from) ==
    LET whole == origin + ((from - origin) \div stride) * stride
    IN  IF whole < from THEN whole + stride ELSE whole

UnadjustedAnchors(p, from, through) ==
    LET weekly(weekday) == Strides(FirstWeekdayOnOrAfter(from, weekday), 7, through)
        interval(stride) == Strides(FirstOnOrAfter(p.recurrenceOrigin, stride, from), stride, through)
        monthly(anchor) ==
            {MonthlyBoundaryWithin(m, anchor) : m \in MonthOf(from) .. MonthOf(through)} \cap (from .. through)
    IN  CASE p.kind = "weekly" -> weekly(p.weekday)
          [] p.kind = "twice-per-week" -> weekly(p.weekdays[1]) \cup weekly(p.weekdays[2])
          [] p.kind = "every-two-weeks" -> interval(14)
          [] p.kind = "custom-weekly-interval" -> interval(7 * p.everyWeeks)
          [] p.kind = "monthly" -> monthly(p.anchor)
          [] p.kind = "twice-per-month" -> monthly(p.anchors[1]) \cup monthly(p.anchors[2])

\* The horizon as asked, widened by as far as an adjustment reaches.
HorizonAnchors(s, from, through) ==
    UnadjustedAnchors(s.pattern, from - MaxAdjustmentSteps, through + MaxAdjustmentSteps)

\* A horizon in a year that is not covered is refused, and so is one holding
\* an anchor that cannot be adjusted; an anchor outside it is left out.
CanBuild(s, from, through) ==
    /\ \A y \in YearOf(from) .. YearOf(through) : IsYearCovered(y)
    /\ \A a \in HorizonAnchors(s, from, through) \cap (from .. through) : CanAdjust(a, s.businessDayPolicy)

\* Membership is decided by the adjusted date; two paydays on one date make
\* one boundary.
BoundaryDates(s, from, through) ==
    {AdjustToBusinessDay(a, s.businessDayPolicy) :
        a \in {x \in HorizonAnchors(s, from, through) : CanAdjust(x, s.businessDayPolicy)}}
    \cap (from .. through)

-----------------------------------------------------------------------------
(* The preview: the period containing a date and the three that follow      *)
(* (period.ts setupPreview; creation-proposals/preview.ts)                  *)

PaycheckBackwardMarginDays == 60
PaycheckForwardMarginDays == 420

HorizonFrom(d) == d - PaycheckBackwardMarginDays
HorizonThrough(d) == d + PaycheckForwardMarginDays

CanPreview(s, d) == s.cadence = "paycheck" => CanBuild(s, HorizonFrom(d), HorizonThrough(d))

\* The boundaries that are built before the periods: none but of a paycheck
\* schedule, whose functions look them up (boundaryFunctionsFor).
Built(s, d) ==
    IF s.cadence = "paycheck" THEN BoundaryDates(s, HorizonFrom(d), HorizonThrough(d)) ELSE {}

LatestUpTo(s, built, d) ==
    IF s.cadence = "paycheck" THEN Max({b \in built : b <= d}) ELSE BoundaryAtOrBefore(s, d)
EarliestAfter(s, built, d) ==
    IF s.cadence = "paycheck" THEN Min({b \in built : b > d}) ELSE NextBoundaryAfter(s, d)

\* Its two assertions are left out: they hold of these boundaries.
PeriodContaining(s, built, d) ==
    [start |-> LatestUpTo(s, built, d), end |-> EarliestAfter(s, built, d) - 1]

PeriodAfter(s, built, period) == PeriodContaining(s, built, period.end + 1)

\* setupPreview of the schedule's boundaries.
SchedulePreview(s, d) ==
    LET built == Built(s, d)
        first == PeriodContaining(s, built, d)
        second == PeriodAfter(s, built, first)
        third == PeriodAfter(s, built, second)
    IN  <<first, second, third, PeriodAfter(s, built, third)>>

-----------------------------------------------------------------------------
(* What a schedule means, as a predicate on one date: the reference the     *)
(* preview is compared with.                                                *)

DayOfMonth(d) == d - FirstOfMonth(MonthOf(d)) + 1
FallsOn(anchor, d) ==
    IF anchor.last THEN MonthOf(d + 1) # MonthOf(d)
    ELSE DayOfMonth(d) = anchor.day \/ (DayOfMonth(d) < anchor.day /\ MonthOf(d + 1) # MonthOf(d))

IsPayday(p, d) ==
    CASE p.kind = "weekly" -> DayOfWeek(d) = p.weekday
      [] p.kind = "twice-per-week" -> DayOfWeek(d) \in {p.weekdays[1], p.weekdays[2]}
      [] p.kind = "every-two-weeks" -> (d - p.recurrenceOrigin) % 14 = 0
      [] p.kind = "custom-weekly-interval" -> (d - p.recurrenceOrigin) % (7 * p.everyWeeks) = 0
      [] p.kind = "monthly" -> FallsOn(p.anchor, d)
      [] p.kind = "twice-per-month" -> \E i \in 1 .. 2 : FallsOn(p.anchors[i], d)

\* The dates between two on which a period begins.
Beginnings(s, from, through) ==
    CASE s.cadence = "weekly" -> {d \in from .. through : DayOfWeek(d) = s.anchor}
      [] s.cadence = "monthly" -> {d \in from .. through : FallsOn(s.anchor, d)}
      [] s.cadence = "custom-fixed-length" ->
            {d \in from .. through : (d - s.startBoundary) % s.lengthInDays = 0}
      [] s.cadence = "paycheck" ->
            {AdjustToBusinessDay(a, s.businessDayPolicy) :
                a \in {x \in from - MaxAdjustmentSteps .. through + MaxAdjustmentSteps : IsPayday(s.pattern, x)}}
            \cap (from .. through)
=============================================================================
