---------------------------- MODULE MCBudgetPlan ----------------------------
(***************************************************************************)
(* Instances of BudgetPlan for TLC: schedules of every cadence and         *)
(* pattern, proposed around month ends, holidays and a leap day.           *)
(***************************************************************************)
EXTENDS BudgetPlan

CONSTANTS food, rent

LastDay == [last |-> TRUE, day |-> 1]
Numbered(n) == [last |-> FALSE, day |-> n]

Weekly(w) == [cadence |-> "weekly", anchor |-> w]
Monthly(a) == [cadence |-> "monthly", anchor |-> a]
Every(n, from) == [cadence |-> "custom-fixed-length", startBoundary |-> from, lengthInDays |-> n]
Paid(p, policy) == [cadence |-> "paycheck", pattern |-> p, businessDayPolicy |-> policy]

\* 2026-11-26, Thanksgiving; 2027-07-02, a Friday; 2028-02-27; 2026-12-30.
Thanksgiving == 20783
FridayBefore == 21001
BeforeLeapDay == 21241
NewYear == 20817

MCStartDays == {Thanksgiving, FridayBefore, BeforeLeapDay, NewYear}
MCOffsets == {1, 20, 45, 130}

EveryTwoWeeks(from) == [kind |-> "every-two-weeks", weekday |-> DayOfWeek(from), recurrenceOrigin |-> from]
EveryWeeks(n, from) ==
    [kind |-> "custom-weekly-interval", weekday |-> DayOfWeek(from), everyWeeks |-> n, recurrenceOrigin |-> from]
PaidOn(w) == [kind |-> "weekly", weekday |-> w]
PaidTwice(v, w) == [kind |-> "twice-per-week", weekdays |-> <<v, w>>]
PaidMonthly(a) == [kind |-> "monthly", anchor |-> a]
PaidTwiceMonthly(a, b) == [kind |-> "twice-per-month", anchors |-> <<a, b>>]

Planned == Weekly(2)

MCDefinitions ==
    {Planned, Weekly(6), Monthly(Numbered(1)), Monthly(Numbered(30)), Monthly(LastDay),
     Every(10, NewYear), Every(90, FridayBefore - 1000),
     Paid(PaidOn(4), "next-business-day"), Paid(PaidTwice(3, 4), "next-business-day"),
     Paid(EveryTwoWeeks(Thanksgiving), "previous-business-day"),
     Paid(EveryTwoWeeks(BeforeLeapDay + 3), "keep-original-date"),
     Paid(EveryWeeks(3, FridayBefore + 3), "next-business-day"),
     Paid(PaidMonthly(LastDay), "next-business-day"), Paid(PaidMonthly(Numbered(31)), "previous-business-day"),
     Paid(PaidTwiceMonthly(Numbered(1), LastDay), "previous-business-day"),
     Paid(PaidTwiceMonthly(Numbered(4), Numbered(5)), "next-business-day")}

\* The plan is written under one weekly schedule; the others show the calendar.
MCMaxCommits == [s \in MCDefinitions |-> IF s = Planned THEN 4 ELSE 0]

MCCategories == {food, rent}
=============================================================================
