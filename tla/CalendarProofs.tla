---------------------------- MODULE CalendarProofs ----------------------------
(***************************************************************************)
(* Theorems of BudgetCalendar, for every date and every schedule that is   *)
(* accepted.                                                               *)
(*                                                                         *)
(* The code computes periods by walking: months by a cursor, paydays from  *)
(* the start of a horizon, an adjustment day by day, and it looks the      *)
(* boundaries of a paycheck schedule up in what it walked.  The reference  *)
(* says of one date at a time whether a period begins on it.  What is      *)
(* proved is that they agree, so that nothing depends on where a walk      *)
(* began: the horizon, the date of the preview, or the stored row.         *)
(***************************************************************************)
EXTENDS BudgetCalendar, Sequences, WellFoundedInduction, TLAPS

-----------------------------------------------------------------------------
(***************************************************************************)
(* Years and months. The calendar of the Gregorian reform is a straight    *)
(* line, 146097 days in 400 years or 4800 months, that its dates never     *)
(* leave by a week: so the month guessed from the line is off by one at    *)
(* most.                                                                   *)
(***************************************************************************)

\* The first day of a year.
FirstOfYear(y) == 365 * (y - 1970) + LeapYearsThrough(y - 1) - LeapYearsThrough(1969)
\* The day a leap year has more.
LeapDay(y) == IF IsLeapYear(y) THEN 1 ELSE 0

\* The leap years are counted one by one, and never stray from 97 in 400
\* years by more than seven quarters of a day.
LEMMA LeapYears ==
  ASSUME NEW y \in Int
  PROVE  /\ LeapYearsThrough(y) = LeapYearsThrough(y - 1) + LeapDay(y)
         /\ LeapYearsThrough(y) \in Int
         /\ 400 * LeapYearsThrough(y) <= 97 * y + 400
         /\ 400 * LeapYearsThrough(y) >= 97 * y - 700
         /\ LeapDay(y) \in {0, 1}
  BY DEF LeapYearsThrough, LeapDay, IsLeapYear

\* A year lasts 365 days, or 366, and new years never stray from 146097 days
\* in 400 years by four days.
LEMMA YearLength == 
  ASSUME NEW y \in Int
  PROVE  /\ FirstOfYear(y) \in Int /\ FirstOfYear(y + 1) = FirstOfYear(y) + 365 + LeapDay(y)
         /\ 400 * FirstOfYear(y) >= 146097 * (y - 1970) - 1500
         /\ 400 * FirstOfYear(y) <= 146097 * (y - 1970) + 1500
  <1>1. y - 1 \in Int /\ (y + 1) - 1 = y
    OBVIOUS
  <1>2. LeapYearsThrough(1969) = 477
    BY DEF LeapYearsThrough
  <1>3. FirstOfYear(y) = 365 * (y - 1970) + LeapYearsThrough(y - 1) - 477
    BY <1>2, SMT DEF FirstOfYear
  <1>4. FirstOfYear(y + 1) = 365 * (y + 1 - 1970) + LeapYearsThrough(y) - 477
    BY <1>1, <1>2, SMT DEF FirstOfYear
  <1>5. /\ LeapYearsThrough(y - 1) \in Int
        /\ 400 * LeapYearsThrough(y - 1) <= 97 * (y - 1) + 400
        /\ 400 * LeapYearsThrough(y - 1) >= 97 * (y - 1) - 700
    BY <1>1, LeapYears, SMT
  <1>6. LeapYearsThrough(y) = LeapYearsThrough(y - 1) + LeapDay(y) /\ LeapDay(y) \in {0, 1}
    BY LeapYears
  <1> QED BY <1>3, <1>4, <1>5, <1>6, SMT

\* The first of a month, counted from its new year.
LEMMA MonthInYear ==
  ASSUME NEW m \in Int
  PROVE  /\ FirstOfMonth(m) = FirstOfYear(m \div 12) + DaysBefore[(m % 12) + 1]
                                 + (IF m % 12 > 1 THEN LeapDay(m \div 12) ELSE 0)
         /\ m = 12 * (m \div 12) + (m % 12) /\ m \div 12 \in Int /\ m % 12 \in 0 .. 11
  BY DEF FirstOfMonth, FirstOfYear, LeapDay

\* The days of a common year before each month.
LEMMA DaysBeforeMonth ==
   /\ DaysBefore[1] = 0 /\ DaysBefore[2] = 31 /\ DaysBefore[3] = 59 /\ DaysBefore[4] = 90
   /\ DaysBefore[5] = 120 /\ DaysBefore[6] = 151 /\ DaysBefore[7] = 181 /\ DaysBefore[8] = 212
   /\ DaysBefore[9] = 243 /\ DaysBefore[10] = 273 /\ DaysBefore[11] = 304 /\ DaysBefore[12] = 334
  BY DEF DaysBefore

\* The days of a month, by its place in the year.
LEMMA DaysOfMonth ==
  ASSUME NEW m \in Int
  PROVE  DaysInMonth(m) = IF m % 12 = 1 THEN 28 + LeapDay(m \div 12)
                          ELSE IF m % 12 \in {3, 5, 8, 10} THEN 30 ELSE 31
  <1> DEFINE y == m \div 12
             k == m % 12
  <1>2. CASE k = 1
    <2>1. k \notin {3, 5, 8, 10}
      BY <1>2
    <2>2. DaysInMonth(m) = IF IsLeapYear(y) THEN 29 ELSE 28
      BY <1>2, <2>1, Zenon DEF DaysInMonth
    <2> QED BY <1>2, <2>2 DEF LeapDay
  <1>3. CASE k # 1 /\ k \in {3, 5, 8, 10}
    BY <1>3, Zenon DEF DaysInMonth
  <1>4. CASE k # 1 /\ k \notin {3, 5, 8, 10}
    BY <1>4, Zenon DEF DaysInMonth
  <1> QED BY <1>2, <1>3, <1>4

\* A month lasts 28 to 31 days and ends where the next begins: the first of
\* month and the days in month of the code are one calendar (iso-date.ts).
LEMMA MonthLength ==
  ASSUME NEW m \in Int
  PROVE  /\ FirstOfMonth(m) \in Int /\ DaysInMonth(m) \in 28 .. 31
         /\ FirstOfMonth(m + 1) = FirstOfMonth(m) + DaysInMonth(m)
  <1> DEFINE y == m \div 12
             k == m % 12
  <1>1. /\ FirstOfMonth(m) = FirstOfYear(y) + DaysBefore[k + 1] + (IF k > 1 THEN LeapDay(y) ELSE 0)
        /\ m = 12 * y + k /\ y \in Int /\ k \in 0 .. 11
    BY MonthInYear, SMT
  <1>2. DaysInMonth(m) = IF k = 1 THEN 28 + LeapDay(y) ELSE IF k \in {3, 5, 8, 10} THEN 30 ELSE 31
    BY DaysOfMonth, SMT
  <1>4. FirstOfYear(y) \in Int /\ FirstOfYear(y + 1) = FirstOfYear(y) + 365 + LeapDay(y) /\ LeapDay(y) \in {0, 1}
    BY <1>1, YearLength, LeapYears, SMT
  <1> DEFINE n == m + 1
  <1>3. /\ n \in Int
        /\ FirstOfMonth(n) = FirstOfYear(n \div 12) + DaysBefore[(n % 12) + 1]
                                + (IF n % 12 > 1 THEN LeapDay(n \div 12) ELSE 0)
    <2>1. n \in Int
      OBVIOUS
    <2> HIDE DEF n
    <2> QED BY <2>1, MonthInYear
  <1>5. CASE k = 11
    <2>1. n \div 12 = y + 1 /\ n % 12 = 0
      BY <1>1, <1>5, SMT
    <2> HIDE DEF n
    <2>2. FirstOfMonth(n) = FirstOfYear(y + 1) + DaysBefore[0 + 1] + (IF 0 > 1 THEN LeapDay(y + 1) ELSE 0)
      BY <1>3, <2>1, Zenon
    <2> HIDE DEF y, k
    <2>3. FirstOfMonth(n) = FirstOfMonth(m) + DaysInMonth(m)
      BY <1>1, <1>2, <1>4, <1>5, <2>2, DaysBeforeMonth, SMT
    <2> QED BY <1>1, <1>2, <1>4, <1>5, <2>3, DaysBeforeMonth, SMT DEF n
  <1>6. CASE k # 11
    <2>1. n \div 12 = y /\ n % 12 = k + 1
      BY <1>1, <1>6, SMT
    <2>2. k \in {0, 1, 2, 3, 4, 5, 6, 7, 8, 9, 10}
      BY <1>1, <1>6, SMT
    <2> HIDE DEF y, k, n
    <2>3. FirstOfMonth(n) = FirstOfYear(y) + DaysBefore[(k + 1) + 1] + (IF k + 1 > 1 THEN LeapDay(y) ELSE 0)
      BY <1>3, <2>1, Zenon
    <2>4. FirstOfMonth(n) = FirstOfMonth(m) + DaysInMonth(m)
      BY <1>1, <1>2, <1>4, <2>2, <2>3, DaysBeforeMonth, SMT
    <2> QED BY <1>1, <1>2, <1>4, <2>2, <2>4, DaysBeforeMonth, SMT DEF n
  <1> QED BY <1>5, <1>6

\* The first of a month is less than a week off 4800 months in 146097 days.
LEMMA MonthLine ==
  ASSUME NEW m \in Int
  PROVE  /\ FirstOfMonth(m) \in Int
         /\ 4800 * FirstOfMonth(m) >= 146097 * (m - 23640) - 30000
         /\ 4800 * FirstOfMonth(m) <= 146097 * (m - 23640) + 30000
  <1> DEFINE y == m \div 12
             k == m % 12
  <1>1. /\ FirstOfMonth(m) = FirstOfYear(y) + DaysBefore[k + 1] + (IF k > 1 THEN LeapDay(y) ELSE 0)
        /\ m = 12 * y + k /\ y \in Int /\ k \in 0 .. 11
    BY MonthInYear, SMT
  <1>4. LeapDay(y) \in {0, 1} /\ FirstOfYear(y) \in Int
         /\ 400 * FirstOfYear(y) >= 146097 * (y - 1970) - 1500
         /\ 400 * FirstOfYear(y) <= 146097 * (y - 1970) + 1500
    BY <1>1, YearLength, LeapYears, SMT
  <1> HIDE DEF y, k
  <1>5. /\ DaysBefore[k + 1] \in Int
        /\ 4800 * DaysBefore[k + 1] >= 146097 * k - 9000
        /\ 4800 * DaysBefore[k + 1] <= 146097 * k + 2703
    BY <1>1, DaysBeforeMonth, SMT
  <1> QED BY <1>1, <1>4, <1>5, SMT

\* Months follow one another and never overlap.
LEMMA MonthsOrdered ==
  ASSUME NEW m \in Int, NEW n \in Int, m < n
  PROVE  FirstOfMonth(m + 1) <= FirstOfMonth(n)
  <1>1. CASE n = m + 1
    BY <1>1, MonthLength, SMT
  <1>2. CASE n > m + 1
    <2>1. m + 1 \in Int
      OBVIOUS
    <2> QED BY <1>2, <2>1, MonthLine, SMT
  <1> QED BY <1>1, <1>2

\* The month of a date contains it, for every date there is: no choice of the
\* model is left open.
THEOREM MonthOfDate ==
  ASSUME NEW d \in Int
  PROVE  /\ MonthOf(d) \in Int
         /\ FirstOfMonth(MonthOf(d)) <= d /\ d < FirstOfMonth(MonthOf(d) + 1)
  <1> DEFINE about == 1970 * 12 + (4800 * d) \div 146097
  <1>1. about \in Int /\ about - 1 \in Int /\ about + 1 \in Int /\ about + 2 \in Int
    BY SMT
  <1>2. 146097 * (about - 23640) <= 4800 * d /\ 4800 * d < 146097 * (about - 23640) + 146097
    BY SMT
  <1>3. MonthOf(d) = CHOOSE m \in about - 1 .. about + 1 : FirstOfMonth(m) <= d /\ d < FirstOfMonth(m + 1)
    BY SMT DEF MonthOf
  <1> HIDE DEF about
  <1>4. FirstOfMonth(about - 1) <= d /\ d < FirstOfMonth(about + 2)
    BY <1>1, <1>2, MonthLine, SMT
  <1>5. \E m \in about - 1 .. about + 1 : FirstOfMonth(m) <= d /\ d < FirstOfMonth(m + 1)
    <2>1. /\ FirstOfMonth(about) \in Int /\ FirstOfMonth(about + 1) \in Int
          /\ (about - 1) + 1 = about /\ (about + 1) + 1 = about + 2
          /\ {about - 1, about, about + 1} \subseteq about - 1 .. about + 1
      BY <1>1, MonthLine, SMT
    <2>2. CASE d < FirstOfMonth(about)
      BY <1>4, <2>1, <2>2
    <2>3. CASE FirstOfMonth(about) <= d /\ d < FirstOfMonth(about + 1)
      BY <2>1, <2>3
    <2>4. CASE FirstOfMonth(about + 1) <= d
      BY <1>4, <2>1, <2>4
    <2> QED BY <2>1, <2>2, <2>3, <2>4
  <1> QED BY <1>1, <1>3, <1>5

\* A date lies in one month.
THEOREM MonthUnique ==
  ASSUME NEW d \in Int, NEW m \in Int, FirstOfMonth(m) <= d, d < FirstOfMonth(m + 1)
  PROVE  m = MonthOf(d)
  <1> DEFINE c == MonthOf(d)
  <1>1. /\ c \in Int /\ FirstOfMonth(c) <= d /\ d < FirstOfMonth(c + 1)
    BY MonthOfDate
  <1> HIDE DEF c
  <1>2. c + 1 \in Int /\ m + 1 \in Int
    BY <1>1
  <1>3. FirstOfMonth(c) \in Int /\ FirstOfMonth(m) \in Int /\ FirstOfMonth(m + 1) \in Int /\ FirstOfMonth(c + 1) \in Int
    BY <1>1, <1>2, MonthLength
  <1>4. ~ (m < c)
    BY <1>1, <1>3, MonthsOrdered
  <1>5. ~ (c < m)
    BY <1>1, <1>3, MonthsOrdered
  <1>6. m = c
    BY <1>1, <1>4, <1>5
  <1> QED BY <1>6 DEF c

-----------------------------------------------------------------------------
(***************************************************************************)
(* Earliest and latest dates.                                              *)
(***************************************************************************)

\* The order of the naturals, as a relation.
Less == {ss \in Nat \X Nat : ss[1] < ss[2]}

\* It is well-founded.
LEMMA LessWellFounded == IsWellFoundedOn(Less, Nat)
  BY NatLessThanWellFounded, Zenon DEF OpToRel, Less

\* Naturals have a least.
LEMMA LeastOfNaturals ==
  ASSUME NEW S \in SUBSET Nat, S # {}
  PROVE  \E n \in S : \A k \in S : n <= k
  <1>1. PICK n \in S : \A k \in S : ~ (<<k, n>> \in Less)
    BY LessWellFounded, WFMin, Zenon
  <1>2. ASSUME NEW k \in S PROVE n <= k
    <2>1. <<k, n>> \in Nat \X Nat
      OBVIOUS
    <2>2. ~(<<k, n>> \in Less)
      BY <1>1
    <2> QED BY <2>1, <2>2 DEF Less
  <1> QED BY <1>2

\* The earliest of dates that do not reach back without end.
LEMMA LeastOfDates ==
  ASSUME NEW S \in SUBSET Int, S # {}, NEW low \in Int, \A x \in S : low <= x
  PROVE  Min(S) \in S /\ \A x \in S : Min(S) <= x
  <1> DEFINE N == {x - low : x \in S}
  <1>1. N \in SUBSET Nat /\ N # {}
    <2>1. \A x \in S : x - low \in Nat
      OBVIOUS
    <2>2. N # {}
      BY Zenon
    <2>3. N \in SUBSET Nat
      BY <2>1, Zenon
    <2> QED BY <2>2, <2>3
  <1>2. PICK n \in N : \A k \in N : n <= k
    BY <1>1, LeastOfNaturals
  <1>3. PICK least \in S : n = least - low
    BY <1>2
  <1>4. ASSUME NEW x \in S PROVE least <= x
    <2>1. n <= x - low
      BY <1>2, Zenon
    <2>2. x \in Int /\ least \in Int
      OBVIOUS
    <2> HIDE DEF N
    <2> QED BY <1>3, <2>1, <2>2
  <1>5. \E x \in S : \A y \in S : x <= y
    BY <1>4
  <1> QED BY <1>5 DEF Min

\* The latest of dates that do not go on without end.
LEMMA GreatestOfDates ==
  ASSUME NEW S \in SUBSET Int, S # {}, NEW high \in Int, \A x \in S : x <= high
  PROVE  Max(S) \in S /\ \A x \in S : x <= Max(S)
  <1> DEFINE N == {high - x : x \in S}
  <1>1. N \in SUBSET Nat /\ N # {}
    <2>1. \A x \in S : high - x \in Nat
      OBVIOUS
    <2>2. N # {}
      BY Zenon
    <2>3. N \in SUBSET Nat
      BY <2>1, Zenon
    <2> QED BY <2>2, <2>3
  <1>2. PICK n \in N : \A k \in N : n <= k
    BY <1>1, LeastOfNaturals
  <1>3. PICK greatest \in S : n = high - greatest
    BY <1>2
  <1>4. ASSUME NEW x \in S PROVE greatest >= x
    <2>1. n <= high - x
      BY <1>2, Zenon
    <2>2. x \in Int /\ greatest \in Int
      OBVIOUS
    <2> HIDE DEF N
    <2> QED BY <1>3, <2>1, <2>2
  <1>5. \E x \in S : \A y \in S : x >= y
    BY <1>4
  <1> QED BY <1>5 DEF Max

\* The lesser of two numbers.
LEMMA LesserOfTwo ==
  ASSUME NEW a \in Int, NEW b \in Int
  PROVE  Min({a, b}) = IF a <= b THEN a ELSE b
  BY DEF Min

-----------------------------------------------------------------------------
(***************************************************************************)
(* Monthly anchors.                                                        *)
(***************************************************************************)

\* The clamped anchor of a month lies in that month (monthly-anchor.ts).
LEMMA AnchorInMonth ==
  ASSUME NEW m \in Int, NEW a, IsMonthlyAnchor(a)
  PROVE  /\ MonthlyBoundaryWithin(m, a) \in Int
         /\ FirstOfMonth(m) <= MonthlyBoundaryWithin(m, a)
         /\ MonthlyBoundaryWithin(m, a) < FirstOfMonth(m + 1)
         /\ a.last => MonthlyBoundaryWithin(m, a) + 1 = FirstOfMonth(m + 1)
         /\ ~a.last => MonthlyBoundaryWithin(m, a) =
              FirstOfMonth(m) - 1 + (IF a.day <= DaysInMonth(m) THEN a.day ELSE DaysInMonth(m))
  <1>1. /\ FirstOfMonth(m) \in Int /\ DaysInMonth(m) \in 28 .. 31
        /\ FirstOfMonth(m + 1) = FirstOfMonth(m) + DaysInMonth(m)
    BY MonthLength
  <1>2. CASE a.last
    <2>1. MonthlyBoundaryWithin(m, a) = FirstOfMonth(m) - 1 + DaysInMonth(m)
      BY <1>2, Zenon DEF MonthlyBoundaryWithin
    <2> QED BY <1>1, <1>2, <2>1
  <1>3. CASE ~a.last
    <2>1. MonthlyBoundaryWithin(m, a) = FirstOfMonth(m) - 1 + Min({a.day, DaysInMonth(m)})
      BY <1>3, Zenon DEF MonthlyBoundaryWithin
    <2>2. a.day \in 1 .. 31
      BY <1>3, Zenon DEF IsMonthlyAnchor
    <2>3. Min({a.day, DaysInMonth(m)}) = IF a.day <= DaysInMonth(m) THEN a.day ELSE DaysInMonth(m)
      BY <1>1, <2>2, LesserOfTwo
    <2> QED BY <1>1, <1>3, <2>1, <2>2, <2>3
  <1> QED BY <1>2, <1>3

\* The anchors of two months in a row are at most 31 days apart.
LEMMA AnchorsApart ==
  ASSUME NEW m \in Int, NEW a, IsMonthlyAnchor(a)
  PROVE  /\ MonthlyBoundaryWithin(m, a) < MonthlyBoundaryWithin(m + 1, a)
         /\ MonthlyBoundaryWithin(m + 1, a) <= MonthlyBoundaryWithin(m, a) + 31
  <1>1. m + 1 \in Int
    OBVIOUS
  <1>2. /\ FirstOfMonth(m) \in Int /\ DaysInMonth(m) \in 28 .. 31
        /\ FirstOfMonth(m + 1) = FirstOfMonth(m) + DaysInMonth(m)
    BY MonthLength
  <1>3. /\ FirstOfMonth(m + 1) \in Int /\ DaysInMonth(m + 1) \in 28 .. 31
        /\ FirstOfMonth((m + 1) + 1) = FirstOfMonth(m + 1) + DaysInMonth(m + 1)
    BY <1>1, MonthLength
  <1>4. CASE a.last
    BY <1>1, <1>2, <1>3, <1>4, AnchorInMonth
  <1>5. CASE ~a.last
    <2>1. a.day \in 1 .. 31
      BY <1>5, Zenon DEF IsMonthlyAnchor
    <2> QED BY <1>1, <1>2, <1>3, <1>5, <2>1, AnchorInMonth
  <1> QED BY <1>4, <1>5

\* The month of a month's anchor is that month.
LEMMA AnchorMonth ==
  ASSUME NEW m \in Int, NEW a, IsMonthlyAnchor(a)
  PROVE  MonthOf(MonthlyBoundaryWithin(m, a)) = m
  BY AnchorInMonth, MonthUnique

\* A later date is of no earlier month.
LEMMA DatesOrdered ==
  ASSUME NEW c \in Int, NEW d \in Int, c <= d
  PROVE  MonthOf(c) <= MonthOf(d)
  <1>1. /\ MonthOf(c) \in Int /\ FirstOfMonth(MonthOf(c)) <= c
        /\ MonthOf(d) \in Int /\ d < FirstOfMonth(MonthOf(d) + 1)
    BY MonthOfDate
  <1>2. FirstOfMonth(MonthOf(c)) \in Int /\ FirstOfMonth(MonthOf(d) + 1) \in Int
    BY <1>1, MonthLength
  <1>3. ~(MonthOf(d) < MonthOf(c))
    BY <1>1, <1>2, MonthsOrdered
  <1> QED BY <1>1, <1>3

\* The last day of a month is the one before the first of the next.
LEMMA LastDayOfMonth ==
  ASSUME NEW d \in Int
  PROVE  MonthOf(d + 1) # MonthOf(d) <=> d + 1 = FirstOfMonth(MonthOf(d) + 1)
  <1> DEFINE m == MonthOf(d)
  <1>1. /\ m \in Int /\ m + 1 \in Int /\ d + 1 \in Int
        /\ FirstOfMonth(m) <= d /\ d < FirstOfMonth(m + 1)
    BY MonthOfDate
  <1>2. /\ FirstOfMonth(m) \in Int /\ FirstOfMonth(m + 1) \in Int
        /\ FirstOfMonth(m + 1) <= FirstOfMonth((m + 1) + 1) - 28 /\ FirstOfMonth((m + 1) + 1) \in Int
    BY <1>1, MonthLength
  <1> HIDE DEF m
  <1>3. CASE d + 1 = FirstOfMonth(m + 1)
    <2>1. m + 1 = MonthOf(d + 1)
      BY <1>1, <1>2, <1>3, MonthUnique
    <2> QED BY <1>1, <1>3, <2>1 DEF m
  <1>4. CASE d + 1 # FirstOfMonth(m + 1)
    <2>1. FirstOfMonth(m) <= d + 1 /\ d + 1 < FirstOfMonth(m + 1)
      BY <1>1, <1>2, <1>4
    <2>2. m = MonthOf(d + 1)
      BY <1>1, <2>1, MonthUnique
    <2> QED BY <1>1, <1>4, <2>2 DEF m
  <1> QED BY <1>3, <1>4

\* A date falls on an anchor when it is the clamped anchor of its month.
LEMMA FallsOnAnchor ==
  ASSUME NEW d \in Int, NEW a, IsMonthlyAnchor(a)
  PROVE  FallsOn(a, d) <=> MonthlyBoundaryWithin(MonthOf(d), a) = d
  <1> DEFINE m == MonthOf(d)
             b == MonthlyBoundaryWithin(m, a)
  <1>1. /\ m \in Int /\ FirstOfMonth(m) <= d /\ d < FirstOfMonth(m + 1)
    BY MonthOfDate
  <1>2. /\ FirstOfMonth(m) \in Int /\ DaysInMonth(m) \in 28 .. 31
        /\ FirstOfMonth(m + 1) = FirstOfMonth(m) + DaysInMonth(m)
    BY <1>1, MonthLength
  <1>3. /\ b \in Int
        /\ a.last => b + 1 = FirstOfMonth(m + 1)
        /\ ~a.last => b = FirstOfMonth(m) - 1 + (IF a.day <= DaysInMonth(m) THEN a.day ELSE DaysInMonth(m))
    BY <1>1, AnchorInMonth
  <1>4. MonthOf(d + 1) # m <=> d + 1 = FirstOfMonth(m + 1)
    BY LastDayOfMonth
  <1>5. CASE a.last
    <2>1. FallsOn(a, d) <=> MonthOf(d + 1) # m
      BY <1>5, Zenon DEF FallsOn
    <2> HIDE DEF m, b
    <2>2. FallsOn(a, d) <=> b = d
      BY <1>1, <1>2, <1>3, <1>4, <1>5, <2>1
    <2> QED BY <2>2 DEF b, m
  <1>6. CASE ~a.last
    <2>1. FallsOn(a, d) <=> DayOfMonth(d) = a.day \/ (DayOfMonth(d) < a.day /\ MonthOf(d + 1) # m)
      BY <1>6, Zenon DEF FallsOn
    <2>2. a.day \in 1 .. 31
      BY <1>6, Zenon DEF IsMonthlyAnchor
    <2>3. DayOfMonth(d) = d - FirstOfMonth(m) + 1
      BY DEF DayOfMonth
    <2> HIDE DEF m, b
    <2>4. FallsOn(a, d) <=> b = d
      BY <1>1, <1>2, <1>3, <1>4, <1>6, <2>1, <2>2, <2>3
    <2> QED BY <2>4 DEF b, m
  <1> QED BY <1>5, <1>6

\* Any 31 days in a row contain a monthly anchor.
LEMMA AnchorWithinMonth ==
  ASSUME NEW d \in Int, NEW a, IsMonthlyAnchor(a)
  PROVE  \E x \in d .. d + 30 : FallsOn(a, x)
  <1> DEFINE m == MonthOf(d)
             At(k) == MonthlyBoundaryWithin(k, a)
  <1>1. m \in Int /\ m + 1 \in Int /\ m - 1 \in Int /\ (m - 1) + 1 = m
        /\ FirstOfMonth(m) <= d /\ d < FirstOfMonth(m + 1)
    BY MonthOfDate
  <1>2. /\ At(m) \in Int /\ At(m - 1) \in Int /\ At(m + 1) \in Int
        /\ At(m - 1) < FirstOfMonth(m) /\ FirstOfMonth(m + 1) <= At(m + 1)
        /\ At(m) <= At(m - 1) + 31 /\ At(m + 1) <= At(m) + 31
        /\ FirstOfMonth(m) \in Int /\ FirstOfMonth(m + 1) \in Int
    BY <1>1, AnchorInMonth, AnchorsApart, MonthLength
  <1>3. FallsOn(a, At(m)) /\ FallsOn(a, At(m + 1))
    BY <1>1, <1>2, AnchorMonth, FallsOnAnchor
  <1> HIDE DEF m, At
  <1>4. At(m) \in d .. d + 30 \/ At(m + 1) \in d .. d + 30
    BY <1>1, <1>2
  <1> QED BY <1>3, <1>4

-----------------------------------------------------------------------------
(***************************************************************************)
(* Weekly, monthly and fixed-length periods.                               *)
(***************************************************************************)

\* A weekly period begins on the anchor's weekday, and so does the next, and
\* no day between them is one (period.ts).
LEMMA WeeklyPeriod ==
  ASSUME NEW s, s.cadence = "weekly", s.anchor \in Weekdays, NEW d \in Int
  PROVE  LET b == BoundaryAtOrBefore(s, d)
             n == NextBoundaryAfter(s, d)
         IN  /\ b \in Int /\ n \in Int /\ b <= d /\ d < n
             /\ DayOfWeek(b) = s.anchor /\ DayOfWeek(n) = s.anchor
             /\ \A x \in b + 1 .. n - 1 : DayOfWeek(x) # s.anchor
  <1>1. BoundaryAtOrBefore(s, d) = d - ((DayOfWeek(d) - s.anchor) % 7)
    BY Zenon DEF BoundaryAtOrBefore
  <1>2. NextBoundaryAfter(s, d) = BoundaryAtOrBefore(s, d) + 7
    BY Zenon DEF NextBoundaryAfter
  <1> DEFINE w == s.anchor
             b == d - ((DayOfWeek(d) - w) % 7)
  <1>3. w \in Weekdays
    OBVIOUS
  <1> HIDE DEF w
  <1>4. b \in Int /\ b <= d /\ d < b + 7 /\ DayOfWeek(b) = w /\ DayOfWeek(b + 7) = w
    BY <1>3 DEF DayOfWeek, Weekdays
  <1> HIDE DEF b
  <1>5. ASSUME NEW x \in b + 1 .. b + 6 PROVE DayOfWeek(x) # w
    BY <1>3, <1>4 DEF DayOfWeek, Weekdays
  <1>6. BoundaryAtOrBefore(s, d) = b /\ NextBoundaryAfter(s, d) = b + 7
    BY <1>1, <1>2 DEF b, w
  <1>7. (b + 7) - 1 = b + 6 /\ b + 7 \in Int
    BY <1>4
  <1> QED BY <1>4, <1>5, <1>6, <1>7 DEF w

\* Division rounds down, as the code's floorDiv and floorMod do.
LEMMA Quotient ==
  ASSUME NEW l \in Nat \ {0}, NEW x \in Int
  PROVE  x = (x \div l) * l + (x % l) /\ x % l \in 0 .. l - 1
  OBVIOUS

\* The remainder of a whole number of lengths and a rest is the rest.
LEMMA Remainder ==
  ASSUME NEW l \in Nat \ {0}, NEW k \in Int, NEW e \in 0 .. l - 1
  PROVE  (k * l + e) % l = e
  <1> DEFINE x == k * l + e
             j == x \div l
             r == x % l
  <1>1. x \in Int /\ j \in Int /\ r \in 0 .. l - 1 /\ x = j * l + r
    OBVIOUS
  <1>2. (k - j) * l = r - e
    BY <1>1
  <1> HIDE DEF x, j, r
  <1>3. k - j < 1 /\ k - j > -1
    <2>1. CASE k - j >= 1
      <3>1. (k - j) * l >= l
        BY <1>1, <2>1
      <3> QED BY <1>1, <1>2, <3>1
    <2>2. CASE k - j <= -1
      <3>1. (k - j) * l <= -l
        BY <1>1, <2>2
      <3> QED BY <1>1, <1>2, <3>1
    <2> QED BY <1>1, <2>1, <2>2
  <1>4. k = j
    BY <1>1, <1>3
  <1>5. r = e
    BY <1>1, <1>2, <1>4
  <1> QED BY <1>5 DEF r, x

\* A period of fixed length begins a whole number of lengths from the start
\* boundary, before it or after it (custom-period.ts).
LEMMA FixedLengthPeriod ==
  ASSUME NEW s, s.cadence = "custom-fixed-length", s.startBoundary \in Int, s.lengthInDays \in 1 .. 366,
         NEW d \in Int
  PROVE  LET b == BoundaryAtOrBefore(s, d)
             n == NextBoundaryAfter(s, d)
         IN  /\ b \in Int /\ n \in Int /\ b <= d /\ d < n
             /\ (b - s.startBoundary) % s.lengthInDays = 0 /\ (n - s.startBoundary) % s.lengthInDays = 0
             /\ \A x \in b + 1 .. n - 1 : (x - s.startBoundary) % s.lengthInDays # 0
  <1> DEFINE o == s.startBoundary
             l == s.lengthInDays
             q == (d - o) \div l
  <1>1. BoundaryAtOrBefore(s, d) = o + q * l
    BY Zenon DEF BoundaryAtOrBefore
  <1>2. NextBoundaryAfter(s, d) = BoundaryAtOrBefore(s, d) + l
    BY Zenon DEF NextBoundaryAfter
  <1>3. o \in Int /\ l \in 1 .. 366 /\ q \in Int
    OBVIOUS
  <1> DEFINE p == q * l
  <1>4. p <= d - o /\ d - o < p + l /\ p \in Int
    <2>1. d - o = q * l + ((d - o) % l) /\ (d - o) % l \in 0 .. l - 1
      <3>1. d - o \in Int /\ l \in Nat \ {0}
        BY <1>3
      <3> QED BY <3>1, Quotient
    <2> DEFINE e == (d - o) % l
    <2>2. p \in Int /\ d - o = p + e /\ e \in 0 .. l - 1
      BY <1>3, <2>1
    <2>3. d - o \in Int
      BY <1>3
    <2> HIDE DEF p, o, l, q, e
    <2> QED BY <1>3, <2>2, <2>3
  <1>5. ASSUME NEW e \in 0 .. l - 1 PROVE (p + e) % l = e
    BY <1>3, Remainder
  <1>6. (p + l) % l = 0
    <2>1. q + 1 \in Int /\ l \in Nat \ {0} /\ 0 \in 0 .. l - 1
      BY <1>3
    <2>2. ((q + 1) * l + 0) % l = 0
      BY <2>1, Remainder
    <2>3. p + l = (q + 1) * l + 0
      BY <1>3
    <2> QED BY <2>2, <2>3
  <1> HIDE DEF p, o, l
  <1> DEFINE b == o + p
  <1>7. b \in Int /\ b + l \in Int /\ b <= d /\ d < b + l
    BY <1>3, <1>4
  <1>8. (b - o) % l = 0 /\ ((b + l) - o) % l = 0
    <2>1. b - o = p + 0 /\ (b + l) - o = p + l /\ 0 \in 0 .. l - 1
      BY <1>3, <1>4
    <2> QED BY <1>5, <1>6, <2>1
  <1>9. ASSUME NEW x \in b + 1 .. (b + l) - 1 PROVE (x - o) % l # 0
    <2>1. x - o = p + (x - b) /\ x - b \in 1 .. l - 1 /\ x - b \in 0 .. l - 1
      BY <1>3, <1>4, <1>7
    <2>2. (p + (x - b)) % l = x - b
      BY <1>5, <2>1
    <2> QED BY <2>1, <2>2
  <1>10. BoundaryAtOrBefore(s, d) = b /\ NextBoundaryAfter(s, d) = b + l
    BY <1>1, <1>2 DEF p
  <1> HIDE DEF b
  <1> QED BY <1>7, <1>8, <1>9, <1>10 DEF o, l

\* A monthly period begins on an anchor and ends before the next, clamped in
\* whatever months the two fall (period.ts).
LEMMA MonthlyPeriod ==
  ASSUME NEW s, s.cadence = "monthly", IsMonthlyAnchor(s.anchor), NEW d \in Int
  PROVE  LET b == BoundaryAtOrBefore(s, d)
             n == NextBoundaryAfter(s, d)
         IN  /\ b \in Int /\ n \in Int /\ b <= d /\ d < n
             /\ FallsOn(s.anchor, b) /\ FallsOn(s.anchor, n)
             /\ \A x \in b + 1 .. n - 1 : ~FallsOn(s.anchor, x)
  <1> DEFINE m == MonthOf(d)
             At(k) == MonthlyBoundaryWithin(k, s.anchor)
  <1>1. BoundaryAtOrBefore(s, d) = IF At(m) <= d THEN At(m) ELSE At(m - 1)
    BY Zenon DEF BoundaryAtOrBefore
  <1>2. NextBoundaryAfter(s, d) = IF At(m) > d THEN At(m) ELSE At(m + 1)
    BY Zenon DEF NextBoundaryAfter
  <1>3. /\ m \in Int /\ m + 1 \in Int /\ m - 1 \in Int /\ (m - 1) + 1 = m
        /\ FirstOfMonth(m) <= d /\ d < FirstOfMonth(m + 1)
    BY MonthOfDate
  <1>4. /\ At(m) \in Int /\ At(m - 1) \in Int /\ At(m + 1) \in Int
        /\ At(m - 1) < FirstOfMonth(m) /\ FirstOfMonth(m + 1) <= At(m + 1)
        /\ FirstOfMonth(m) <= At(m) /\ At(m) < FirstOfMonth(m + 1)
        /\ FirstOfMonth(m - 1) <= At(m - 1) /\ At(m + 1) < FirstOfMonth((m + 1) + 1)
        /\ FirstOfMonth(m) \in Int /\ FirstOfMonth(m + 1) \in Int
        /\ FirstOfMonth(m - 1) \in Int /\ FirstOfMonth((m + 1) + 1) \in Int
    BY <1>3, AnchorInMonth, MonthLength
  <1>5. FallsOn(s.anchor, At(m)) /\ FallsOn(s.anchor, At(m + 1)) /\ FallsOn(s.anchor, At(m - 1))
    BY <1>3, <1>4, AnchorMonth, FallsOnAnchor
  <1>6. ASSUME NEW x \in Int, FallsOn(s.anchor, x), FirstOfMonth(m - 1) <= x, x < FirstOfMonth((m + 1) + 1)
        PROVE  x \in {At(m - 1), At(m), At(m + 1)}
    <2>1. x = At(MonthOf(x))
      BY <1>6, FallsOnAnchor
    <2>2. MonthOf(x) \in {m - 1, m, m + 1}
      <3>1. CASE x < FirstOfMonth(m)
        BY <1>3, <1>6, <3>1, MonthUnique
      <3>2. CASE FirstOfMonth(m) <= x /\ x < FirstOfMonth(m + 1)
        BY <1>3, <3>2, MonthUnique
      <3>3. CASE FirstOfMonth(m + 1) <= x
        BY <1>3, <1>6, <3>3, MonthUnique
      <3> QED BY <1>4, <3>1, <3>2, <3>3
    <2> QED BY <2>1, <2>2
  <1> HIDE DEF m, At
  <1>7. CASE At(m) <= d
    <2>1. BoundaryAtOrBefore(s, d) = At(m) /\ NextBoundaryAfter(s, d) = At(m + 1)
      BY <1>1, <1>2, <1>4, <1>7
    <2>2. ASSUME NEW x \in At(m) + 1 .. At(m + 1) - 1 PROVE ~FallsOn(s.anchor, x)
      BY <1>4, <1>6
    <2> QED BY <1>3, <1>4, <1>5, <1>7, <2>1, <2>2
  <1>8. CASE ~(At(m) <= d)
    <2>1. BoundaryAtOrBefore(s, d) = At(m - 1) /\ NextBoundaryAfter(s, d) = At(m)
      BY <1>1, <1>2, <1>4, <1>8
    <2>2. ASSUME NEW x \in At(m - 1) + 1 .. At(m) - 1 PROVE ~FallsOn(s.anchor, x)
      BY <1>4, <1>6
    <2> QED BY <1>3, <1>4, <1>5, <1>8, <2>1, <2>2
  <1> QED BY <1>7, <1>8

-----------------------------------------------------------------------------
(***************************************************************************)
(* Paydays: what is walked over a horizon, and what is meant.              *)
(***************************************************************************)

\* Strides are the dates a whole number of strides from the first.
LEMMA StridesOfWeeks ==
  ASSUME NEW first \in Int, NEW stride \in {7, 14, 21, 28}, NEW through \in Int
  PROVE  Strides(first, stride, through) = {x \in first .. through : (x - first) % stride = 0}
  <1>1. ASSUME NEW n \in 0 .. (through - first) \div stride
        PROVE  first + stride * n \in first .. through /\ (first + stride * n - first) % stride = 0
    BY <1>1
  <1>2. ASSUME NEW x \in first .. through, (x - first) % stride = 0
        PROVE  \E n \in 0 .. (through - first) \div stride : x = first + stride * n
    <2>1. (x - first) \div stride \in 0 .. (through - first) \div stride
      BY <1>2
    <2>2. x = first + stride * ((x - first) \div stride)
      BY <1>2
    <2> QED BY <2>1, <2>2, Zenon
  <1>3. ASSUME NEW y \in Strides(first, stride, through)
        PROVE  y \in {x \in first .. through : (x - first) % stride = 0}
    <2>1. PICK n \in 0 .. (through - first) \div stride : y = first + stride * n
      BY Zenon DEF Strides
    <2>2. y \in first .. through /\ (y - first) % stride = 0
      BY <1>1, <2>1
    <2> QED BY <2>2
  <1>4. ASSUME NEW x \in first .. through, (x - first) % stride = 0
        PROVE  x \in Strides(first, stride, through)
    BY <1>2, <1>4, Zenon DEF Strides
  <1> QED BY <1>3, <1>4, Zenon

\* A weekly walk meets the days of its weekday (paycheck-period.ts).
LEMMA WeeklyPaydays ==
  ASSUME NEW weekday \in Weekdays, NEW from \in Int, NEW through \in Int
  PROVE  Strides(FirstWeekdayOnOrAfter(from, weekday), 7, through) =
            {x \in from .. through : DayOfWeek(x) = weekday}
  <1> DEFINE first == FirstWeekdayOnOrAfter(from, weekday)
  <1>1. first \in from .. from + 6 /\ DayOfWeek(first) = weekday
    BY DEF FirstWeekdayOnOrAfter, DayOfWeek, Weekdays
  <1>2. Strides(first, 7, through) = {x \in first .. through : (x - first) % 7 = 0}
    BY <1>1, StridesOfWeeks
  <1>3. ASSUME NEW x \in Int, x <= through
        PROVE  first <= x /\ (x - first) % 7 = 0 <=> from <= x /\ DayOfWeek(x) = weekday
    BY <1>1, <1>3 DEF DayOfWeek, Weekdays
  <1> HIDE DEF first
  <1>4. {x \in first .. through : (x - first) % 7 = 0} = {x \in from .. through : DayOfWeek(x) = weekday}
    BY <1>1, <1>3
  <1> QED BY <1>2, <1>4 DEF first

\* A walk in whole intervals meets the dates counted from its origin, wherever
\* the horizon begins (paycheck-period.ts).
LEMMA IntervalPaydays ==
  ASSUME NEW origin \in Int, NEW stride \in {7, 14, 21, 28}, NEW from \in Int, NEW through \in Int
  PROVE  Strides(FirstOnOrAfter(origin, stride, from), stride, through) =
            {x \in from .. through : (x - origin) % stride = 0}
  <1> DEFINE first == FirstOnOrAfter(origin, stride, from)
  <1>1. first \in from .. from + stride - 1 /\ (first - origin) % stride = 0
    BY DEF FirstOnOrAfter
  <1>2. Strides(first, stride, through) = {x \in first .. through : (x - first) % stride = 0}
    BY <1>1, StridesOfWeeks
  <1>3. ASSUME NEW x \in Int, x <= through
        PROVE  first <= x /\ (x - first) % stride = 0 <=> from <= x /\ (x - origin) % stride = 0
    <2> HIDE DEF first
    <2> QED BY <1>1, <1>3
  <1> HIDE DEF first
  <1>4. {x \in first .. through : (x - first) % stride = 0} = {x \in from .. through : (x - origin) % stride = 0}
    BY <1>1, <1>3
  <1> QED BY <1>2, <1>4 DEF first

\* A walk over the months meets the dates that fall on the anchor.
LEMMA MonthlyPaydays ==
  ASSUME NEW a, IsMonthlyAnchor(a), NEW from \in Int, NEW through \in Int
  PROVE  {MonthlyBoundaryWithin(m, a) : m \in MonthOf(from) .. MonthOf(through)} \cap (from .. through)
            = {x \in from .. through : FallsOn(a, x)}
  <1>1. MonthOf(from) \in Int /\ MonthOf(through) \in Int
    BY MonthOfDate
  <1>2. ASSUME NEW m \in MonthOf(from) .. MonthOf(through)
        PROVE  MonthlyBoundaryWithin(m, a) \in Int /\ FallsOn(a, MonthlyBoundaryWithin(m, a))
    <2>1. m \in Int
      BY <1>1
    <2> QED BY <2>1, AnchorInMonth, AnchorMonth, FallsOnAnchor
  <1>3. ASSUME NEW x \in from .. through, FallsOn(a, x)
        PROVE  \E m \in MonthOf(from) .. MonthOf(through) : x = MonthlyBoundaryWithin(m, a)
    <2>1. x \in Int /\ from <= x /\ x <= through
      OBVIOUS
    <2>2. MonthOf(x) \in MonthOf(from) .. MonthOf(through)
      BY <1>1, <2>1, DatesOrdered, MonthOfDate
    <2>3. x = MonthlyBoundaryWithin(MonthOf(x), a)
      BY <1>3, <2>1, FallsOnAnchor
    <2> QED BY <2>2, <2>3
  <1> QED BY <1>2, <1>3, Zenon

-----------------------------------------------------------------------------
(***************************************************************************)
(* Business days. Holidays are a week apart and close at most one weekday  *)
(* each, so that of four days in a row one is open.                        *)
(***************************************************************************)

\* The year of a date contains it.
LEMMA YearOfDate ==
  ASSUME NEW d \in Int
  PROVE  /\ YearOf(d) \in Int
         /\ FirstOfYear(YearOf(d)) <= d /\ d < FirstOfYear(YearOf(d) + 1)
  <1> DEFINE m == MonthOf(d)
             y == m \div 12
             k == m % 12
  <1>1. /\ m \in Int /\ m + 1 \in Int /\ FirstOfMonth(m) <= d /\ d < FirstOfMonth(m + 1)
    BY MonthOfDate
  <1> HIDE DEF m
  <1>2. /\ FirstOfMonth(m) = FirstOfYear(y) + DaysBefore[k + 1] + (IF k > 1 THEN LeapDay(y) ELSE 0)
        /\ y \in Int /\ k \in 0 .. 11
    BY <1>1, MonthInYear
  <1>3. DaysInMonth(m) = IF k = 1 THEN 28 + LeapDay(y) ELSE IF k \in {3, 5, 8, 10} THEN 30 ELSE 31
    BY <1>1, DaysOfMonth
  <1>4. FirstOfMonth(m + 1) = FirstOfMonth(m) + DaysInMonth(m)
    BY <1>1, MonthLength
  <1> HIDE DEF y, k
  <1>5. FirstOfYear(y) \in Int /\ FirstOfYear(y + 1) = FirstOfYear(y) + 365 + LeapDay(y) /\ LeapDay(y) \in {0, 1}
    <2>1. y \in Int
      BY <1>2
    <2>2. LeapDay(y) \in {0, 1}
      BY <2>1, LeapYears
    <2> QED BY <2>1, <2>2, YearLength
  <1>6. FirstOfYear(y) <= d /\ d < FirstOfYear(y + 1)
    BY <1>1, <1>2, <1>3, <1>4, <1>5, DaysBeforeMonth, SMT
  <1>7. YearOf(d) = y
    BY DEF YearOf, y, m
  <1> QED BY <1>2, <1>6, <1>7

\* Years follow one another.
LEMMA YearsOrdered ==
  ASSUME NEW y \in Int, NEW z \in Int, y < z
  PROVE  FirstOfYear(y + 1) \in Int /\ FirstOfYear(z) \in Int /\ FirstOfYear(y + 1) <= FirstOfYear(z)
  <1>1. y + 1 \in Int
    OBVIOUS
  <1>2. CASE z = y + 1
    BY <1>1, <1>2, YearLength, SMT
  <1>3. CASE z > y + 1
    BY <1>1, <1>3, YearLength, SMT
  <1> QED BY <1>2, <1>3

\* The days of the year on which the months with a holiday begin.
LEMMA MonthsOfYear ==
  ASSUME NEW y \in Int
  PROVE  /\ FirstOfMonth(12 * y + 1 - 1) = FirstOfYear(y)
         /\ FirstOfMonth(12 * y + 2 - 1) = FirstOfYear(y) + 31
         /\ FirstOfMonth(12 * y + 5 - 1) = FirstOfYear(y) + 120 + LeapDay(y)
         /\ FirstOfMonth(12 * y + 6 - 1) = FirstOfYear(y) + 151 + LeapDay(y)
         /\ FirstOfMonth(12 * y + 7 - 1) = FirstOfYear(y) + 181 + LeapDay(y)
         /\ FirstOfMonth(12 * y + 9 - 1) = FirstOfYear(y) + 243 + LeapDay(y)
         /\ FirstOfMonth(12 * y + 10 - 1) = FirstOfYear(y) + 273 + LeapDay(y)
         /\ FirstOfMonth(12 * y + 11 - 1) = FirstOfYear(y) + 304 + LeapDay(y)
         /\ FirstOfMonth(12 * y + 12 - 1) = FirstOfYear(y) + 334 + LeapDay(y)
         /\ DaysInMonth(12 * y + 5 - 1) = 31
  <1>1. FirstOfYear(y) \in Int /\ LeapDay(y) \in {0, 1}
    BY YearLength, LeapYears
  <1>2. ASSUME NEW n \in 1 .. 12
        PROVE  FirstOfMonth(12 * y + n - 1) = FirstOfYear(y) + DaysBefore[n] + (IF n > 2 THEN LeapDay(y) ELSE 0)
    <2> DEFINE m == 12 * y + n - 1
    <2>1. m \in Int /\ m \div 12 = y /\ m % 12 = n - 1 /\ (n - 1) + 1 = n
      OBVIOUS
    <2> HIDE DEF m
    <2>2. FirstOfMonth(m) = FirstOfYear(y) + DaysBefore[(n - 1) + 1] + (IF n - 1 > 1 THEN LeapDay(y) ELSE 0)
      <3>1. FirstOfMonth(m) = FirstOfYear(m \div 12) + DaysBefore[(m % 12) + 1]
                                 + (IF m % 12 > 1 THEN LeapDay(m \div 12) ELSE 0)
        BY <2>1, MonthInYear
      <3> QED BY <2>1, <3>1, Zenon
    <2>3. n - 1 > 1 <=> n > 2
      OBVIOUS
    <2> QED BY <2>1, <2>2, <2>3 DEF m
  <1>3. DaysInMonth(12 * y + 5 - 1) = 31
    <2>1. 12 * y + 5 - 1 \in Int /\ (12 * y + 5 - 1) % 12 = 4
      OBVIOUS
    <2> QED BY <2>1, DaysOfMonth
  <1> QED BY <1>1, <1>2, <1>3, DaysBeforeMonth, SMT

\* The nth weekday of a month is in its nth week of seven days.
LEMMA NthWeekday ==
  ASSUME NEW m \in Int, NEW weekday \in Weekdays, NEW n \in 1 .. 4
  PROVE  NthWeekdayOfMonth(m, weekday, n) \in FirstOfMonth(m) + 7 * n - 7 .. FirstOfMonth(m) + 7 * n - 1
  <1>1. FirstOfMonth(m) \in Int
    BY MonthLength
  <1> QED BY <1>1 DEF NthWeekdayOfMonth, DayOfWeek, Weekdays

\* The last weekday of a month is in its last seven days.
LEMMA LastWeekday ==
  ASSUME NEW m \in Int, NEW weekday \in Weekdays
  PROVE  LastWeekdayOfMonth(m, weekday) \in FirstOfMonth(m) + DaysInMonth(m) - 7 .. FirstOfMonth(m) + DaysInMonth(m) - 1
  <1>1. FirstOfMonth(m) \in Int /\ DaysInMonth(m) \in Int
    BY MonthLength
  <1> QED BY <1>1 DEF LastWeekdayOfMonth, LastOfMonth, DayOfWeek, Weekdays

\* Two holidays of one year are at least a week apart, and so are the last of
\* a year and the first of the next.
LEMMA HolidaysOfYear ==
  ASSUME NEW y \in VerifiedFrom .. VerifiedThrough
  PROVE  /\ \A g \in FederalReserveHolidays[y] :
              g \in Int /\ FirstOfYear(y) <= g /\ g + 7 <= FirstOfYear(y + 1)
         /\ \A g, h \in FederalReserveHolidays[y] : g < h => g + 7 <= h
  <1>1. y \in Int /\ FirstOfYear(y) \in Int /\ LeapDay(y) \in {0, 1} /\ FirstOfYear(y + 1) = FirstOfYear(y) + 365 + LeapDay(y)
    BY YearLength, LeapYears DEF VerifiedFrom, VerifiedThrough
  <1> DEFINE m1 == 12 * y + 1 - 1
             m2 == 12 * y + 2 - 1
             m5 == 12 * y + 5 - 1
             m6 == 12 * y + 6 - 1
             m7 == 12 * y + 7 - 1
             m9 == 12 * y + 9 - 1
             m10 == 12 * y + 10 - 1
             m11 == 12 * y + 11 - 1
             m12 == 12 * y + 12 - 1
             f1 == FirstOfMonth(m1) + 1 - 1
             f2 == NthWeekdayOfMonth(m1, Monday, 3)
             f3 == NthWeekdayOfMonth(m2, Monday, 3)
             f4 == LastWeekdayOfMonth(m5, Monday)
             f5 == FirstOfMonth(m6) + 19 - 1
             f6 == FirstOfMonth(m7) + 4 - 1
             f7 == NthWeekdayOfMonth(m9, Monday, 1)
             f8 == NthWeekdayOfMonth(m10, Monday, 2)
             f9 == FirstOfMonth(m11) + 11 - 1
             f10 == NthWeekdayOfMonth(m11, Thursday, 4)
             f11 == FirstOfMonth(m12) + 25 - 1
  <1>2. FederalReserveHolidays[y] = {f1, f5, f6, f9, f11, f2, f3, f4, f7, f8, f10}
    BY Zenon DEF FederalReserveHolidays
  <1>3. /\ m1 \in Int /\ m2 \in Int /\ m5 \in Int /\ m9 \in Int /\ m10 \in Int /\ m11 \in Int
        /\ Monday \in Weekdays /\ Thursday \in Weekdays
    BY <1>1 DEF Monday, Thursday, Weekdays
  <1> DEFINE j == FirstOfYear(y)
             leap == LeapDay(y)
  <1>4. /\ FirstOfMonth(m1) = j /\ FirstOfMonth(m2) = j + 31 /\ FirstOfMonth(m5) = j + 120 + leap
        /\ FirstOfMonth(m6) = j + 151 + leap /\ FirstOfMonth(m7) = j + 181 + leap
        /\ FirstOfMonth(m9) = j + 243 + leap /\ FirstOfMonth(m10) = j + 273 + leap
        /\ FirstOfMonth(m11) = j + 304 + leap /\ FirstOfMonth(m12) = j + 334 + leap
        /\ DaysInMonth(m5) = 31
    BY <1>1, MonthsOfYear, SMT
  <1>5. j \in Int /\ leap \in {0, 1} /\ FirstOfYear(y + 1) = j + 365 + leap
    BY <1>1
  <1> HIDE DEF m1, m2, m5, m6, m7, m9, m10, m11, m12, j, leap
  <1>6. /\ f1 = j /\ f5 = j + leap + 169 /\ f6 = j + leap + 184 /\ f9 = j + leap + 314 /\ f11 = j + leap + 358
    BY <1>4, <1>5
  <1>7. /\ f2 \in j + 14 .. j + 20
        /\ f3 \in j + 45 .. j + 51
        /\ f7 \in j + 243 + leap .. j + 249 + leap
        /\ f8 \in j + 280 + leap .. j + 286 + leap
        /\ f10 \in j + 325 + leap .. j + 331 + leap
    <2>1. 1 \in 1 .. 4 /\ 2 \in 1 .. 4 /\ 3 \in 1 .. 4 /\ 4 \in 1 .. 4
      OBVIOUS
    <2>2. f2 \in FirstOfMonth(m1) + 7 * 3 - 7 .. FirstOfMonth(m1) + 7 * 3 - 1
      BY <1>3, <2>1, NthWeekday
    <2>3. f3 \in FirstOfMonth(m2) + 7 * 3 - 7 .. FirstOfMonth(m2) + 7 * 3 - 1
      BY <1>3, <2>1, NthWeekday
    <2>4. f7 \in FirstOfMonth(m9) + 7 * 1 - 7 .. FirstOfMonth(m9) + 7 * 1 - 1
      BY <1>3, <2>1, NthWeekday
    <2>5. f8 \in FirstOfMonth(m10) + 7 * 2 - 7 .. FirstOfMonth(m10) + 7 * 2 - 1
      BY <1>3, <2>1, NthWeekday
    <2>6. f10 \in FirstOfMonth(m11) + 7 * 4 - 7 .. FirstOfMonth(m11) + 7 * 4 - 1
      BY <1>3, <2>1, NthWeekday
    <2> HIDE DEF f2, f3, f7, f8, f10
    <2> QED BY <1>4, <1>5, <2>2, <2>3, <2>4, <2>5, <2>6
  <1>8. f4 \in j + 144 + leap .. j + 150 + leap
    <2>1. f4 \in FirstOfMonth(m5) + DaysInMonth(m5) - 7 .. FirstOfMonth(m5) + DaysInMonth(m5) - 1
      BY <1>3, LastWeekday
    <2> HIDE DEF f4
    <2> QED BY <1>4, <1>5, <2>1
  <1> HIDE DEF f1, f2, f3, f4, f5, f6, f7, f8, f9, f10, f11
  <1>9. ASSUME NEW g \in FederalReserveHolidays[y]
        PROVE  g \in Int /\ FirstOfYear(y) <= g /\ g + 7 <= FirstOfYear(y + 1)
    <2>1. g \in {f1, f5, f6, f9, f11, f2, f3, f4, f7, f8, f10}
      BY <1>2
    <2> QED BY <1>5, <1>6, <1>7, <1>8, <2>1 DEF j
  <1>10. ASSUME NEW g \in FederalReserveHolidays[y], NEW h \in FederalReserveHolidays[y], g < h
         PROVE  g + 7 <= h
    <2>1. /\ g \in {f1, f5, f6, f9, f11, f2, f3, f4, f7, f8, f10}
          /\ h \in {f1, f5, f6, f9, f11, f2, f3, f4, f7, f8, f10}
      BY <1>2
    <2> QED BY <1>5, <1>6, <1>7, <1>8, <1>10, <2>1, SMTT(30)
  <1> QED BY <1>9, <1>10

\* A holiday of a covered year.
IsHoliday(d) == IsYearCovered(YearOf(d)) /\ d \in FederalReserveHolidays[YearOf(d)]

\* No two holidays are less than a week apart, in one year or across New Year.
LEMMA HolidaysApart ==
  ASSUME NEW c \in Int, NEW d \in Int, IsHoliday(c), IsHoliday(d), c < d
  PROVE  c + 7 <= d
  <1> DEFINE y == YearOf(c)
             z == YearOf(d)
  <1>1. /\ y \in VerifiedFrom .. VerifiedThrough /\ z \in VerifiedFrom .. VerifiedThrough
        /\ c \in FederalReserveHolidays[y] /\ d \in FederalReserveHolidays[z]
    BY DEF IsHoliday, IsYearCovered
  <1>2. /\ y \in Int /\ FirstOfYear(y) <= c /\ c < FirstOfYear(y + 1)
        /\ z \in Int /\ FirstOfYear(z) <= d /\ d < FirstOfYear(z + 1)
    BY YearOfDate
  <1> HIDE DEF y, z
  <1>3. CASE y = z
    BY <1>1, <1>3, HolidaysOfYear
  <1>4. CASE y < z
    BY <1>1, <1>2, <1>4, HolidaysOfYear, YearsOrdered
  <1>5. CASE z < y
    BY <1>2, <1>5, YearsOrdered
  <1> QED BY <1>1, <1>3, <1>4, <1>5

\* A working weekday is closed by a holiday on it or by a Sunday's.
LEMMA ClosedWeekday ==
  ASSUME NEW d \in Int, IsYearCovered(YearOf(d)), DayOfWeek(d) < 5, ~IsBusinessDay(d)
  PROVE  IsHoliday(d) \/ (DayOfWeek(d) = Monday /\ IsHoliday(d - 1))
  BY DEF IsBusinessDay, IsHoliday

\* "Never more than four days away": of four days in a row one is a business
\* day, as long as their years are covered.
THEOREM FourDays ==
  ASSUME NEW d \in Int, \A n \in 0 .. 3 : IsYearCovered(YearOf(d + n))
  PROVE  \E n \in 0 .. 3 : IsBusinessDay(d + n)
  <1> SUFFICES ASSUME \A n \in 0 .. 3 : ~IsBusinessDay(d + n)
               PROVE  FALSE
    OBVIOUS
  <1>1. ASSUME NEW x \in d .. d + 3, DayOfWeek(x) < 5
        PROVE  IsHoliday(x) \/ (DayOfWeek(x) = Monday /\ IsHoliday(x - 1))
    <2>1. x - d \in 0 .. 3 /\ d + (x - d) = x /\ x \in Int
      OBVIOUS
    <2>2. ~IsBusinessDay(x) /\ IsYearCovered(YearOf(x))
      BY <2>1
    <2> QED BY <1>1, <2>1, <2>2, ClosedWeekday
  <1>2. \E x, z \in d .. d + 3 : x < z /\ DayOfWeek(x) < 5 /\ DayOfWeek(z) < 5
    <2>1. CASE DayOfWeek(d) < 5 /\ DayOfWeek(d + 1) < 5
      BY <2>1
    <2>2. CASE DayOfWeek(d + 2) < 5 /\ DayOfWeek(d + 3) < 5
      BY <2>2
    <2>3. CASE DayOfWeek(d) < 5 /\ DayOfWeek(d + 3) < 5
      BY <2>3
    <2> QED BY <2>1, <2>2, <2>3 DEF DayOfWeek
  <1>3. PICK x \in d .. d + 3, z \in d .. d + 3 : x < z /\ DayOfWeek(x) < 5 /\ DayOfWeek(z) < 5
    BY <1>2
  <1>4. PICK g \in Int : IsHoliday(g) /\ (g = x \/ (g = x - 1 /\ DayOfWeek(x) = Monday))
    BY <1>1, <1>3
  <1>5. PICK h \in Int : IsHoliday(h) /\ (h = z \/ (h = z - 1 /\ DayOfWeek(z) = Monday))
    BY <1>1, <1>3
  <1>6. g < h /\ h < g + 7
    BY <1>3, <1>4, <1>5 DEF DayOfWeek, Monday
  <1> QED BY <1>4, <1>5, <1>6, HolidaysApart

\* An adjustment that looks for a business day moves a date one to four days.
LEMMA MovesBounded ==
  ASSUME NEW d \in Int, NEW policy
  PROVE  Moves(d, policy) \in 1 .. 4
  <1> DEFINE step == StepOf(policy)
             S == {n \in 1 .. MaxAdjustmentSteps :
                     IsYearCovered(YearOf(d + step * n)) => IsBusinessDay(d + step * n)}
  <1>1. step \in {-1, 1}
    BY DEF StepOf
  <1> HIDE DEF step
  <1>2. \E n \in 1 .. 4 : n \in S
    <2>1. CASE \E n \in 1 .. 4 : ~IsYearCovered(YearOf(d + step * n))
      BY <2>1 DEF MaxAdjustmentSteps
    <2>2. CASE \A n \in 1 .. 4 : IsYearCovered(YearOf(d + step * n))
      <3>1. CASE step = 1
        <4>1. ASSUME NEW n \in 0 .. 3 PROVE IsYearCovered(YearOf((d + 1) + n))
          <5>1. n + 1 \in 1 .. 4 /\ (d + 1) + n = d + step * (n + 1)
            BY <3>1
          <5> QED BY <2>2, <5>1
        <4>2. PICK n \in 0 .. 3 : IsBusinessDay((d + 1) + n)
          BY <4>1, FourDays
        <4>3. n + 1 \in 1 .. MaxAdjustmentSteps /\ n + 1 \in 1 .. 4 /\ (d + 1) + n = d + step * (n + 1)
          BY <3>1 DEF MaxAdjustmentSteps
        <4> QED BY <4>2, <4>3
      <3>2. CASE step = -1
        <4>1. ASSUME NEW n \in 0 .. 3 PROVE IsYearCovered(YearOf((d - 4) + n))
          <5>1. 4 - n \in 1 .. 4 /\ (d - 4) + n = d + step * (4 - n)
            BY <3>2
          <5> QED BY <2>2, <5>1
        <4>2. PICK n \in 0 .. 3 : IsBusinessDay((d - 4) + n)
          BY <4>1, FourDays
        <4>3. 4 - n \in 1 .. MaxAdjustmentSteps /\ 4 - n \in 1 .. 4 /\ (d - 4) + n = d + step * (4 - n)
          BY <3>2 DEF MaxAdjustmentSteps
        <4> QED BY <4>2, <4>3
      <3> QED BY <1>1, <3>1, <3>2
    <2> QED BY <2>1, <2>2
  <1>3. S \in SUBSET Int /\ \A x \in S : x \in Int /\ 1 <= x
    BY DEF MaxAdjustmentSteps
  <1>4. Moves(d, policy) = Min(S)
    BY DEF Moves, step
  <1> HIDE DEF S
  <1>5. Min(S) \in S /\ \A x \in S : Min(S) <= x
    BY <1>2, <1>3, LeastOfDates
  <1>6. PICK n \in 1 .. 4 : n \in S
    BY <1>2
  <1> DEFINE least == Min(S)
  <1> HIDE DEF least
  <1>7. least \in Int /\ 1 <= least /\ least <= n
    BY <1>3, <1>5, <1>6, Zenon DEF least
  <1> QED BY <1>4, <1>7 DEF least

\* An adjusted date is at most four days off: the widening of a horizon by 14
\* days reaches every payday that is adjusted into it.
LEMMA AdjustmentBounded ==
  ASSUME NEW d \in Int, NEW policy
  PROVE  AdjustToBusinessDay(d, policy) \in d - 4 .. d + 4
  <1>1. StepOf(policy) \in {-1, 1}
    BY DEF StepOf
  <1> QED BY <1>1, MovesBounded DEF AdjustToBusinessDay

-----------------------------------------------------------------------------
(***************************************************************************)
(* Paycheck boundaries: the walk meets the paydays, an adjustment moves    *)
(* them four days at most, and so a boundary does not depend on the        *)
(* horizon it is looked up in.                                             *)
(***************************************************************************)

\* What is walked over a horizon are its paydays, wherever it begins.
THEOREM AnchorsArePaydays ==
  ASSUME NEW p, IsPaycheckPattern(p), NEW from \in Int, NEW through \in Int
  PROVE  UnadjustedAnchors(p, from, through) = {x \in from .. through : IsPayday(p, x)}
  <1>1. CASE p.kind = "weekly" /\ p.weekday \in Weekdays
    <2>1. UnadjustedAnchors(p, from, through) = Strides(FirstWeekdayOnOrAfter(from, p.weekday), 7, through)
      BY <1>1, Zenon DEF UnadjustedAnchors
    <2>2. \A x : IsPayday(p, x) <=> DayOfWeek(x) = p.weekday
      BY <1>1, Zenon DEF IsPayday
    <2>3. Strides(FirstWeekdayOnOrAfter(from, p.weekday), 7, through)
            = {x \in from .. through : DayOfWeek(x) = p.weekday}
      BY <1>1, WeeklyPaydays, Zenon
    <2> QED BY <2>1, <2>2, <2>3, Zenon
  <1>2. CASE p.kind = "twice-per-week" /\ p.weekdays \in Weekdays \X Weekdays
    <2>1. UnadjustedAnchors(p, from, through) =
             Strides(FirstWeekdayOnOrAfter(from, p.weekdays[1]), 7, through)
               \cup Strides(FirstWeekdayOnOrAfter(from, p.weekdays[2]), 7, through)
      BY <1>2, Zenon DEF UnadjustedAnchors
    <2>2. \A x : IsPayday(p, x) <=> DayOfWeek(x) = p.weekdays[1] \/ DayOfWeek(x) = p.weekdays[2]
      BY <1>2, Zenon DEF IsPayday
    <2>3. p.weekdays[1] \in Weekdays /\ p.weekdays[2] \in Weekdays
      BY <1>2
    <2>4. /\ Strides(FirstWeekdayOnOrAfter(from, p.weekdays[1]), 7, through)
                = {x \in from .. through : DayOfWeek(x) = p.weekdays[1]}
          /\ Strides(FirstWeekdayOnOrAfter(from, p.weekdays[2]), 7, through)
                = {x \in from .. through : DayOfWeek(x) = p.weekdays[2]}
      BY <2>3, WeeklyPaydays, Zenon
    <2> QED BY <2>1, <2>2, <2>4, Zenon
  <1>3. CASE p.kind = "every-two-weeks" /\ IsRecurrenceOrigin(p.recurrenceOrigin, p.weekday)
    <2>1. UnadjustedAnchors(p, from, through) =
             Strides(FirstOnOrAfter(p.recurrenceOrigin, 14, from), 14, through)
      BY <1>3, Zenon DEF UnadjustedAnchors
    <2>2. \A x : IsPayday(p, x) <=> (x - p.recurrenceOrigin) % 14 = 0
      BY <1>3, Zenon DEF IsPayday
    <2>3. p.recurrenceOrigin \in Int /\ 14 \in {7, 14, 21, 28}
      BY <1>3, Zenon DEF IsRecurrenceOrigin
    <2>4. Strides(FirstOnOrAfter(p.recurrenceOrigin, 14, from), 14, through)
            = {x \in from .. through : (x - p.recurrenceOrigin) % 14 = 0}
      BY <2>3, IntervalPaydays
    <2> QED BY <2>1, <2>2, <2>4, Zenon
  <1>4. CASE /\ p.kind = "custom-weekly-interval"
             /\ IsRecurrenceOrigin(p.recurrenceOrigin, p.weekday) /\ p.everyWeeks \in 1 .. 4
    <2> DEFINE stride == 7 * p.everyWeeks
    <2>1. UnadjustedAnchors(p, from, through) =
             Strides(FirstOnOrAfter(p.recurrenceOrigin, stride, from), stride, through)
      BY <1>4, Zenon DEF UnadjustedAnchors
    <2>2. \A x : IsPayday(p, x) <=> (x - p.recurrenceOrigin) % stride = 0
      BY <1>4, Zenon DEF IsPayday
    <2>3. p.recurrenceOrigin \in Int
      BY <1>4, Zenon DEF IsRecurrenceOrigin
    <2>4. stride \in {7, 14, 21, 28}
      BY <1>4
    <2> HIDE DEF stride
    <2>5. Strides(FirstOnOrAfter(p.recurrenceOrigin, stride, from), stride, through)
            = {x \in from .. through : (x - p.recurrenceOrigin) % stride = 0}
      BY <2>3, <2>4, IntervalPaydays
    <2> QED BY <2>1, <2>2, <2>5, Zenon
  <1>5. CASE p.kind = "monthly" /\ IsMonthlyAnchor(p.anchor)
    <2>1. UnadjustedAnchors(p, from, through) =
             {MonthlyBoundaryWithin(m, p.anchor) : m \in MonthOf(from) .. MonthOf(through)} \cap (from .. through)
      BY <1>5, Zenon DEF UnadjustedAnchors
    <2>2. \A x : IsPayday(p, x) <=> FallsOn(p.anchor, x)
      BY <1>5, Zenon DEF IsPayday
    <2>3. {MonthlyBoundaryWithin(m, p.anchor) : m \in MonthOf(from) .. MonthOf(through)} \cap (from .. through)
            = {x \in from .. through : FallsOn(p.anchor, x)}
      BY <1>5, MonthlyPaydays, Zenon
    <2> QED BY <2>1, <2>2, <2>3, Zenon
  <1>6. CASE p.kind = "twice-per-month" /\ \A i \in 1 .. 2 : IsMonthlyAnchor(p.anchors[i])
    <2>1. UnadjustedAnchors(p, from, through) =
             ({MonthlyBoundaryWithin(m, p.anchors[1]) : m \in MonthOf(from) .. MonthOf(through)} \cap (from .. through))
             \cup
             ({MonthlyBoundaryWithin(m, p.anchors[2]) : m \in MonthOf(from) .. MonthOf(through)} \cap (from .. through))
      BY <1>6, Zenon DEF UnadjustedAnchors
    <2>2. \A x : IsPayday(p, x) <=> \E i \in 1 .. 2 : FallsOn(p.anchors[i], x)
      BY <1>6, Zenon DEF IsPayday
    <2>3. 1 \in 1 .. 2 /\ 2 \in 1 .. 2 /\ \A i \in 1 .. 2 : i = 1 \/ i = 2
      OBVIOUS
    <2>4. \A x : IsPayday(p, x) <=> FallsOn(p.anchors[1], x) \/ FallsOn(p.anchors[2], x)
      BY <2>2, <2>3, Zenon
    <2>5. IsMonthlyAnchor(p.anchors[1]) /\ IsMonthlyAnchor(p.anchors[2])
      BY <1>6, <2>3, Zenon
    <2>6. /\ {MonthlyBoundaryWithin(m, p.anchors[1]) : m \in MonthOf(from) .. MonthOf(through)} \cap (from .. through)
                = {x \in from .. through : FallsOn(p.anchors[1], x)}
          /\ {MonthlyBoundaryWithin(m, p.anchors[2]) : m \in MonthOf(from) .. MonthOf(through)} \cap (from .. through)
                = {x \in from .. through : FallsOn(p.anchors[2], x)}
      BY <2>5, MonthlyPaydays, Zenon
    <2> QED BY <2>1, <2>4, <2>6, Zenon
  <1> QED BY <1>1, <1>2, <1>3, <1>4, <1>5, <1>6, Zenon DEF IsPaycheckPattern

\* A schedule's paydays are never more than a month apart.
LEMMA PaydayWithinMonth ==
  ASSUME NEW p, IsPaycheckPattern(p), NEW d \in Int
  PROVE  \E x \in d .. d + 30 : IsPayday(p, x)
  <1>1. ASSUME NEW weekday \in Weekdays PROVE \E x \in d .. d + 30 : DayOfWeek(x) = weekday
    <2>1. d + ((weekday - DayOfWeek(d)) % 7) \in d .. d + 30 /\ DayOfWeek(d + ((weekday - DayOfWeek(d)) % 7)) = weekday
      BY DEF DayOfWeek, Weekdays
    <2> QED BY <2>1
  <1>2. ASSUME NEW origin \in Int, NEW stride \in {7, 14, 21, 28}
        PROVE \E x \in d .. d + 30 : (x - origin) % stride = 0
    <2>1. d + ((origin - d) % stride) \in d .. d + 30 /\ (d + ((origin - d) % stride) - origin) % stride = 0
      OBVIOUS
    <2> QED BY <2>1
  <1>3. CASE p.kind = "weekly" /\ p.weekday \in Weekdays
    BY <1>1, <1>3, Zenon DEF IsPayday
  <1>4. CASE p.kind = "twice-per-week" /\ p.weekdays \in Weekdays \X Weekdays
    <2>1. p.weekdays[1] \in Weekdays
      BY <1>4
    <2>2. \A x : IsPayday(p, x) <=> DayOfWeek(x) = p.weekdays[1] \/ DayOfWeek(x) = p.weekdays[2]
      BY <1>4, Zenon DEF IsPayday
    <2> QED BY <1>1, <2>1, <2>2, Zenon
  <1>5. CASE p.kind = "every-two-weeks" /\ IsRecurrenceOrigin(p.recurrenceOrigin, p.weekday)
    <2>1. p.recurrenceOrigin \in Int /\ 14 \in {7, 14, 21, 28}
      BY <1>5, Zenon DEF IsRecurrenceOrigin
    <2>2. \A x : IsPayday(p, x) <=> (x - p.recurrenceOrigin) % 14 = 0
      BY <1>5, Zenon DEF IsPayday
    <2> QED BY <1>2, <2>1, <2>2, Zenon
  <1>6. CASE /\ p.kind = "custom-weekly-interval"
             /\ IsRecurrenceOrigin(p.recurrenceOrigin, p.weekday) /\ p.everyWeeks \in 1 .. 4
    <2>1. p.recurrenceOrigin \in Int
      BY <1>6, Zenon DEF IsRecurrenceOrigin
    <2>2. 7 * p.everyWeeks \in {7, 14, 21, 28}
      BY <1>6
    <2>3. \A x : IsPayday(p, x) <=> (x - p.recurrenceOrigin) % (7 * p.everyWeeks) = 0
      BY <1>6, Zenon DEF IsPayday
    <2> QED BY <1>2, <2>1, <2>2, <2>3, Zenon
  <1>7. CASE p.kind = "monthly" /\ IsMonthlyAnchor(p.anchor)
    <2>1. \A x : IsPayday(p, x) <=> FallsOn(p.anchor, x)
      BY <1>7, Zenon DEF IsPayday
    <2> QED BY <1>7, <2>1, AnchorWithinMonth, Zenon
  <1>8. CASE p.kind = "twice-per-month" /\ \A i \in 1 .. 2 : IsMonthlyAnchor(p.anchors[i])
    <2>1. \A x : IsPayday(p, x) <=> \E i \in 1 .. 2 : FallsOn(p.anchors[i], x)
      BY <1>8, Zenon DEF IsPayday
    <2>2. 1 \in 1 .. 2
      OBVIOUS
    <2> QED BY <1>8, <2>1, <2>2, AnchorWithinMonth, Zenon
  <1> QED BY <1>3, <1>4, <1>5, <1>6, <1>7, <1>8, Zenon DEF IsPaycheckPattern

\* A date on which a period of a schedule begins.
Begins(s, x) ==
    \/ s.cadence = "weekly" /\ DayOfWeek(x) = s.anchor
    \/ s.cadence = "monthly" /\ FallsOn(s.anchor, x)
    \/ s.cadence = "custom-fixed-length" /\ (x - s.startBoundary) % s.lengthInDays = 0
    \/ /\ s.cadence = "paycheck"
       /\ \E a \in x - MaxAdjustmentSteps .. x + MaxAdjustmentSteps :
             IsPayday(s.pattern, a) /\ AdjustToBusinessDay(a, s.businessDayPolicy) = x

\* A date some adjustable payday is adjusted to: no horizon in its terms.
IsBoundary(s, b) ==
    \E a \in b - MaxAdjustmentSteps .. b + MaxAdjustmentSteps :
        /\ IsPayday(s.pattern, a) /\ CanAdjust(a, s.businessDayPolicy)
        /\ AdjustToBusinessDay(a, s.businessDayPolicy) = b

\* A paycheck schedule that is accepted has a pattern that is.
LEMMA PaycheckPattern ==
  ASSUME NEW s, IsValidDefinition(s), s.cadence = "paycheck"
  PROVE  IsPaycheckPattern(s.pattern)
  BY Zenon DEF IsValidDefinition

\* What is built over a horizon is, on each of its dates, what is a boundary
\* without one.
LEMMA BoundaryWithin ==
  ASSUME NEW s, IsValidDefinition(s), s.cadence = "paycheck",
         NEW from \in Int, NEW through \in Int, NEW b \in from .. through
  PROVE  b \in BoundaryDates(s, from, through) <=> IsBoundary(s, b)
  <1> DEFINE p == s.pattern
             policy == s.businessDayPolicy
             anchors == HorizonAnchors(s, from, through)
  <1>1. from - MaxAdjustmentSteps \in Int /\ through + MaxAdjustmentSteps \in Int /\ b \in Int
    BY DEF MaxAdjustmentSteps
  <1>2. anchors = {x \in from - MaxAdjustmentSteps .. through + MaxAdjustmentSteps : IsPayday(p, x)}
    BY <1>1, PaycheckPattern, AnchorsArePaydays DEF HorizonAnchors
  <1>3. b \in BoundaryDates(s, from, through) <=>
           \E a \in anchors : CanAdjust(a, policy) /\ AdjustToBusinessDay(a, policy) = b
    BY Zenon DEF BoundaryDates
  <1> HIDE DEF anchors
  <1>4. ASSUME NEW a \in anchors, AdjustToBusinessDay(a, policy) = b
        PROVE  IsPayday(p, a) /\ a \in b - MaxAdjustmentSteps .. b + MaxAdjustmentSteps
    <2>1. a \in Int /\ IsPayday(p, a)
      BY <1>2 DEF MaxAdjustmentSteps
    <2> HIDE DEF policy
    <2>2. AdjustToBusinessDay(a, policy) \in a - 4 .. a + 4
      BY <2>1, AdjustmentBounded
    <2> QED BY <1>1, <1>4, <2>1, <2>2 DEF MaxAdjustmentSteps
  <1>5. ASSUME NEW a \in b - MaxAdjustmentSteps .. b + MaxAdjustmentSteps, IsPayday(p, a)
        PROVE  a \in anchors
    <2>1. a \in from - MaxAdjustmentSteps .. through + MaxAdjustmentSteps
      BY DEF MaxAdjustmentSteps
    <2> QED BY <1>2, <1>5, <2>1
  <1> QED BY <1>3, <1>4, <1>5, Zenon DEF IsBoundary

\* "Any two horizons agree on every boundary they both cover."
THEOREM HorizonsAgree ==
  ASSUME NEW s, IsValidDefinition(s), s.cadence = "paycheck",
         NEW from \in Int, NEW through \in Int, NEW from2 \in Int, NEW through2 \in Int,
         NEW b \in (from .. through) \cap (from2 .. through2)
  PROVE  b \in BoundaryDates(s, from, through) <=> b \in BoundaryDates(s, from2, through2)
  BY BoundaryWithin

\* Well inside a horizon that was built the boundaries are the beginnings.
LEMMA BoundariesBegin ==
  ASSUME NEW s, IsValidDefinition(s), s.cadence = "paycheck",
         NEW from \in Int, NEW through \in Int, CanBuild(s, from, through),
         NEW x \in from + MaxAdjustmentSteps .. through - MaxAdjustmentSteps
  PROVE  x \in BoundaryDates(s, from, through) <=> Begins(s, x)
  <1>1. x \in from .. through /\ x \in Int
    BY DEF MaxAdjustmentSteps
  <1>2. x \in BoundaryDates(s, from, through) <=> IsBoundary(s, x)
    BY <1>1, BoundaryWithin
  <1>3. Begins(s, x) <=> \E a \in x - MaxAdjustmentSteps .. x + MaxAdjustmentSteps :
             IsPayday(s.pattern, a) /\ AdjustToBusinessDay(a, s.businessDayPolicy) = x
    BY Zenon DEF Begins
  <1>4. ASSUME NEW a \in x - MaxAdjustmentSteps .. x + MaxAdjustmentSteps, IsPayday(s.pattern, a)
        PROVE  CanAdjust(a, s.businessDayPolicy)
    <2>1. /\ a \in from .. through /\ a \in from - MaxAdjustmentSteps .. through + MaxAdjustmentSteps
          /\ from - MaxAdjustmentSteps \in Int /\ through + MaxAdjustmentSteps \in Int
      BY DEF MaxAdjustmentSteps
    <2>2. a \in UnadjustedAnchors(s.pattern, from - MaxAdjustmentSteps, through + MaxAdjustmentSteps)
      BY <1>4, <2>1, PaycheckPattern, AnchorsArePaydays
    <2>3. a \in HorizonAnchors(s, from, through)
      BY <2>2 DEF HorizonAnchors
    <2> QED BY <2>1, <2>3 DEF CanBuild
  <1> QED BY <1>2, <1>3, <1>4, Zenon DEF IsBoundary

\* Any 39 days in a row contain the beginning of a paycheck period.
LEMMA BeginsAround ==
  ASSUME NEW s, IsValidDefinition(s), s.cadence = "paycheck", NEW x \in Int
  PROVE  \E b \in x .. x + 38 : Begins(s, b)
  <1>1. x + 4 \in Int
    OBVIOUS
  <1>2. PICK a \in x + 4 .. x + 4 + 30 : IsPayday(s.pattern, a)
    BY <1>1, PaycheckPattern, PaydayWithinMonth, Zenon
  <1> DEFINE b == AdjustToBusinessDay(a, s.businessDayPolicy)
  <1>3. b \in a - 4 .. a + 4
    BY AdjustmentBounded
  <1> HIDE DEF b
  <1>4. b \in x .. x + 38 /\ a \in b - MaxAdjustmentSteps .. b + MaxAdjustmentSteps
    BY <1>3 DEF MaxAdjustmentSteps
  <1>5. Begins(s, b)
    BY <1>2, <1>4, Zenon DEF Begins, b
  <1> QED BY <1>4, <1>5

-----------------------------------------------------------------------------
(***************************************************************************)
(* Periods and previews.                                                   *)
(***************************************************************************)

\* The period of a schedule that contains a date.
IsPeriodAt(s, p, x) ==
    /\ p \in [start : Int, end : Int]
    /\ p.start <= x /\ x <= p.end
    /\ Begins(s, p.start) /\ Begins(s, p.end + 1)
    /\ \A y \in p.start + 1 .. p.end : ~Begins(s, y)

\* Within 300 days of the date a horizon was built for, the two lookups find
\* the period of a date: the margins of 60 and 420 days are wide enough, and
\* the lookups never come back empty (paycheck-period.ts).
LEMMA PaycheckPeriod ==
  ASSUME NEW s, IsValidDefinition(s), s.cadence = "paycheck",
         NEW d \in Int, CanPreview(s, d), NEW x \in d .. d + 300
  PROVE  LET p == PeriodContaining(s, Built(s, d), x)
         IN  IsPeriodAt(s, p, x) /\ p.end + 1 <= x + 39
  <1> DEFINE from == HorizonFrom(d)
             through == HorizonThrough(d)
             built == BoundaryDates(s, from, through)
             before == {b \in built : b <= x}
             after == {b \in built : b > x}
             p == PeriodContaining(s, Built(s, d), x)
  <1>1. /\ from = d - 60 /\ through = d + 420 /\ MaxAdjustmentSteps = 14
        /\ from \in Int /\ through \in Int /\ x \in Int
    BY DEF HorizonFrom, HorizonThrough, PaycheckBackwardMarginDays, PaycheckForwardMarginDays, MaxAdjustmentSteps
  <1>2. Built(s, d) = built /\ CanBuild(s, from, through)
    BY Zenon DEF Built, CanPreview
  <1>3. p = [start |-> Max(before), end |-> Min(after) - 1]
    BY <1>2, Zenon DEF PeriodContaining, LatestUpTo, EarliestAfter
  <1>4. built \in SUBSET Int
    BY <1>1 DEF BoundaryDates
  <1> HIDE DEF from, through
  <1>5. ASSUME NEW y \in d - 46 .. d + 406
        PROVE  y \in built <=> Begins(s, y)
    <2>1. y \in from + MaxAdjustmentSteps .. through - MaxAdjustmentSteps
      BY <1>1
    <2> QED BY <1>1, <1>2, <2>1, BoundariesBegin
  <1> HIDE DEF built, p
  <1>6. /\ Max(before) \in before /\ \A b \in before : b <= Max(before)
        /\ x - 38 <= Max(before)
    <2>1. x - 38 \in Int
      BY <1>1
    <2>2. PICK b \in x - 38 .. (x - 38) + 38 : Begins(s, b)
      BY <2>1, BeginsAround, Zenon
    <2>3. b \in before /\ b \in Int
      BY <1>5, <2>2
    <2>4. before \in SUBSET Int /\ \A y \in before : y <= x
      BY <1>4, Zenon
    <2> HIDE DEF before
    <2>5. Max(before) \in before /\ \A y \in before : y <= Max(before)
      BY <1>1, <2>3, <2>4, GreatestOfDates
    <2>6. Max(before) \in Int
      BY <2>4, <2>5, Zenon
    <2>7. b <= Max(before)
      BY <2>3, <2>5
    <2> QED BY <1>1, <2>2, <2>5, <2>6, <2>7
  <1>7. /\ Min(after) \in after /\ \A b \in after : Min(after) <= b
        /\ Min(after) <= x + 39
    <2>1. x + 1 \in Int
      BY <1>1
    <2>2. PICK b \in x + 1 .. (x + 1) + 38 : Begins(s, b)
      BY <2>1, BeginsAround, Zenon
    <2>3. b \in after /\ b \in Int
      BY <1>5, <2>2
    <2>4. after \in SUBSET Int /\ \A y \in after : x <= y
      <3>1. \A y \in after : y \in Int /\ y > x
        BY <1>4, Zenon
      <3>2. \A y \in Int : y > x => x <= y
        BY <1>1
      <3> QED BY <3>1, <3>2, Zenon
    <2> HIDE DEF after
    <2>5. Min(after) \in after /\ \A y \in after : Min(after) <= y
      BY <1>1, <2>3, <2>4, LeastOfDates
    <2>6. Min(after) \in Int
      BY <2>4, <2>5, Zenon
    <2>7. Min(after) <= b
      BY <2>3, <2>5
    <2> QED BY <1>1, <2>2, <2>5, <2>6, <2>7
  <1> DEFINE start == Max(before)
             next == Min(after)
  <1>8. /\ start \in Int /\ next \in Int /\ start <= x /\ x < next
        /\ start \in built /\ next \in built
    <2>1. start \in built /\ start <= x /\ next \in built /\ next > x
      BY <1>6, <1>7, Zenon
    <2>2. start \in Int /\ next \in Int
      BY <1>4, <2>1, Zenon
    <2> HIDE DEF start, next
    <2> QED BY <1>1, <2>1, <2>2
  <1>9. \A y \in Int : start < y /\ y < next => y \notin built
    <2>1. SUFFICES ASSUME NEW y \in built, y \in Int, start < y, y < next PROVE FALSE
      BY Zenon
    <2>2. y \notin before
      BY <1>6, <1>8, <2>1
    <2>3. y \notin after
      BY <1>7, <1>8, <2>1
    <2> QED BY <1>1, <2>1, <2>2, <2>3
  <1>10. x - 38 <= start /\ next <= x + 39
    BY <1>6, <1>7
  <1> HIDE DEF start, next
  <1>11. p = [start |-> start, end |-> next - 1]
    BY <1>3, Zenon DEF start, next
  <1>12. p \in [start : Int, end : Int] /\ p.start = start /\ p.end = next - 1 /\ p.end + 1 = next
    BY <1>8, <1>11
  <1>13. start \in d - 46 .. d + 406 /\ next \in d - 46 .. d + 406
    BY <1>1, <1>8, <1>10
  <1>14. ASSUME NEW y \in p.start + 1 .. p.end PROVE ~Begins(s, y)
    <2>1. y \in d - 46 .. d + 406 /\ start < y /\ y < next /\ y \in Int
      BY <1>8, <1>12, <1>13
    <2> QED BY <1>5, <1>9, <2>1
  <1>15. Begins(s, start) /\ Begins(s, next)
    BY <1>5, <1>8, <1>13
  <1>16. IsPeriodAt(s, p, x) /\ p.end + 1 <= x + 39
    BY <1>1, <1>8, <1>10, <1>12, <1>14, <1>15 DEF IsPeriodAt
  <1> QED BY <1>16 DEF p

\* The period of a date, of a schedule that needs no horizon.
LEMMA PlainPeriod ==
  ASSUME NEW s, IsValidDefinition(s), s.cadence # "paycheck", NEW built, NEW x \in Int
  PROVE  IsPeriodAt(s, PeriodContaining(s, built, x), x)
  <1> DEFINE start == BoundaryAtOrBefore(s, x)
             next == NextBoundaryAfter(s, x)
             p == PeriodContaining(s, built, x)
  <1>1. p = [start |-> start, end |-> next - 1]
    BY Zenon DEF PeriodContaining, LatestUpTo, EarliestAfter
  <1>2. /\ start \in Int /\ next \in Int /\ start <= x /\ x < next
        /\ Begins(s, start) /\ Begins(s, next)
        /\ \A y \in start + 1 .. next - 1 : ~Begins(s, y)
    <2>1. CASE s.cadence = "weekly" /\ s.anchor \in Weekdays
      <3>1. \A y : Begins(s, y) <=> DayOfWeek(y) = s.anchor
        BY <2>1, Zenon DEF Begins
      <3> QED BY <2>1, <3>1, WeeklyPeriod, Zenon
    <2>2. CASE s.cadence = "monthly" /\ IsMonthlyAnchor(s.anchor)
      <3>1. \A y : Begins(s, y) <=> FallsOn(s.anchor, y)
        BY <2>2, Zenon DEF Begins
      <3> QED BY <2>2, <3>1, MonthlyPeriod, Zenon
    <2>3. CASE s.cadence = "custom-fixed-length" /\ s.startBoundary \in Int /\ s.lengthInDays \in 1 .. 366
      <3>1. \A y : Begins(s, y) <=> (y - s.startBoundary) % s.lengthInDays = 0
        BY <2>3, Zenon DEF Begins
      <3> QED BY <2>3, <3>1, FixedLengthPeriod, Zenon
    <2> QED BY <2>1, <2>2, <2>3, Zenon DEF IsValidDefinition
  <1> HIDE DEF start, next, p
  <1>3. p \in [start : Int, end : Int] /\ p.start = start /\ p.end = next - 1 /\ p.end + 1 = next
    BY <1>1, <1>2
  <1>4. x <= next - 1
    BY <1>2
  <1>5. IsPeriodAt(s, p, x)
    BY <1>2, <1>3, <1>4, Zenon DEF IsPeriodAt
  <1> QED BY <1>5 DEF p

\* The reference's beginnings of a span are the dates on which one begins.
LEMMA BeginningsAre ==
  ASSUME NEW s, IsValidDefinition(s), NEW from \in Int, NEW through \in Int
  PROVE  Beginnings(s, from, through) = {x \in from .. through : Begins(s, x)}
  <1>1. CASE s.cadence = "weekly"
    <2>1. Beginnings(s, from, through) = {x \in from .. through : DayOfWeek(x) = s.anchor}
      BY <1>1, Zenon DEF Beginnings
    <2>2. \A x : Begins(s, x) <=> DayOfWeek(x) = s.anchor
      BY <1>1, Zenon DEF Begins
    <2> QED BY <2>1, <2>2, Zenon
  <1>2. CASE s.cadence = "monthly"
    <2>1. Beginnings(s, from, through) = {x \in from .. through : FallsOn(s.anchor, x)}
      BY <1>2, Zenon DEF Beginnings
    <2>2. \A x : Begins(s, x) <=> FallsOn(s.anchor, x)
      BY <1>2, Zenon DEF Begins
    <2> QED BY <2>1, <2>2, Zenon
  <1>3. CASE s.cadence = "custom-fixed-length"
    <2>1. Beginnings(s, from, through) = {x \in from .. through : (x - s.startBoundary) % s.lengthInDays = 0}
      BY <1>3, Zenon DEF Beginnings
    <2>2. \A x : Begins(s, x) <=> (x - s.startBoundary) % s.lengthInDays = 0
      BY <1>3, Zenon DEF Begins
    <2> QED BY <2>1, <2>2, Zenon
  <1>4. CASE s.cadence = "paycheck"
    <2> DEFINE policy == s.businessDayPolicy
               wide == from - MaxAdjustmentSteps .. through + MaxAdjustmentSteps
               paydays == {x \in wide : IsPayday(s.pattern, x)}
    <2>1. Beginnings(s, from, through) =
             {AdjustToBusinessDay(a, policy) : a \in paydays} \cap (from .. through)
      BY <1>4, Zenon DEF Beginnings
    <2>2. \A x : Begins(s, x) <=> \E a \in x - MaxAdjustmentSteps .. x + MaxAdjustmentSteps :
             IsPayday(s.pattern, a) /\ AdjustToBusinessDay(a, policy) = x
      BY <1>4, Zenon DEF Begins
    <2>3. ASSUME NEW x \in from .. through, NEW a \in x - MaxAdjustmentSteps .. x + MaxAdjustmentSteps
          PROVE  a \in wide
      BY DEF MaxAdjustmentSteps
    <2>4. ASSUME NEW x \in from .. through, NEW a \in wide, AdjustToBusinessDay(a, policy) = x
          PROVE  a \in x - MaxAdjustmentSteps .. x + MaxAdjustmentSteps
      <3>1. a \in Int
        BY DEF MaxAdjustmentSteps
      <3> HIDE DEF policy
      <3>2. x \in a - 4 .. a + 4
        BY <2>4, <3>1, AdjustmentBounded
      <3> QED BY <3>1, <3>2 DEF MaxAdjustmentSteps
    <2> HIDE DEF wide, policy
    <2> QED BY <2>1, <2>2, <2>3, <2>4, Zenon
  <1> QED BY <1>1, <1>2, <1>3, <1>4, Zenon DEF IsValidDefinition

\* The period of the day after a period begins on that day.
LEMMA NextPeriod ==
  ASSUME NEW s, NEW x \in Int, NEW p, NEW q, IsPeriodAt(s, p, x), IsPeriodAt(s, q, p.end + 1)
  PROVE  q.start = p.end + 1
  BY DEF IsPeriodAt

\* A date lies in one period.
LEMMA SamePeriod ==
  ASSUME NEW s, NEW x \in Int, NEW y \in Int, NEW p, NEW q,
         IsPeriodAt(s, p, x), IsPeriodAt(s, q, y), p.start <= y, y <= p.end
  PROVE  q = p
  <1>1. p.start \in Int /\ p.end \in Int /\ q.start \in Int /\ q.end \in Int
    BY DEF IsPeriodAt
  <1>2. q.start = p.start
    <2>1. ~(q.start < p.start)
      BY <1>1 DEF IsPeriodAt
    <2>2. ~(p.start < q.start)
      BY <1>1 DEF IsPeriodAt
    <2> QED BY <1>1, <2>1, <2>2
  <1>3. q.end = p.end
    <2>1. ~(q.end < p.end)
      <3>1. SUFFICES ASSUME q.end < p.end PROVE FALSE
        OBVIOUS
      <3>2. q.end + 1 \in p.start + 1 .. p.end
        BY <1>1, <1>2, <3>1 DEF IsPeriodAt
      <3> QED BY <3>2 DEF IsPeriodAt
    <2>2. ~(p.end < q.end)
      <3>1. SUFFICES ASSUME p.end < q.end PROVE FALSE
        OBVIOUS
      <3>2. p.end + 1 \in q.start + 1 .. q.end
        BY <1>1, <1>2, <3>1 DEF IsPeriodAt
      <3> QED BY <3>2 DEF IsPeriodAt
    <2> QED BY <1>1, <2>1, <2>2
  <1> QED BY <1>2, <1>3 DEF IsPeriodAt

\* A preview is four periods of the schedule in a row, and the first contains
\* the date.
IsPreviewAt(s, rows, d) ==
    /\ rows = <<rows[1], rows[2], rows[3], rows[4]>>
    /\ IsPeriodAt(s, rows[1], d)
    /\ IsPeriodAt(s, rows[2], rows[1].end + 1)
    /\ IsPeriodAt(s, rows[3], rows[2].end + 1)
    /\ IsPeriodAt(s, rows[4], rows[3].end + 1)

\* A preview that is answered is the date's period and the three after it,
\* for every schedule that is accepted and every date (setupPreview).
THEOREM PreviewPeriods ==
  ASSUME NEW s, IsValidDefinition(s), NEW d \in Int, CanPreview(s, d)
  PROVE  IsPreviewAt(s, SchedulePreview(s, d), d)
  <1> DEFINE built == Built(s, d)
             p1 == PeriodContaining(s, built, d)
             p2 == PeriodContaining(s, built, p1.end + 1)
             p3 == PeriodContaining(s, built, p2.end + 1)
             p4 == PeriodContaining(s, built, p3.end + 1)
  <1>1. SchedulePreview(s, d) = <<p1, p2, p3, p4>>
    BY Zenon DEF SchedulePreview, PeriodAfter
  <1>2. /\ IsPeriodAt(s, p1, d) /\ IsPeriodAt(s, p2, p1.end + 1)
        /\ IsPeriodAt(s, p3, p2.end + 1) /\ IsPeriodAt(s, p4, p3.end + 1)
    <2>1. CASE s.cadence = "paycheck"
      <3>1. ASSUME NEW x \in d .. d + 300
            PROVE  /\ IsPeriodAt(s, PeriodContaining(s, built, x), x)
                   /\ PeriodContaining(s, built, x).end + 1 <= x + 39
        BY <2>1, PaycheckPeriod, Zenon
      <3>2. ASSUME NEW x \in Int, NEW p, IsPeriodAt(s, p, x)
            PROVE  p.end + 1 \in Int /\ x <= p.end + 1
        BY <3>2 DEF IsPeriodAt
      <3> HIDE DEF built
      <3>3. d \in d .. d + 300
        OBVIOUS
      <3>4. IsPeriodAt(s, p1, d) /\ p1.end + 1 \in d .. d + 39
        BY <3>1, <3>2, <3>3
      <3> HIDE DEF p1
      <3>5. p1.end + 1 \in d .. d + 300 /\ p1.end + 1 \in Int
        BY <3>4
      <3>6. IsPeriodAt(s, p2, p1.end + 1) /\ p2.end + 1 \in d .. d + 78
        BY <3>1, <3>2, <3>4, <3>5
      <3> HIDE DEF p2
      <3>7. p2.end + 1 \in d .. d + 300 /\ p2.end + 1 \in Int
        BY <3>6
      <3>8. IsPeriodAt(s, p3, p2.end + 1) /\ p3.end + 1 \in d .. d + 117
        BY <3>1, <3>2, <3>6, <3>7
      <3> HIDE DEF p3
      <3>9. p3.end + 1 \in d .. d + 300
        BY <3>8
      <3> QED BY <3>1, <3>4, <3>6, <3>8, <3>9
    <2>2. CASE s.cadence # "paycheck"
      <3>1. ASSUME NEW x \in Int
            PROVE  IsPeriodAt(s, PeriodContaining(s, built, x), x)
        BY <2>2, PlainPeriod, Zenon
      <3>2. ASSUME NEW x \in Int, NEW p, IsPeriodAt(s, p, x)
            PROVE  p.end + 1 \in Int
        BY <3>2 DEF IsPeriodAt
      <3> QED BY <3>1, <3>2, Zenon
    <2> QED BY <2>1, <2>2
  <1> HIDE DEF p1, p2, p3, p4
  <1>3. \A rows : rows = <<p1, p2, p3, p4>> =>
           rows[1] = p1 /\ rows[2] = p2 /\ rows[3] = p3 /\ rows[4] = p4
    OBVIOUS
  <1> QED BY <1>1, <1>2, <1>3, Zenon DEF IsPreviewAt

\* Consecutive periods that begin where a schedule says, and nowhere else.
Follows(s, rows) ==
    /\ \A i \in 1 .. Len(rows) - 1 : rows[i + 1].start = rows[i].end + 1
    /\ Beginnings(s, rows[1].start, rows[Len(rows)].end + 1) =
          {rows[i].start : i \in DOMAIN rows} \cup {rows[Len(rows)].end + 1}

\* What is previewed is what the reference says: the rows follow one another
\* and begin where the schedule says, and nowhere else.
THEOREM PreviewFollows ==
  ASSUME NEW s, IsValidDefinition(s), NEW rows, NEW d \in Int, IsPreviewAt(s, rows, d)
  PROVE  /\ Follows(s, rows) /\ DOMAIN rows = 1 .. 4 /\ Len(rows) = 4
         /\ rows \in [1 .. 4 -> [start : Int, end : Int]]
  <1> DEFINE p1 == rows[1]
             p2 == rows[2]
             p3 == rows[3]
             p4 == rows[4]
  <1>1. /\ IsPeriodAt(s, p1, d) /\ IsPeriodAt(s, p2, p1.end + 1)
        /\ IsPeriodAt(s, p3, p2.end + 1) /\ IsPeriodAt(s, p4, p3.end + 1)
        /\ rows = <<p1, p2, p3, p4>>
    BY Zenon DEF IsPreviewAt
  <1>2. /\ p1 \in [start : Int, end : Int] /\ p2 \in [start : Int, end : Int]
        /\ p3 \in [start : Int, end : Int] /\ p4 \in [start : Int, end : Int]
    BY <1>1, Zenon DEF IsPeriodAt
  <1>3. /\ p1.start \in Int /\ p1.end \in Int /\ p2.start \in Int /\ p2.end \in Int
        /\ p3.start \in Int /\ p3.end \in Int /\ p4.start \in Int /\ p4.end \in Int
    BY <1>2
  <1>4. p2.start = p1.end + 1 /\ p3.start = p2.end + 1 /\ p4.start = p3.end + 1
    <2>1. p1.end + 1 \in Int /\ p2.end + 1 \in Int
      BY <1>3
    <2>2. p2.start = p1.end + 1
      BY <1>1, NextPeriod
    <2>3. p3.start = p2.end + 1
      BY <1>1, <2>1, NextPeriod
    <2>4. p4.start = p3.end + 1
      BY <1>1, <2>1, NextPeriod
    <2> QED BY <2>2, <2>3, <2>4
  <1>5. DOMAIN rows = 1 .. 4 /\ Len(rows) = 4 /\ rows \in [1 .. 4 -> [start : Int, end : Int]]
    <2> HIDE DEF p1, p2, p3, p4
    <2> QED BY <1>1, <1>2
  <1>6. \A i \in 1 .. Len(rows) - 1 : rows[i + 1].start = rows[i].end + 1
    <2>1. \A i \in 1 .. 3 : i = 1 \/ i = 2 \/ i = 3
      OBVIOUS
    <2>2. Len(rows) - 1 = 3 /\ 1 + 1 = 2 /\ 2 + 1 = 3 /\ 3 + 1 = 4
      BY <1>5
    <2> QED BY <1>4, <2>1, <2>2, Zenon
  <1>7. {rows[i].start : i \in DOMAIN rows} \cup {rows[Len(rows)].end + 1}
           = {p1.start, p2.start, p3.start, p4.start, p4.end + 1}
    <2>1. \A i : i \in 1 .. 4 <=> i = 1 \/ i = 2 \/ i = 3 \/ i = 4
      OBVIOUS
    <2> QED BY <1>5, <2>1, Zenon
  <1>8. Beginnings(s, p1.start, p4.end + 1) = {x \in p1.start .. p4.end + 1 : Begins(s, x)}
    BY <1>3, BeginningsAre
  <1>9. ASSUME NEW x \in p1.start .. p4.end + 1
        PROVE  Begins(s, x) <=> x \in {p1.start, p2.start, p3.start, p4.start, p4.end + 1}
    <2>1. /\ \A y \in p1.start + 1 .. p1.end : ~Begins(s, y)
          /\ \A y \in p2.start + 1 .. p2.end : ~Begins(s, y)
          /\ \A y \in p3.start + 1 .. p3.end : ~Begins(s, y)
          /\ \A y \in p4.start + 1 .. p4.end : ~Begins(s, y)
          /\ Begins(s, p1.start) /\ Begins(s, p2.start) /\ Begins(s, p3.start)
          /\ Begins(s, p4.start) /\ Begins(s, p4.end + 1)
      BY <1>1, Zenon DEF IsPeriodAt
    <2> HIDE DEF p1, p2, p3, p4
    <2> QED BY <1>3, <1>4, <2>1
  <1>10. {p1.start, p2.start, p3.start, p4.start, p4.end + 1} \subseteq p1.start .. p4.end + 1
    <2>1. p1.start <= p1.end + 1 /\ p2.start <= p2.end + 1 /\ p3.start <= p3.end + 1 /\ p4.start <= p4.end + 1
      <3>1. ASSUME NEW x \in Int, NEW p, IsPeriodAt(s, p, x) PROVE p.start <= p.end + 1
        BY <3>1 DEF IsPeriodAt
      <3>2. p1.end + 1 \in Int /\ p2.end + 1 \in Int /\ p3.end + 1 \in Int
        BY <1>3
      <3> QED BY <1>1, <3>1, <3>2, Zenon
    <2> HIDE DEF p1, p2, p3, p4
    <2> QED BY <1>3, <1>4, <2>1
  <1>11. Beginnings(s, p1.start, p4.end + 1) = {p1.start, p2.start, p3.start, p4.start, p4.end + 1}
    BY <1>8, <1>9, <1>10, Zenon
  <1> QED BY <1>5, <1>6, <1>7, <1>11, Zenon DEF Follows

\* What the detail route computes from the start of a stored period continues
\* that period.
THEOREM PreviewContinues ==
  ASSUME NEW s, IsValidDefinition(s), NEW x \in Int, NEW p, IsPeriodAt(s, p, x), CanPreview(s, p.start)
  PROVE  Follows(s, <<p>> \o SubSeq(SchedulePreview(s, p.start), 2, 4))
  <1> DEFINE rows == SchedulePreview(s, p.start)
  <1>1. p.start \in Int /\ p.end \in Int /\ p.start <= p.end
    BY DEF IsPeriodAt
  <1>2. IsPreviewAt(s, rows, p.start)
    BY <1>1, PreviewPeriods
  <1> HIDE DEF rows
  <1>3. IsPeriodAt(s, rows[1], p.start) /\ rows = <<rows[1], rows[2], rows[3], rows[4]>>
    BY <1>2, Zenon DEF IsPreviewAt
  <1>4. rows[1] = p
    BY <1>1, <1>3, SamePeriod
  <1> DEFINE S == [start : Int, end : Int]
             detail == <<p>> \o SubSeq(rows, 2, 4)
  <1>5. rows \in [1 .. 4 -> S] /\ Len(rows) = 4 /\ rows \in Seq(S) /\ p \in S
    <2>1. rows \in [1 .. 4 -> S] /\ Len(rows) = 4
      BY <1>1, <1>2, PreviewFollows
    <2>2. p \in S
      BY DEF IsPeriodAt
    <2> HIDE DEF S
    <2> DEFINE p1 == rows[1]
               p2 == rows[2]
               p3 == rows[3]
               p4 == rows[4]
    <2>3. p1 \in S /\ p2 \in S /\ p3 \in S /\ p4 \in S
      BY <2>1
    <2>4. rows = <<p1, p2, p3, p4>>
      BY <1>3
    <2> HIDE DEF p1, p2, p3, p4
    <2>5. <<p1, p2, p3, p4>> \in Seq(S)
      BY <2>3
    <2>6. rows \in Seq(S)
      BY <2>4, <2>5, Zenon
    <2> QED BY <2>1, <2>2, <2>6
  <1> HIDE DEF S
  <1>6. detail = rows
    <2>1. /\ SubSeq(rows, 2, 4) \in Seq(S) /\ Len(SubSeq(rows, 2, 4)) = 3
          /\ \A i \in 1 .. 3 : SubSeq(rows, 2, 4)[i] = rows[i + 1]
      BY <1>5
    <2>2. <<p>> \in Seq(S) /\ Len(<<p>>) = 1 /\ <<p>>[1] = p
      BY <1>5
    <2>3. detail \in Seq(S) /\ Len(detail) = 4 /\ \A i \in 1 .. 4 : detail[i] = rows[i]
      BY <1>4, <2>1, <2>2
    <2> HIDE DEF detail
    <2> QED BY <1>5, <2>3
  <1>7. Follows(s, rows)
    BY <1>1, <1>2, PreviewFollows
  <1> QED BY <1>6, <1>7, Zenon DEF detail, rows
=============================================================================
