----------------------------- MODULE Recurrence ------------------------------
(***************************************************************************)
(* Periodic definitions (services/recurrence.py): the months a recurring   *)
(* income or a planned expense falls in, and the day it falls on.          *)
(*                                                                         *)
(* A month is 12 * year + month - 1, and a date 100 * month + day, so that *)
(* both are compared as numbers.                                           *)
(***************************************************************************)
EXTENDS Integers

NoDate == 0

Date(y, m, d) == 100 * (12 * y + m - 1) + d
MonthOf(date) == date \div 100
YearOf(t) == t \div 12
MonthNo(t) == (t % 12) + 1

LeapYear(y) == y % 4 = 0 /\ (y % 100 # 0 \/ y % 400 = 0)

\* calendar.monthrange
MonthLength(t) ==
  IF MonthNo(t) = 2 THEN IF LeapYear(YearOf(t)) THEN 29 ELSE 28
  ELSE IF MonthNo(t) \in {4, 6, 9, 11} THEN 30 ELSE 31

FirstDay(t) == 100 * t + 1
LastDay(t) == 100 * t + MonthLength(t)

\* A date of the calendar.
IsDate(date) ==
  date \in Int /\ FirstDay(MonthOf(date)) <= date /\ date <= LastDay(MonthOf(date))

Recurrences == {"one_time", "monthly", "quarterly", "biannual", "yearly", "custom"}

\* The months of a recurrence, `since' months after that of the start.
Recurs(d, t) ==
  LET since == t - MonthOf(d.start)
      asked == [one_time  |-> since = 0,
                monthly   |-> since >= 0,
                quarterly |-> since >= 0 /\ since % 3 = 0,
                biannual  |-> since >= 0 /\ since % 6 = 0,
                yearly    |-> MonthNo(t) = MonthNo(MonthOf(d.start)) /\ YearOf(MonthOf(d.start)) <= YearOf(t),
                custom    |-> MonthNo(t) \in d.months /\ YearOf(MonthOf(d.start)) <= YearOf(t)]
  IN  asked[d.recurrence]

\* applies_in_month
AppliesIn(d, t) ==
  /\ d.start <= LastDay(t)
  /\ d.end # NoDate => d.end >= FirstDay(t)
  /\ Recurs(d, t)

\* date_for_period: the last day of a month that is too short.
DateFor(d, t) == 100 * t + IF d.day <= MonthLength(t) THEN d.day ELSE MonthLength(t)

\* iter_due_periods: from the month of the start to that of today, the periods whose
\* day has come.
DuePeriods(d, today) ==
  {t \in MonthOf(d.start) .. MonthOf(today) : AppliesIn(d, t) /\ DateFor(d, t) <= today}

\* _add_months of the planned expenses: the end of a monthly one that has a count.
AddMonths(date, n) ==
  LET t == MonthOf(date) + n
      day == date % 100
  IN  100 * t + IF day <= MonthLength(t) THEN day ELSE MonthLength(t)

\* _installment_applies_in_month of the cash flow: from the first slice to come of an
\* instalment plan, one a month.
InstallmentApplies(q, t) == q.left > 0 /\ q.first <= t /\ t <= q.first + q.left - 1
=============================================================================
