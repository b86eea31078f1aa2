----------------------------- MODULE Calendar -----------------------------
(***************************************************************************)
(* The dates of JavaScript, as the seed and the reports of RentFlowAPI use *)
(* them.  A date is the number of days since 1 January of year 0, a leap   *)
(* year of the calendar (2020); a month is 12 * year + 0..11.  The time of *)
(* day is left out, but no time is midnight: it is a few hours past the    *)
(* start of the day that `new Date(year, month, day)' builds.              *)
(***************************************************************************)
EXTENDS Integers

CONSTANT Null \* null: no date, no value

Leap(year) == year % 4 = 0

\* The first day of a month.
FirstDay(n) ==
    LET year == n \div 12
        daysBefore == <<0, 31, 59, 90, 120, 151, 181, 212, 243, 273, 304, 334>>
    IN  365 * year + (year + 3) \div 4 + daysBefore[(n % 12) + 1]
          + (IF Leap(year) /\ n % 12 >= 2 THEN 1 ELSE 0)

DaysIn(n) == FirstDay(n + 1) - FirstDay(n)

MonthOf(date) ==
    CHOOSE n \in ((12 * date) \div 366 - 1)..((12 * date) \div 365 + 1) :
      FirstDay(n) <= date /\ date < FirstDay(n + 1)
DayOf(date) == date - FirstDay(MonthOf(date)) + 1

\* new Date(year, month, day): day 0 is the last day of the month before, and
\* a day past the end of the month falls in the month that follows.
DateOf(n, day) == FirstDay(n) + day - 1

\* date.setMonth(...) keeps the day, date.setDate(...) the month.
SetMonth(date, n) == DateOf(n, DayOf(date))
SetDate(date, day) == DateOf(MonthOf(date), day)

January(date) == 12 * (MonthOf(date) \div 12)
===========================================================================
