------------------------------- MODULE Calendar --------------------------------
(***************************************************************************)
(* Dates and instants as Go's time package counts them, all in UTC.  A     *)
(* date is the number of its month, counted from January of year 0, and a  *)
(* day of that month; an instant is a second of a date.                    *)
(***************************************************************************)
EXTENDS Integers

Leap(year) == year % 4 = 0 /\ (year % 100 # 0 \/ year % 400 = 0)

DaysIn(m) ==
    IF m % 12 = 1 THEN IF Leap(m \div 12) THEN 29 ELSE 28
    ELSE IF m % 12 \in {3, 5, 8, 10} THEN 30 ELSE 31

Date == {d \in [month: Nat, day: 1..31] : d.day <= DaysIn(d.month)}

Before(d, e) == d.month < e.month \/ (d.month = e.month /\ d.day < e.day)

DaySeconds == 86400
Instant == [date: Date, second: 0..(DaySeconds - 1)]

Earlier(s, t) == Before(s.date, t.date) \/ (s.date = t.date /\ s.second < t.second)

\* A date read where an instant is wanted.
Midnight(d) == [date |-> d, second |-> 0]

\* AddDate(0, n, 0) on the date: the same day of a later month; a day that month
\* does not have is counted on into the month after it.
AddMonths(d, n) ==
    LET m == d.month + n
    IN  IF d.day <= DaysIn(m)
        THEN [month |-> m, day |-> d.day]
        ELSE [month |-> m + 1, day |-> d.day - DaysIn(m)]

-----------------------------------------------------------------------------
\* The reference: days counted from the beginning of year 0.
DaysBefore(m) ==
    LET y == m \div 12
        k == m % 12
    IN  365 * y + (y + 3) \div 4 - (y + 99) \div 100 + (y + 399) \div 400
        + <<0, 31, 59, 90, 120, 151, 181, 212, 243, 273, 304, 334>>[k + 1]
        + IF k >= 2 /\ Leap(y) THEN 1 ELSE 0
DayNumber(d) == DaysBefore(d.month) + d.day
=============================================================================
