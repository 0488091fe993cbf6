--------------------------- MODULE MCVehicleHistory ----------------------------
\* A small instance of VehicleHistory: moments around the end of a leap February.
EXTENDS VehicleHistory, TLC

YearMonthDay(y, m, d) == [month |-> 12 * y + m - 1, day |-> d]
At(date, hour, minute, second) ==
    [date |-> date, second |-> 3600 * hour + 60 * minute + second]

\* Two months after the last of December 2027 is the second of March 2028.
MCLastDay == YearMonthDay(2028, 3, 2)
MCInstants == <<At(YearMonthDay(2027, 12, 31), 10, 0, 0), At(MCLastDay, 10, 0, 0)>>
MCAskedDates == {MCLastDay}
MCAskedInstants == {At(MCLastDay, 9, 59, 59)}

WriterSymmetry == Permutations(Writers)
=============================================================================
