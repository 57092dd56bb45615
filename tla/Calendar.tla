-------------------------------- MODULE Calendar --------------------------------
(***************************************************************************)
(* The dates of the scripts on the pages.  A date is the number of its day *)
(* since 1 January 1970 and months are counted from 0, as ECMAScript's     *)
(* Date does for UTC; a day or a month outside its range runs over into    *)
(* the months around it.                                                   *)
(***************************************************************************)
EXTENDS Integers

isLeapYear(y) == (y % 4 = 0 /\ y % 100 # 0) \/ y % 400 = 0

getDaysInMonth(y, m) ==
    <<31, IF isLeapYear(y) THEN 29 ELSE 28, 31, 30, 31, 30, 31, 31, 30, 31, 30, 31>>[m + 1]

YearStart(y) ==
    365 * (y - 1970) + (y - 1969) \div 4 - (y - 1901) \div 100 + (y - 1601) \div 400

MonthStart(y, m) ==
    YearStart(y) + <<0, 31, 59, 90, 120, 151, 181, 212, 243, 273, 304, 334>>[m + 1]
                 + IF m > 1 /\ isLeapYear(y) THEN 1 ELSE 0

\* The year, and the month, whose first day is the last not after n.
Year(n)  == LET y == 1970 + (400 * n) \div 146097
            IN  IF n < YearStart(y) THEN y - 1 ELSE IF YearStart(y + 1) <= n THEN y + 1 ELSE y
Month(n) == LET y == Year(n)
                m == (n - YearStart(y)) \div 31
            IN  IF m < 11 /\ MonthStart(y, m + 1) <= n THEN m + 1 ELSE m
Day(n)   == n - MonthStart(Year(n), Month(n)) + 1
WeekDay(n) == (n + 4) % 7

UTCDate(y, m, d) == MonthStart(y + m \div 12, m % 12) + d - 1

\* dir months on (or back): the same day of that month, its last day where it has no such day.
moveMonth(n, dir) ==
    LET first == UTCDate(Year(n), Month(n) + dir, 1)
        last  == getDaysInMonth(Year(first), Month(first))
    IN  IF dir = 0 THEN n ELSE first + (IF Day(n) < last THEN Day(n) ELSE last) - 1
================================================================================
