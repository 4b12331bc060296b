-------------------------- MODULE BusinessCalendar --------------------------
(***************************************************************************)
(* The dates of the dashboard: what it accepts as a date or a month, where *)
(* a month ends, and when a day of Shanghai begins.  A date is a tuple     *)
(* <<year, month, day>>, a month <<year, month>>; "YYYY-MM-DD" texts sort  *)
(* as these tuples do.                                                     *)
(***************************************************************************)
EXTENDS Integers

IsLeap(y) == y % 4 = 0 /\ (y % 100 # 0 \/ y % 400 = 0)

DaysIn(y, m) ==
  IF m = 2 THEN (IF IsLeap(y) THEN 29 ELSE 28)
  ELSE IF m \in {4, 6, 9, 11} THEN 30 ELSE 31

(* The round trip through Date.UTC keeps the dates of the calendar and     *)
(* nothing else; years below 100 do not survive it, see UtcYear.           *)
IsValidDate(date) ==
  date[1] >= 100 /\ date[2] \in 1..12 /\ date[3] \in 1..DaysIn(date[1], date[2])

IsValidMonth(month) == month[2] \in 1..12

(* Date.UTC takes a year below 100 for one of the twentieth century.       *)
UtcYear(y) == IF y < 100 THEN 1900 + y ELSE y

(* Mutant: December is followed by the January of the same year.           *)
MonthRangeSameYear(month) ==
  << <<month[1], month[2], 1>>, <<UtcYear(month[1]), (month[2] % 12) + 1, 1>> >>

(* getMonthDateRange: the first day of the month, and of the one after it. *)
MonthRange(month) ==
  << <<month[1], month[2], 1>>,
     IF month[2] = 12 THEN <<UtcYear(month[1]) + 1, 1, 1>>
     ELSE <<UtcYear(month[1]), month[2] + 1, 1>> >>

Before(d, e) ==
  \/ d[1] < e[1]
  \/ d[1] = e[1] /\ d[2] < e[2]
  \/ d[1] = e[1] /\ d[2] = e[2] /\ d[3] < e[3]

NextDate(date) ==
  IF date[3] < DaysIn(date[1], date[2]) THEN <<date[1], date[2], date[3] + 1>>
  ELSE IF date[2] < 12 THEN <<date[1], date[2] + 1, 1>>
  ELSE <<date[1] + 1, 1, 1>>

(* The days from 1 January of the year 1 to a date.                        *)
DaysBeforeMonth == <<0, 31, 59, 90, 120, 151, 181, 212, 243, 273, 304, 334>>

DayNumber(date) ==
  LET y == date[1] - 1 IN
  365 * y + (y \div 4) - (y \div 100) + (y \div 400)
  + DaysBeforeMonth[date[2]] + (IF date[2] > 2 /\ IsLeap(date[1]) THEN 1 ELSE 0) + date[3] - 1

(* getShanghaiDayStartIso, getNextShanghaiDayStartIso: the instants at     *)
(* which a date and the one after it begin, counted from the beginning of  *)
(* origin, a day having length instants.                                   *)
DayStart(origin, length, date) == (DayNumber(date) - DayNumber(origin)) * length
NextDayStart(origin, length, date) == DayStart(origin, length, date) + length
=============================================================================
