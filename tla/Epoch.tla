------------------------------- MODULE Epoch -------------------------------
(***************************************************************************)
(* EFI_TIME.GetEpoch of uefi/clock.go, with daysSinceEpoch, isLeap and the *)
(* table daysBefore, against the lengths of the calendar's years and       *)
(* months.  Days only: the seconds of the day are added to them as they    *)
(* are.                                                                    *)
(***************************************************************************)
EXTENDS Integers, FiniteSets

CONSTANTS
  ZeroYear,     \* absoluteZeroYear (-292277022399), any year that is 1 mod 400
  LastYear      \* bound: dates from 1970 to the end of this year

ASSUME EpochAssumptions ==
  /\ ZeroYear \in Int /\ ZeroYear <= 1970 /\ ZeroYear % 400 = 1
  /\ LastYear \in Nat

VARIABLE year   \* of the EFI_TIME that the firmware returned

(***************************************************************************)
(* The code                                                                *)
(***************************************************************************)
daysPer400Years == 365 * 400 + 97
daysPer100Years == 365 * 100 + 24
daysPer4Years == 365 * 4 + 1

\* 400-year, 100-year and 4-year cycles since ZeroYear, and the years that are left.
daysSinceEpoch(y) ==
  LET n == y - ZeroYear IN
  daysPer400Years * (n \div 400) + daysPer100Years * ((n % 400) \div 100)
  + daysPer4Years * ((n % 100) \div 4) + 365 * (n % 4)

\* Mutant: no 400-year rule.
isLeap_Century(y) == y % 4 = 0 /\ y % 100 # 0

isLeap(y) == y % 4 = 0 /\ (y % 100 # 0 \/ y % 400 = 0)

\* Indexed from 0, as in the code.
daysBefore ==
  [m \in 0..12 |-> <<0, 31, 59, 90, 120, 151, 181, 212, 243, 273, 304, 334, 365>>[m + 1]]

\* absoluteToInternal + internalToUnix, in days.
toUnix ==
  ((ZeroYear - 1) \div 400) * daysPer400Years
  - (1969 * 365 + 1969 \div 4 - 1969 \div 100 + 1969 \div 400)

\* The days that GetEpoch adds up for its variable month, as a Unix day.
daysTo(y, month, day) ==
  daysSinceEpoch(y) + daysBefore[month - 1] + (IF isLeap(y) /\ month >= 3 THEN 1 ELSE 0)
    + day - 1 + toUnix

\* month := int(t.Month) - 1, and then daysBefore[month-1]: out of range in January.
Panics(m) == m - 1 - 1 \notin DOMAIN daysBefore
GetEpoch(y, m, day) == daysTo(y, m - 1, day)

(***************************************************************************)
(* The calendar (external)                                                 *)
(***************************************************************************)
LeapYear(y) == IF y % 100 = 0 THEN y % 400 = 0 ELSE y % 4 = 0
MonthLength(y, m) ==
  IF m = 2 THEN (IF LeapYear(y) THEN 29 ELSE 28) ELSE IF m \in {4, 6, 9, 11} THEN 30 ELSE 31

Years == 1970..LastYear

\* Days from 1 January 1970 to that of each year, and to the first of a month: the leap
\* years, and the dates of the year, that come before.
YearStart ==
  [y \in Years |-> 365 * (y - 1970) + Cardinality({l \in 1970..y - 1 : LeapYear(l)})]

DatesBefore(y, m) == {d \in (1..m - 1) \X (1..31) : d[2] <= MonthLength(y, d[1])}

MonthStart(y, m) == YearStart[y] + Cardinality(DatesBefore(y, m))
-----------------------------------------------------------------------------
\* The sum of GetEpoch is the number of days from 1 January 1970, exactly, for every date
\* of the leap cycle whose month is counted from 1: daysSinceEpoch with the two offsets to
\* Unix time counts the leap years, and the table, its index and the leap day agree.
\* (GetEpoch has subtracted 1 from its month by then: see EpochExact.)
DaysExact ==
  \A m \in 1..12 :
    LET start == MonthStart(year, m) IN
    \A d \in 1..MonthLength(year, m) : daysTo(year, m, d) = start + d - 1

-----------------------------------------------------------------------------
\* What the repository says and the code does not do, as the run epoch shows.

\* "Add in days before this month." (clock.go:69), from a table that "counts the number of
\* days in a non-leap year before month m begins" (clock.go:113): GetEpoch is the number of
\* days to the date.  It is that of a month earlier, and an index out of range in January.
EpochExact ==
  \A m \in 1..12 :
    ~Panics(m) /\ \A d \in 1..MonthLength(year, m) :
                    GetEpoch(year, m, d) = MonthStart(year, m) + d - 1
=============================================================================
