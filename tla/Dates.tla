-------------------------------- MODULE Dates --------------------------------
(***************************************************************************)
(* The date arithmetic of src/smart_device_svr.lua beside the calendar that*)
(* os.date() follows: the calendar goes from day to day, and every function*)
(* is asked about the day it has come to.                                  *)
(***************************************************************************)
EXTENDS Integers, FiniteSets, FiniteSetsExt

CONSTANT LastYear  \* bound: the calendar ends with this year

ASSUME LastYearAssumption == LastYear \in 2000 .. 2099

VARIABLES
  today,  \* os.date("*t"): year, month, day
  wday    \* its day of the week; 0 is Sunday

vars == <<today, wday>>

-----------------------------------------------------------------------------
(* The calendar *)

Leap(year) == year % 4 = 0 /\ (year % 100 # 0 \/ year % 400 = 0)
DaysIn(month, year) ==
  IF month = 2 THEN IF Leap(year) THEN 29 ELSE 28
  ELSE IF month \in {4, 6, 9, 11} THEN 30 ELSE 31

Date(year, month, day) == [year |-> year, month |-> month, day |-> day]

\* 1 January 2000 was a Saturday.
Init == today = Date(2000, 1, 1) /\ wday = 6

NextDay ==
  LET y == today.year
      m == today.month
  IN  /\ ~(y = LastYear /\ m = 12 /\ today.day = 31)
      /\ today' = IF today.day < DaysIn(m, y) THEN Date(y, m, today.day + 1)
                  ELSE IF m < 12 THEN Date(y, m + 1, 1)
                  ELSE Date(y + 1, 1, 1)
      /\ wday' = (wday + 1) % 7

Spec == Init /\ [][NextDay]_vars

-----------------------------------------------------------------------------
(* The functions *)

isLeapYear(year) ==
  IF year % 400 = 0 THEN TRUE ELSE IF year % 100 = 0 THEN FALSE ELSE year % 4 = 0

days_in_month_of(month, year) ==
  LET leap_year == IF isLeapYear(year) THEN 1 ELSE 0
  IN  <<31, 28 + leap_year, 31, 30, 31, 30, 31, 31, 30, 31, 30, 31>>[month]

\* Mutant: January and February counted to the year they are in.
calculate_dow_from_date_same_year(date) ==
  LET Y == date.year - 2000
      M == IF date.month < 3 THEN date.month + 10 ELSE date.month - 2
  IN  (date.day + (13 * M - 1) \div 5 - 2 * 20 + Y + Y \div 4 + 20 \div 4) % 7

\* Zeller's congruence; math.floor(2.6*M - 0.2) is (13 * M - 1) \div 5.
calculate_dow_from_date(date) ==
  LET Y == (IF date.month < 3 THEN date.year - 1 ELSE date.year) - 2000
      M == IF date.month < 3 THEN date.month + 10 ELSE date.month - 2
  IN  (date.day + (13 * M - 1) \div 5 - 2 * 20 + Y + Y \div 4 + 20 \div 4) % 7

\* What its callers pass for nth: a number, or words that have a number as well.
Nth(n) == [num |-> n, words |-> ""]
Last == [num |-> 5, words |-> "last"]
SecondToLast == [num |-> 4, words |-> "2nd to last"]

\* No day at all: nil for "last", and an error for "2nd to last", which goes a
\* week back from it.
NoDay == -1

\* A number that the month has no such weekday for gives day 0.
date_of_the_nth_wday_of_m(nth, dow, month) ==
  LET year == IF today.month > month THEN today.year + 1 ELSE today.year
      day == IF dow = 0 THEN 7 ELSE dow
      occurrences ==
        {i \in 1 .. days_in_month_of(month, year) :
           calculate_dow_from_date(Date(year, month, i)) = day}
      found == {i \in occurrences : Cardinality({j \in occurrences : j <= i}) = nth.num}
  IN  Date(year, month,
           IF nth.words = "" THEN IF found = {} THEN 0 ELSE Max(found)
           ELSE IF occurrences = {} THEN NoDay
           ELSE IF nth = Last THEN Max(occurrences) ELSE Max(occurrences) - 7)

\* How many days from today date_of_next_dow() goes: os.date()'s wday is 1 on
\* Sundays.
date_of_next_dow(dow, occurrence) ==
  LET target == IF dow = 0 THEN 7 ELSE dow
      first == CHOOSE n \in 1 .. 7 : ((wday + n) % 7) + 1 = target
  IN  first + 7 * (occurrence - 1)

\* Mutant: os.date()'s wday taken for a number from 0.
weekday_pattern_from_0(dow) == ((dow + 7 - wday - 1) % 7) + 2

\* And the pattern of a weekday's name in variant_date_parser().
weekday_pattern(dow) == ((dow + 7 - (wday + 1) - 1) % 7) + 2

-----------------------------------------------------------------------------
(* Properties *)

\* The calendar shows dates.
TypeOK ==
  /\ today \in [year : 2000 .. LastYear, month : 1 .. 12, day : 1 .. 31]
  /\ today.day <= DaysIn(today.month, today.year)
  /\ wday \in 0 .. 6

\* calculate_dow_from_date()'s comment: it "works for years between 2000 and
\* 2100".  It counts on as the calendar does, over ends of months, leap days
\* and ends of years.
DowCounts == calculate_dow_from_date(today) = wday

\* "sunday = 0" (the comment of calculate_dow_from_date()), as in the table its
\* callers look a name up in: date_of_the_nth_wday_of_m() finds every day of the
\* week under the number it has in its month, and by "last" and "2nd to last"
\* in the month's last two weeks, be it 29 February.
NthFound ==
  LET Found(nth) == date_of_the_nth_wday_of_m(nth, wday, today.month)
      left == DaysIn(today.month, today.year) - today.day
  IN  /\ Found(Nth(((today.day - 1) \div 7) + 1)) = today
      /\ left < 7 => Found(Last) = today
      /\ left \in 7 .. 13 => Found(SecondToLast) = today

\* The comment of date_of_next_dow(): it "projects the future date of the given
\* day of the week, which must be a number from 0 to 7, 0 and 7 both equating
\* to sunday".
NextDow == \A dow \in 0 .. 7 : (wday + date_of_next_dow(dow, 1)) % 7 = dow % 7

\* A weekday's name means such a day, and one to come (variant_date_parser),
\* though its table counts from 0 and os.date() from 1.
WeekdayNamed ==
  \A dow \in 0 .. 6 : weekday_pattern(dow) > 0 /\ (wday + weekday_pattern(dow)) % 7 = dow

\* "A single 3 letter dow reference could simply be referring to a particular
\* day of the week, this week" (the comment of extract_dow_recurring()): no
\* name means a day that is more than a week away.
NamedThisWeek == \A dow \in 0 .. 6 : weekday_pattern(dow) <= 7
=============================================================================
