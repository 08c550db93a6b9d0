----------------------------- MODULE MCCronExpr -----------------------------
(***************************************************************************)
(* A calendar for CronExpr: years of three months with 4, 2 (3 in every    *)
(* second year) and 4 days, weeks of two days, days of two hours of two    *)
(* minutes of two seconds.  As in the real one the first and the last      *)
(* month are the longest, the second is the shortest but longer than a     *)
(* week can be without a day of every name, and DayLimit is a leap year.   *)
(***************************************************************************)
EXTENDS CronExpr

MCDaysIn(year, month) == IF month # 1 THEN 4 ELSE IF year % 2 = 0 THEN 3 ELSE 2

AllMonths == 0 .. Months - 1
AllMDays == 1 .. 4
AllWDays == 0 .. WeekLen - 1

\* "0 <min> <hour> <mday> <month> <wday>": crontab lines have no seconds.
Expressions(mdays, months, wdays) ==
  [sec : {{0}}, min : {{0}, {0, 1}}, hour : {{1}, {0, 1}},
   mday : mdays, month : months, wday : wdays]

\* What tbl_to_schedule_string() writes: days of the week of every month, or
\* one day of one month.
Recurring == Expressions({AllMDays}, {AllMonths}, (SUBSET AllWDays) \ {{}})
OnceIn(months) == Expressions({{d} : d \in AllMDays}, {{m} : m \in months}, {AllWDays})
\* The leap day has a run of its own for cron_prev(): every other day that is
\* written comes every year.
LeapDay == {e \in OnceIn({1}) : e.mday = {3}}
EveryYear == {e \in OnceIn(AllMonths) : \A d \in e.mday : \A m \in e.month :
                                          \A y \in {0, 1} : d <= MCDaysIn(y, m)}

MCServerLines == [fn : {"next"}, expr : Recurring \cup OnceIn(AllMonths)]
                 \cup [fn : {"prev"}, expr : Recurring \cup EveryYear]

MCPrevLeapDay == [fn : {"prev"}, expr : LeapDay]

\* A user's own line for one month, for every day of it.
OneMonth == Expressions({AllMDays}, {{m} : m \in AllMonths}, {AllWDays})
MCNextOneMonth == [fn : {"next"}, expr : OneMonth]
MCPrevOneMonth == [fn : {"prev"}, expr : OneMonth]
=============================================================================
