------------------------------ MODULE CronExpr ------------------------------
(***************************************************************************)
(* cron_next() and cron_prev() of src/ccronexpr.c, one step per field: the *)
(* calls by which the server asks when a crontab line is due next          *)
(* (ccnext2) and was due last (at boot).  The calendar is a parameter, so  *)
(* that a year of a few short days has all that makes the search hard:     *)
(* months of unequal length, leap years, weeks that fit no month.          *)
(***************************************************************************)
EXTENDS Integers, Sequences, FiniteSets, FiniteSetsExt

CONSTANTS
  Seconds, Minutes, Hours,  \* CRON_MAX_SECONDS, _MINUTES, _HOURS
  Months,                   \* CRON_MAX_MONTHS
  WeekLen,                  \* days in a week
  DaysIn(_, _),             \* days in a month of a year
  DayLimit,                 \* days find_next_day() looks at: 366
  YearsDiff,                \* CRON_MAX_YEARS_DIFF
  MaxDepth,                 \* frames of do_next() that the C stack holds
  EastOfUTC,                \* local time is ahead of UTC
  Calls,                    \* the calls made: a function and an expression
  StartYears,               \* bound: years from which a search starts
  LastYear                  \* bound: the last year of the calendar

ASSUME SizesAssumption ==
  {Seconds, Minutes, Hours, Months, WeekLen, DayLimit, YearsDiff, MaxDepth,
   LastYear} \subseteq Nat \ {0}

VARIABLES
  fn,      \* the function called: "next" or "prev"
  expr,    \* its expression: for each field the set of values that match
  date,    \* its date, as a broken-down time
  pc,      \* the field being searched, or how the call ended
  cal,     \* calendar, normalised by mktime()
  resets,  \* this frame's resets: fields that already match
  dot,     \* the year the search began in
  stack,   \* the frames that called do_next() and wait for it to return
  again    \* the search is the second one, from a second later (earlier)

vars == <<fn, expr, date, pc, cal, resets, dot, stack, again>>

-----------------------------------------------------------------------------
(* Broken-down times.  month counts from month 0 of year 0, so that tm_year *)
(* is month \div Months and tm_mon is month % Months.                       *)

LastMonth == Months * (LastYear + 1)

\* The number of the day on which a month begins.
MonthStart ==
  [k \in 0 .. LastMonth |->
     MapThenSumSet(LAMBDA i : DaysIn(i \div Months, i % Months), 0 .. k - 1)]

Year(c) == c.month \div Months
DayNumber(c) == MonthStart[c.month] + c.mday - 1
wday(c) == DayNumber(c) % WeekLen
Time(c) == ((DayNumber(c) * Hours + c.hour) * Minutes + c.min) * Seconds + c.sec

\* mktime(): values out of range carry into the next field.
mktime(c) ==
  LET min == c.min + c.sec \div Seconds
      hour == c.hour + min \div Minutes
      day == DayNumber(c) + hour \div Hours
      month == CHOOSE k \in (0 .. LastMonth - 1)
                            \cap (c.month - Months - 1 .. c.month + Months + 1) :
                 MonthStart[k] <= day /\ day < MonthStart[k + 1]
  IN  [month |-> month, mday |-> day - MonthStart[month] + 1,
       hour |-> hour % Hours, min |-> min % Minutes, sec |-> c.sec % Seconds]

DaysOf(month) == DaysIn(month \div Months, month % Months)

\* gmtime() of local midnight is the day before in zones ahead of UTC.
last_day_of_month(month) == IF EastOfUTC THEN DaysOf(month) - 1 ELSE DaysOf(month)

Dates ==
  {c \in [month : 0 .. LastMonth - 1, mday : 1 .. DayLimit,
          hour : 0 .. Hours - 1, min : 0 .. Minutes - 1, sec : 0 .. Seconds - 1] :
     c.mday <= DaysOf(c.month)}

-----------------------------------------------------------------------------
(* Fields *)

Value(c, f) == IF f = "month" THEN c.month % Months ELSE c[f]

set_field(c, f, v) ==
  mktime(IF f = "month" THEN [c EXCEPT !.month = Year(c) * Months + v]
                        ELSE [c EXCEPT ![f] = v])

\* Mutant: find_next() of the months does not go on to the next year.
carry_no_year(c, f, v) ==
  mktime(CASE f = "sec" -> [c EXCEPT !.min = @ + v]
           [] f = "min" -> [c EXCEPT !.hour = @ + v]
           [] f = "hour" -> [c EXCEPT !.mday = @ + v]
           [] f = "month" -> c)

\* add_to_field() of the field after f.
carry(c, f, v) ==
  mktime(CASE f = "sec" -> [c EXCEPT !.min = @ + v]
           [] f = "min" -> [c EXCEPT !.hour = @ + v]
           [] f = "hour" -> [c EXCEPT !.mday = @ + v]
           [] f = "month" -> [c EXCEPT !.month = @ + v * Months])

least(f) == IF f = "mday" THEN 1 ELSE 0
greatest(c, f) ==
  CASE f = "sec" -> Seconds - 1
    [] f = "min" -> Minutes - 1
    [] f = "hour" -> Hours - 1
    [] f = "mday" -> last_day_of_month(c.month)
    [] f = "month" -> Months - 1

\* Mutant: cron_prev() too resets a field to its least value.
extreme_least(c, f) == least(f)

\* reset_min() and reset_max(), and the two for all fields of resets.
extreme(c, f) == IF fn = "next" THEN least(f) ELSE greatest(c, f)
reset(c, f) == set_field(c, f, extreme(c, f))
reset_all(c) ==
  [f \in DOMAIN c |-> IF f \in resets THEN extreme(c, f) ELSE c[f]]

\* next_set_bit() and prev_set_bit() from value on.
Ahead(bits, value) ==
  {i \in bits : IF fn = "next" THEN i >= value ELSE i <= value}
nearest(bits) == IF fn = "next" THEN Min(bits) ELSE Max(bits)

Way == IF fn = "next" THEN 1 ELSE -1

-----------------------------------------------------------------------------
(* do_next() and do_prev() *)

After(f) == CASE f = "sec" -> "min" [] f = "min" -> "hour" [] f = "hour" -> "mday"
              [] f = "mday" -> "month" [] f = "month" -> "return"

\* do_next() calls itself from field f.
Recur(f) ==
  IF Len(stack) + 1 < MaxDepth
  THEN /\ pc' = "sec"
       /\ stack' = Append(stack, [field |-> After(f), resets |-> resets])
       /\ resets' = {}
  ELSE /\ pc' = "overflow"
       /\ UNCHANGED <<stack, resets>>

\* The field matched: it is reset when a later one changes.
Matched(f) ==
  /\ pc' = After(f)
  /\ resets' = resets \cup {f}
  /\ UNCHANGED stack

\* find_next() and find_prev(), one field after the other.
find(f) ==
  LET bits == expr[f]
      value == Value(cal, f)
      ahead == Ahead(bits, value)
      rolled == IF ahead = {} THEN reset(carry(cal, f, Way), f) ELSE cal
      next == CASE ahead # {} -> nearest(ahead)
                [] ahead = {} /\ bits # {} -> nearest(bits)
                [] bits = {} -> 0
  IN  [value |-> next,
       cal |-> IF bits = {} \/ next # value
               THEN reset_all(set_field(rolled, f, next))
               ELSE rolled]

\* The seconds: if they change, nothing is reset and the search goes on.
FindSecond ==
  /\ pc = "sec"
  /\ LET found == find("sec")
     IN  /\ cal' = found.cal
         /\ IF found.value = cal.sec
            THEN Matched("sec")
            ELSE pc' = "min" /\ UNCHANGED <<resets, stack>>
  /\ UNCHANGED <<fn, expr, date, dot, again>>

FindField(f) ==
  /\ pc = f
  /\ LET found == find(f)
     IN  /\ cal' = found.cal
         /\ IF found.value = cal[f] THEN Matched(f) ELSE Recur(f)
  /\ UNCHANGED <<fn, expr, date, dot, again>>
FindMinute == FindField("min")
FindHour == FindField("hour")

DayMatches(c) == c.mday \in expr.mday /\ wday(c) \in expr.wday

\* find_next_day(): day by day, at most DayLimit of them.
FindDay ==
  /\ pc = "mday"
  /\ LET on(k) == mktime([cal EXCEPT !.mday = @ + Way * k])
         hits == {k \in 0 .. DayLimit : DayMatches(on(k))}
         days == IF hits = {} THEN DayLimit ELSE Min(hits)
     IN  /\ cal' = IF days = 0 THEN cal ELSE reset_all(on(days))
         /\ IF cal'.mday = cal.mday THEN Matched("mday") ELSE Recur("mday")
  /\ UNCHANGED <<fn, expr, date, dot, again>>

\* Mutant: a search is given up in the next year.
TooFar_next_year(c) == (Year(c) - dot) * Way > 0

\* Too many years away from the one the search began in.
TooFar(c) == (Year(c) - dot) * Way > YearsDiff

FindMonth ==
  /\ pc = "month"
  /\ LET found == find("month")
     IN  /\ cal' = found.cal
         /\ CASE found.value = Value(cal, "month") ->
                   pc' = "return" /\ UNCHANGED <<resets, stack>>
              [] found.value # Value(cal, "month") /\ TooFar(cal') ->
                   pc' = "failed" /\ UNCHANGED <<resets, stack>>
              [] OTHER -> Recur("month")
  /\ UNCHANGED <<fn, expr, date, dot, again>>

\* A frame of do_next() returns to the one that called it.
Return ==
  /\ pc = "return"
  /\ stack # << >>
  /\ pc' = stack[Len(stack)].field
  /\ resets' = stack[Len(stack)].resets
  /\ stack' = SubSeq(stack, 1, Len(stack) - 1)
  /\ UNCHANGED <<fn, expr, date, cal, dot, again>>

\* The search came back to where it began: once more, a second further on.
SearchAgain ==
  /\ pc = "return" /\ stack = << >>
  /\ Time(cal) = Time(date) /\ ~again
  /\ cal' = mktime([cal EXCEPT !.sec = @ + Way])
  /\ dot' = Year(cal')
  /\ pc' = "sec"
  /\ resets' = {}
  /\ again' = TRUE
  /\ UNCHANGED <<fn, expr, date, stack>>

Answer ==
  /\ pc = "return" /\ stack = << >>
  /\ Time(cal) # Time(date) \/ again
  /\ pc' = "done"
  /\ UNCHANGED <<fn, expr, date, cal, resets, dot, stack, again>>

-----------------------------------------------------------------------------
(* The specification *)

Init ==
  /\ \E call \in Calls : fn = call.fn /\ expr = call.expr
  /\ date \in {c \in Dates : Year(c) \in StartYears}
  /\ cal = date
  /\ pc = "sec"
  /\ resets = {}
  /\ dot = Year(date)
  /\ stack = << >>
  /\ again = FALSE

Next ==
  \/ FindSecond \/ FindMinute \/ FindHour \/ FindDay \/ FindMonth
  \/ Return \/ SearchAgain \/ Answer

Spec == Init /\ [][Next]_vars

-----------------------------------------------------------------------------
(* Properties *)

\* The times in a set of months that match the expression.
Due(months) ==
  {Time(c) : c \in
     {c \in [month : {k \in months : k % Months \in expr.month},
             mday : expr.mday, hour : expr.hour, min : expr.min,
             sec : expr.sec] :
        c.mday <= DaysOf(c.month) /\ wday(c) \in expr.wday}}

Between(k, l) == (k .. l) \cup (l .. k)

\* t is after the date of the call (before it, for cron_prev()).
Beyond(t) == (t - Time(date)) * Way > 0

\* ccronexpr.h: "calculate the next 'fire' date after the specified date", and
\* "the previous".  What do_next() comes to is a time that matches every
\* field, and no time that matches lies before it.
FoundIsNearest ==
  pc = "done" =>
    /\ Time(cal) \in Due({cal.month})
    /\ Beyond(Time(cal))
    /\ \A t \in Due(Between(date.month, cal.month)) :
         Beyond(t) => (t - Time(cal)) * Way >= 0

\* The call gives up (CRON_INVALID_INSTANT) only if the expression matches no
\* time of this year and the YearsDiff next ones.
FailedIsNone ==
  pc = "failed" =>
    \A t \in Due({k \in 0 .. LastMonth - 1 :
                   (k \div Months - dot) * Way \in 0 .. YearsDiff}) : ~Beyond(t)

\* ccronexpr.h: "@return previous 'fire' date in case of success,
\* '((time_t) -1)' in case of error".  do_next() and do_prev() end their
\* recursion: a search that comes back to a time it was at would go on until
\* the stack is full.
StackHolds == pc # "overflow"

=============================================================================
