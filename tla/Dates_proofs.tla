---------------------------- MODULE Dates_proofs ----------------------------
(***************************************************************************)
(* That the weekday congruence of src/smart_device_svr.lua follows the     *)
(* calendar to the end of any year it is claimed for.                      *)
(***************************************************************************)
EXTENDS Dates, FiniteSetTheorems, TLAPS

\* The congruence apart from the day of the month, with a multiple of 7 added
\* that keeps it positive.
Offset(year, month) ==
  LET Y == (IF month < 3 THEN year - 1 ELSE year) - 2000
      M == IF month < 3 THEN month + 10 ELSE month - 2
  IN  (13 * M - 1) \div 5 + Y + (Y + 4) \div 4 + 6

\* The weekday of a day of a month that has that offset.
Wday(day, offset) == (day + offset) % 7

\* What calculate_dow_from_date() computes is the day and an offset that
\* depends on month and year only.
LEMMA CongruenceSplit ==
  ASSUME NEW y, y \in 2000 .. 2099, NEW m, m \in 1 .. 12, NEW d, d \in 1 .. 31
  PROVE  /\ Offset(y, m) \in Int
         /\ calculate_dow_from_date(Date(y, m, d)) = Wday(d, Offset(y, m))
BY DEF Offset, Wday, calculate_dow_from_date, Date

\* Of the first of a month it is known by the month.
LEMMA FirstOfMonth ==
  ASSUME NEW y, y \in 2000 .. 2099, NEW m, m \in 1 .. 12
  PROVE  calculate_dow_from_date(Date(y, m, 1)) = Wday(1, Offset(y, m))
<1>1. 1 \in 1 .. 31
  OBVIOUS
<1> QED
  BY <1>1, CongruenceSplit

\* From the last day of a month to the first of the next, be it over 29
\* February, the congruence counts one day.
LEMMA MonthEnd ==
  ASSUME NEW y \in 2000 .. 2099, NEW m \in 1 .. 11
  PROVE  Wday(DaysIn(m, y) + 1, Offset(y, m)) = Wday(1, Offset(y, m + 1))
<1>1. CASE m = 1
  BY <1>1 DEF Offset, Wday, DaysIn
<1>2. CASE m = 2
  BY <1>2 DEF Offset, Wday, DaysIn, Leap
<1>3. CASE m \in 3 .. 11
  BY <1>3 DEF Offset, Wday, DaysIn
<1> QED
  BY <1>1, <1>2, <1>3

\* So it does at the end of a year, though it goes on counting January and
\* February to the year before.
LEMMA YearEnd ==
  ASSUME NEW y \in 2000 .. 2098
  PROVE  Wday(32, Offset(y, 12)) = Wday(1, Offset(y + 1, 1))
BY DEF Offset, Wday

\* A day's number and month are always those of a date of the calendar.
LEMMA TypeInit == Init => TypeOK
BY LastYearAssumption DEF Init, TypeOK, Date, DaysIn

LEMMA TypeStep ==
  ASSUME TypeOK, NextDay
  PROVE  TypeOK'
<1> DEFINE y == today.year
           m == today.month
           d == today.day
<1>1. y \in 2000 .. LastYear /\ m \in 1 .. 12 /\ d \in 1 .. 31 /\ d <= DaysIn(m, y)
  BY DEF TypeOK
<1>2. DaysIn(m, y) \in 28 .. 31
  BY DEF DaysIn
<1>3. wday' \in 0 .. 6
  BY DEF TypeOK, NextDay
<1>4. CASE d < DaysIn(m, y)
  <2>1. today' = Date(y, m, d + 1)
    BY <1>4 DEF NextDay
  <2> QED
    BY <1>1, <1>2, <1>3, <1>4, <2>1, LastYearAssumption DEF TypeOK, Date
<1>5. CASE d = DaysIn(m, y) /\ m < 12
  <2>1. today' = Date(y, m + 1, 1)
    BY <1>1, <1>2, <1>5 DEF NextDay
  <2>2. 1 <= DaysIn(m + 1, y)
    BY DEF DaysIn
  <2> QED
    BY <1>1, <1>3, <1>5, <2>1, <2>2, LastYearAssumption DEF TypeOK, Date
<1>6. CASE d = DaysIn(m, y) /\ m = 12
  <2>1. d = 31 /\ y # LastYear
    BY <1>6 DEF DaysIn, NextDay
  <2>2. today' = Date(y + 1, 1, 1)
    BY <1>1, <1>6, <2>1 DEF NextDay
  <2>3. 1 <= DaysIn(1, y + 1)
    BY DEF DaysIn
  <2> QED
    BY <1>1, <1>3, <2>1, <2>2, <2>3, LastYearAssumption DEF TypeOK, Date
<1> QED
  BY <1>1, <1>2, <1>4, <1>5, <1>6

\* A date is what its fields say.
LEMMA TodayIsItsDate == TypeOK => today = Date(today.year, today.month, today.day)
BY DEF TypeOK, Date

\* The congruence counts on with every day of the calendar.
LEMMA CountsStep ==
  ASSUME TypeOK, DowCounts, NextDay
  PROVE  DowCounts'
<1> DEFINE y == today.year
           m == today.month
           d == today.day
<1>1. y \in 2000 .. 2099 /\ m \in 1 .. 12 /\ d \in 1 .. 31 /\ d <= DaysIn(m, y)
  BY LastYearAssumption DEF TypeOK
<1>2. Offset(y, m) \in Int /\ wday = Wday(d, Offset(y, m))
  <2>1. calculate_dow_from_date(today) = wday /\ today = Date(y, m, d)
    BY TodayIsItsDate DEF DowCounts
  <2>2. Offset(y, m) \in Int /\ calculate_dow_from_date(Date(y, m, d)) = Wday(d, Offset(y, m))
    <3> HIDE DEF y, m, d
    <3> QED
      BY <1>1, CongruenceSplit
  <2> QED
    BY <2>1, <2>2
<1>3. wday' = Wday(d + 1, Offset(y, m))
  BY <1>1, <1>2 DEF NextDay, Wday
<1>4. CASE d < DaysIn(m, y)
  <2>1. today' = Date(y, m, d + 1) /\ d + 1 \in 1 .. 31
    BY <1>1, <1>4 DEF NextDay, DaysIn
  <2>2. calculate_dow_from_date(Date(y, m, d + 1)) = Wday(d + 1, Offset(y, m))
    <3> HIDE DEF y, m, d
    <3>1. y \in 2000 .. 2099 /\ m \in 1 .. 12 /\ d + 1 \in 1 .. 31
      BY <1>1, <2>1
    <3> QED
      BY <3>1, CongruenceSplit
  <2> QED
    BY <1>3, <2>1, <2>2 DEF DowCounts
<1>5. CASE d = DaysIn(m, y) /\ m < 12
  <2>1. today' = Date(y, m + 1, 1)
    BY <1>1, <1>5 DEF NextDay
  <2>2. m \in 1 .. 11 /\ m + 1 \in 1 .. 12
    BY <1>1, <1>5
  <2>3. calculate_dow_from_date(Date(y, m + 1, 1)) = Wday(1, Offset(y, m + 1))
    BY <1>1, <2>2, FirstOfMonth
  <2> QED
    BY <1>1, <1>3, <1>5, <2>1, <2>2, <2>3, MonthEnd DEF DowCounts
<1>6. CASE d = DaysIn(m, y) /\ m = 12
  <2>1. d = 31 /\ y \in 2000 .. 2098 /\ today' = Date(y + 1, 1, 1)
    BY <1>6, <1>1, LastYearAssumption DEF DaysIn, NextDay, TypeOK
  <2>2. calculate_dow_from_date(Date(y + 1, 1, 1)) = Wday(1, Offset(y + 1, 1))
    <3>1. y + 1 \in 2000 .. 2099
      BY <2>1
    <3> QED
      BY <3>1, FirstOfMonth
  <2> QED
    BY <1>3, <1>6, <2>1, <2>2, YearEnd DEF DowCounts
<1>7. DaysIn(m, y) \in Int
  BY DEF DaysIn
<1> QED
  BY <1>1, <1>4, <1>5, <1>6, <1>7

\* On every day the calendar comes to.
LEMMA CountsHold == Spec => [](TypeOK /\ DowCounts)
<1>1. Init => TypeOK /\ DowCounts
  <2>1. Wday(1, Offset(2000, 1)) = 6
    BY DEF Offset, Wday
  <2>2. Init => calculate_dow_from_date(today) = Wday(1, Offset(2000, 1))
    <3>1. 2000 \in 2000 .. 2099 /\ 1 \in 1 .. 12 /\ 1 \in 1 .. 31
      OBVIOUS
    <3>2. calculate_dow_from_date(Date(2000, 1, 1)) = Wday(1, Offset(2000, 1))
      BY <3>1, CongruenceSplit
    <3> QED
      BY <3>2 DEF Init
  <2> QED
    BY <2>1, <2>2, TypeInit DEF Init, DowCounts
<1>2. TypeOK /\ DowCounts /\ [NextDay]_vars => (TypeOK /\ DowCounts)'
  <2>1. CASE UNCHANGED vars
    BY <2>1 DEF vars, TypeOK, DowCounts
  <2> QED
    BY <2>1, TypeStep, CountsStep
<1> QED
  BY <1>1, <1>2, PTL DEF Spec

\* calculate_dow_from_date(), whose comment claims the years "between 2000 and
\* 2100", gives the weekday of every date from 2000 to the end of whichever of
\* those years the calendar ends with.
THEOREM DowCorrect == Spec => []DowCounts
BY CountsHold, PTL

-----------------------------------------------------------------------------
(* The functions that look for a weekday *)

\* A weekday's name in variant_date_parser() means a day of that name, and one
\* to come, whatever day of the week it is today.
THEOREM NamesUnderstood == Spec => []WeekdayNamed
<1>1. TypeOK => WeekdayNamed
  <2> SUFFICES ASSUME wday \in 0 .. 6, NEW dow \in 0 .. 6
               PROVE  weekday_pattern(dow) > 0 /\ (wday + weekday_pattern(dow)) % 7 = dow
    BY DEF TypeOK, WeekdayNamed
  <2> QED
    BY DEF weekday_pattern
<1> QED
  BY <1>1, CountsHold, PTL

\* The function and the calendar have the same months.
LEMMA DaysInMonth ==
  ASSUME NEW y \in 2000 .. 2099, NEW m \in 1 .. 12
  PROVE  days_in_month_of(m, y) = DaysIn(m, y)
BY DEF days_in_month_of, isLeapYear, DaysIn, Leap

\* Up to the day r + 7q, a weekday first seen on day r occurs q + 1 times.
LEMMA EverySeventh ==
  ASSUME NEW r \in 1 .. 7, NEW q \in 0 .. 4
  PROVE  Cardinality({r + 7 * k : k \in 0 .. q}) = q + 1
<1> DEFINE S(n) == {r + 7 * k : k \in 0 .. n}
<1>1. IsFiniteSet(S(0)) /\ Cardinality(S(0)) = 1
  <2>1. S(0) = {r}
    OBVIOUS
  <2> QED
    BY <2>1, FS_Singleton
<1>2. ASSUME NEW n \in 0 .. 3, IsFiniteSet(S(n)), Cardinality(S(n)) = n + 1
      PROVE  IsFiniteSet(S(n + 1)) /\ Cardinality(S(n + 1)) = n + 2
  <2>1. S(n + 1) = S(n) \cup {r + 7 * (n + 1)}
    <3>1. 0 .. n + 1 = (0 .. n) \cup {n + 1}
      OBVIOUS
    <3> QED
      BY <3>1
  <2>2. r + 7 * (n + 1) \notin S(n)
    OBVIOUS
  <2> HIDE DEF S
  <2> QED
    BY <1>2, <2>1, <2>2, FS_AddElement
<1> HIDE DEF S
<1>3. IsFiniteSet(S(1)) /\ Cardinality(S(1)) = 2
  BY <1>1, <1>2
<1>4. IsFiniteSet(S(2)) /\ Cardinality(S(2)) = 3
  BY <1>2, <1>3
<1>5. IsFiniteSet(S(3)) /\ Cardinality(S(3)) = 4
  BY <1>2, <1>4
<1>6. Cardinality(S(4)) = 5
  BY <1>2, <1>5
<1>7. Cardinality(S(q)) = q + 1
  BY <1>1, <1>3, <1>4, <1>5, <1>6
<1> QED
  BY <1>7 DEF S

\* The days of a month with n days that have the weekday of day d.
Same(d, n) == {i \in 1 .. n : (i - d) % 7 = 0}

\* How often a weekday has occurred on one of its days.
LEMMA Occurrences ==
  ASSUME NEW d \in 1 .. 31, NEW n \in 28 .. 31, d <= n,
         NEW i \in Same(d, n)
  PROVE  Cardinality({j \in Same(d, n) : j <= i}) = (i - 1) \div 7 + 1
<1> DEFINE r == ((i - 1) % 7) + 1
           q == (i - 1) \div 7
<1>1. i \in 1 .. n /\ i \in 1 .. 31 /\ (i - d) % 7 = 0
  BY DEF Same
<1>2. r \in 1 .. 7 /\ q \in 0 .. 4 /\ i = r + 7 * q
  BY <1>1
<1> HIDE DEF r, q
<1>3. \A j \in 1 .. i : (j - d) % 7 = 0 <=> (j - r) % 7 = 0
  BY <1>1, <1>2
<1>4. \A j \in 1 .. i : (j - r) % 7 = 0 => (j - r) \div 7 \in 0 .. q /\ j = r + 7 * ((j - r) \div 7)
  BY <1>1, <1>2
<1>5. \A k \in 0 .. q : \E j \in 1 .. i : j = r + 7 * k /\ (j - d) % 7 = 0
  <2> TAKE k \in 0 .. q
  <2>1. PICK j \in Int : j = r + 7 * k
    BY <1>2
  <2>2. j \in 1 .. i /\ (j - d) % 7 = 0
    BY <1>1, <1>2, <2>1
  <2> QED
    BY <2>1, <2>2
<1>6. {j \in Same(d, n) : j <= i} = {r + 7 * k : k \in 0 .. q}
  <2>1. \A j : j \in Same(d, n) /\ j <= i <=> j \in 1 .. i /\ (j - d) % 7 = 0
    BY <1>1 DEF Same
  <2>2. ASSUME NEW j \in 1 .. i, (j - d) % 7 = 0
        PROVE  j \in {r + 7 * k : k \in 0 .. q}
    <3>1. (j - r) \div 7 \in 0 .. q /\ j = r + 7 * ((j - r) \div 7)
      BY <1>3, <1>4, <2>2
    <3> QED
      BY <3>1
  <2>3. ASSUME NEW k \in 0 .. q
        PROVE  r + 7 * k \in {j \in Same(d, n) : j <= i}
    <3>1. PICK j \in 1 .. i : j = r + 7 * k /\ (j - d) % 7 = 0
      BY <1>5
    <3> QED
      BY <2>1, <3>1
  <2>4. {j \in Same(d, n) : j <= i} \subseteq {r + 7 * k : k \in 0 .. q}
    BY <2>1, <2>2
  <2>5. {r + 7 * k : k \in 0 .. q} \subseteq {j \in Same(d, n) : j <= i}
    BY <2>3
  <2> QED
    BY <2>4, <2>5
<1>7. Cardinality({j \in Same(d, n) : j <= i}) = q + 1
  BY <1>2, <1>6, EverySeventh
<1> QED
  BY <1>7 DEF q

\* The days of today's month that the function takes for today's weekday are
\* those that lie whole weeks from today - and none if today is a Sunday, which
\* it looks for as 7.
Occurring ==
  {i \in 1 .. days_in_month_of(today.month, today.year) :
     calculate_dow_from_date(Date(today.year, today.month, i)) =
       IF wday = 0 THEN 7 ELSE wday}

LEMMA OccurringSame ==
  ASSUME TypeOK, DowCounts
  PROVE  Occurring = IF wday = 0 THEN {} ELSE Same(today.day, DaysIn(today.month, today.year))
<1> DEFINE y == today.year
           m == today.month
           d == today.day
           n == DaysIn(m, y)
<1>1. /\ y \in 2000 .. 2099 /\ m \in 1 .. 12 /\ d \in 1 .. 31
      /\ today = Date(y, m, d) /\ wday \in 0 .. 6
  BY TodayIsItsDate, LastYearAssumption DEF TypeOK
<1>2. n \in 28 .. 31
  BY DEF DaysIn
<1> HIDE DEF y, m, d, n
<1>3. days_in_month_of(m, y) = n
  BY <1>1, DaysInMonth DEF n, y, m
<1>4. wday = Wday(d, Offset(y, m))
  BY <1>1, CongruenceSplit DEF DowCounts
<1>5. ASSUME NEW i \in 1 .. n
      PROVE  /\ calculate_dow_from_date(Date(y, m, i)) \in 0 .. 6
             /\ calculate_dow_from_date(Date(y, m, i)) = wday <=> (i - d) % 7 = 0
  <2>1. i \in 1 .. 31
    BY <1>2
  <2>2. calculate_dow_from_date(Date(y, m, i)) = Wday(i, Offset(y, m)) /\ Offset(y, m) \in Int
    BY <1>1, <2>1, CongruenceSplit
  <2>3. ASSUME NEW o \in Int
        PROVE  /\ (i + o) % 7 \in 0 .. 6
               /\ (i + o) % 7 = (d + o) % 7 <=> (i - d) % 7 = 0
    BY <1>1, <2>1
  <2> QED
    BY <1>4, <2>2, <2>3 DEF Wday
<1>6. Occurring = {i \in 1 .. n : calculate_dow_from_date(Date(y, m, i)) =
                                    IF wday = 0 THEN 7 ELSE wday}
  BY <1>3 DEF Occurring, y, m
<1>7. CASE wday = 0
  <2>1. \A i \in 1 .. n : calculate_dow_from_date(Date(y, m, i)) # 7
    BY <1>5
  <2> QED
    BY <1>6, <1>7, <2>1
<1>8. CASE wday # 0
  BY <1>5, <1>6, <1>8 DEF Same, d, n, m, y
<1> QED
  BY <1>7, <1>8

\* What the function answers, in terms of those days.
LEMMA NthOfToday ==
  ASSUME TypeOK, NEW nth
  PROVE  date_of_the_nth_wday_of_m(nth, wday, today.month) =
           LET found == {i \in Occurring :
                           Cardinality({j \in Occurring : j <= i}) = nth.num}
           IN  Date(today.year, today.month,
                    IF nth.words = "" THEN IF found = {} THEN 0 ELSE Max(found)
                    ELSE IF Occurring = {} THEN NoDay
                    ELSE IF nth = Last THEN Max(Occurring) ELSE Max(Occurring) - 7)
<1> DEFINE month == today.month
           year == IF today.month > month THEN today.year + 1 ELSE today.year
           day == IF wday = 0 THEN 7 ELSE wday
           occurrences ==
             {i \in 1 .. days_in_month_of(month, year) :
                calculate_dow_from_date(Date(year, month, i)) = day}
<1>1. date_of_the_nth_wday_of_m(nth, wday, month) =
        LET found == {i \in occurrences :
                        Cardinality({j \in occurrences : j <= i}) = nth.num}
        IN  Date(year, month,
                 IF nth.words = "" THEN IF found = {} THEN 0 ELSE Max(found)
                 ELSE IF occurrences = {} THEN NoDay
                 ELSE IF nth = Last THEN Max(occurrences) ELSE Max(occurrences) - 7)
  BY Zenon DEF date_of_the_nth_wday_of_m
<1>2. year = today.year
  BY DEF TypeOK
<1> HIDE DEF year
<1>3. occurrences = Occurring
  BY <1>2 DEF Occurring
<1> HIDE DEF occurrences
<1> QED
  BY <1>1, <1>2, <1>3

\* The greatest of some numbers is the one that no other exceeds.
LEMMA MaxIs ==
  ASSUME NEW S \in SUBSET Int, NEW x \in S, \A y \in S : y <= x
  PROVE  Max(S) = x
<1>1. \A z \in S : (\A y \in S : z >= y) => z = x
  OBVIOUS
<1>2. \A y \in S : x >= y
  OBVIOUS
<1> QED
  BY <1>1, <1>2 DEF Max

\* On a Sunday the number finds day 0.
LEMMA SundayNotFound ==
  ASSUME TypeOK, DowCounts, wday = 0
  PROVE  ~NthFound
<1> DEFINE nth == Nth((today.day - 1) \div 7 + 1)
<1>1. Occurring = {}
  BY OccurringSame
<1>2. nth.words = ""
  BY DEF Nth
<1>3. date_of_the_nth_wday_of_m(nth, wday, today.month) = Date(today.year, today.month, 0)
  <2> HIDE DEF nth
  <2> QED
    BY <1>1, <1>2, NthOfToday
<1>4. Date(today.year, today.month, 0) # today
  BY DEF Date, TypeOK
<1> QED
  BY <1>3, <1>4 DEF NthFound

\* The weekday of any other date is found under the number it has in its month.
LEMMA NumberFound ==
  ASSUME TypeOK, DowCounts, wday # 0
  PROVE  date_of_the_nth_wday_of_m(Nth((today.day - 1) \div 7 + 1), wday, today.month) = today
<1> DEFINE d == today.day
           n == DaysIn(today.month, today.year)
           num == (d - 1) \div 7 + 1
           nth == Nth(num)
<1>1. d \in 1 .. 31 /\ d <= n /\ today = Date(today.year, today.month, d)
  BY TodayIsItsDate DEF TypeOK
<1>2. n \in 28 .. 31
  BY DEF DaysIn
<1>3. Occurring = Same(d, n)
  BY OccurringSame
<1>4. nth.words = "" /\ nth.num = num
  BY DEF Nth
<1> HIDE DEF d, n, nth
<1>5. d \in Occurring
  BY <1>1, <1>2, <1>3 DEF Same
<1>6. \A i \in Occurring : Cardinality({j \in Occurring : j <= i}) = num <=> i = d
  <2> SUFFICES ASSUME NEW i \in Occurring
               PROVE  Cardinality({j \in Occurring : j <= i}) = num <=> i = d
    OBVIOUS
  <2>1. Cardinality({j \in Occurring : j <= i}) = (i - 1) \div 7 + 1
    BY <1>1, <1>2, <1>3, Occurrences
  <2>2. i \in 1 .. 31 /\ (i - d) % 7 = 0
    BY <1>2, <1>3 DEF Same
  <2>3. (i - 1) \div 7 = (d - 1) \div 7 <=> i = d
    BY <1>1, <2>2
  <2>4. (i - 1) \div 7 \in Int /\ (d - 1) \div 7 \in Int
    BY <1>1, <2>2
  <2> QED
    BY <2>1, <2>3, <2>4
<1> HIDE DEF num
<1> DEFINE found == {i \in Occurring : Cardinality({j \in Occurring : j <= i}) = nth.num}
<1>7. found = {d}
  BY <1>4, <1>5, <1>6
<1> HIDE DEF found
<1>8. Max(found) = d
  <2>1. found \in SUBSET Int /\ d \in found /\ \A i \in found : i <= d
    BY <1>1, <1>7
  <2> QED
    BY <2>1, MaxIs
<1>9. date_of_the_nth_wday_of_m(nth, wday, today.month) =
        Date(today.year, today.month, IF found = {} THEN 0 ELSE Max(found))
  BY <1>4, NthOfToday DEF found
<1> QED
  BY <1>1, <1>7, <1>8, <1>9 DEF nth, num, d

\* And by "last" and "2nd to last" in the last two weeks of its month.
LEMMA WordsFound ==
  ASSUME TypeOK, DowCounts, wday # 0,
         NEW left, left = DaysIn(today.month, today.year) - today.day
  PROVE  /\ left < 7 => date_of_the_nth_wday_of_m(Last, wday, today.month) = today
         /\ left \in 7 .. 13 =>
              date_of_the_nth_wday_of_m(SecondToLast, wday, today.month) = today
<1> DEFINE d == today.day
           n == DaysIn(today.month, today.year)
<1>1. d \in 1 .. 31 /\ d <= n /\ today = Date(today.year, today.month, d)
  BY TodayIsItsDate DEF TypeOK
<1>2. n \in 28 .. 31 /\ left = n - d
  BY DEF DaysIn
<1>3. Occurring = Same(d, n)
  BY OccurringSame
<1>4. Last.words = "last" /\ SecondToLast.words = "2nd to last" /\ Last # SecondToLast
  BY DEF Last, SecondToLast
<1> HIDE DEF d, n
<1>5. d \in Occurring /\ Occurring \in SUBSET Int
  BY <1>1, <1>2, <1>3 DEF Same
<1>6. ASSUME left < 7
      PROVE  date_of_the_nth_wday_of_m(Last, wday, today.month) = today
  <2>1. \A i \in Occurring : i <= d
    BY <1>1, <1>2, <1>3, <1>6 DEF Same
  <2>2. Max(Occurring) = d
    BY <1>5, <2>1, MaxIs
  <2> QED
    BY <1>1, <1>4, <1>5, <2>2, NthOfToday
<1>7. ASSUME left \in 7 .. 13
      PROVE  date_of_the_nth_wday_of_m(SecondToLast, wday, today.month) = today
  <2>1. d + 7 \in Occurring /\ \A i \in Occurring : i <= d + 7
    BY <1>1, <1>2, <1>3, <1>7 DEF Same
  <2>2. Max(Occurring) = d + 7
    BY <1>5, <2>1, MaxIs
  <2>3. Max(Occurring) - 7 = d
    BY <1>1, <2>2
  <2> QED
    BY <1>1, <1>4, <1>5, <2>3, NthOfToday
<1> QED
  BY <1>6, <1>7

\* date_of_the_nth_wday_of_m() gives back a date by its number in the month,
\* and by "last" and "2nd to last", exactly if it is no Sunday's, to the end of
\* any year calculate_dow_from_date() is claimed for: a Sunday it never finds.
THEOREM NthCorrect == Spec => [](NthFound <=> wday # 0)
<1>1. TypeOK /\ DowCounts => (NthFound <=> wday # 0)
  <2> SUFFICES ASSUME TypeOK, DowCounts
               PROVE  NthFound <=> wday # 0
    OBVIOUS
  <2>1. ASSUME wday # 0
        PROVE  NthFound
    BY <2>1, NumberFound, WordsFound DEF NthFound
  <2> QED
    BY <2>1, SundayNotFound
<1> QED
  BY <1>1, CountsHold, PTL

=============================================================================
