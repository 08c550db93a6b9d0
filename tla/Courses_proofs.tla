---------------------------- MODULE Courses_proofs ----------------------------
(***************************************************************************)
(* Theorems about the two-part commands of module SmartDeviceSvr when they *)
(* come one at a time: nothing is on hold for one but in its course, and in*)
(* its course the device is as the command set it.                         *)
(***************************************************************************)
EXTENDS Exceptions_proofs

\* What both theorems assume: a server that has power, is not asked to restore an
\* old crontab and that no command ends.
Undisturbed ==
  /\ OneByOne
  /\ Wholesome
  /\ ~Outages
  /\ \A c \in UserCommands : c.kind # "cancel_last"

-----------------------------------------------------------------------------
(* The inductive invariant *)

\* Client lines are for the right minute: a clear line for the beginning or the
\* minute before it, an unhold line for the minute after the end.
ClearTimes(b) ==
  {schedule_to_epoch(b.sched), (schedule_to_epoch(b.sched) - 1) % YearLen}
UnholdTime(e) == (schedule_to_epoch(e.sched) + 1) % YearLen
Timed(x) ==
  IsClient(x) => IF x.key.do = "clear" THEN x.key.sched.at \subseteq ClearTimes(x.key.b)
                                       ELSE UnholdTime(x.key.e) \in x.key.sched.at
TimedTable(tab) == \A i \in DOMAIN tab : Timed(tab[i])

\* A line on hold is so in the course it is on hold for, or in the minute before.
Around(x, minute) ==
  OnHold(x) /\ x.by # << >> =>
    LET from == schedule_to_epoch(x.by[1].sched)
        to == schedule_to_epoch(x.by[2].sched)
    IN  from <= to /\ minute \in from - 1 .. to
AroundTable(tab, minute) == \A i \in DOMAIN tab : Around(tab[i], minute)

\* The minute of an unhold line has come, and it is not yet handled.
UnholdDue ==
  \/ inbox # << >> /\ Head(inbox).kind = "unhold"
  \/ req.kind = "unhold"

\* A clear is handled in the minute it is sent.
ClearInTime(m) == m.kind = "clear" => now \in ClearTimes(m.b)

CourseInv ==
  /\ pc # "off"
  /\ TimedTable(crontab) /\ TimedTable(work)
  /\ AroundTable(crontab, now) \/ UnholdDue
  /\ AroundTable(work, now)
  /\ \A n \in DOMAIN inbox : ClearInTime(inbox[n])
  /\ ClearInTime(req)
  /\ pc = "clear_now" => req.at.at = {now}

-----------------------------------------------------------------------------
(* What keeps a table so *)

\* A loop that passes over lines.
LEMMA PartInCourse ==
  ASSUME NEW tab, NEW new, Part(tab, new), NEW minute
  PROVE  /\ TimedTable(tab) => TimedTable(new)
         /\ AroundTable(tab, minute) => AroundTable(new, minute)
<1>1. PICK f \in Injection(DOMAIN new, DOMAIN tab) : \A k \in DOMAIN new : new[k] = tab[f[k]]
  BY DEF Part, From
<1>2. \A k \in DOMAIN new : f[k] \in DOMAIN tab /\ new[k] = tab[f[k]]
  BY <1>1 DEF Injection
<1> QED BY <1>2 DEF TimedTable, AroundTable

\* A line put at the end.
LEMMA AppendInCourse ==
  ASSUME NEW tab \in Seq(Line), NEW x \in Line, Timed(x), NEW minute, Around(x, minute)
  PROVE  /\ TimedTable(tab) => TimedTable(Append(tab, x))
         /\ AroundTable(tab, minute) => AroundTable(Append(tab, x), minute)
<1> DEFINE new == Append(tab, x)
<1>1. /\ Len(tab) \in Nat /\ DOMAIN tab = 1 .. Len(tab)
      /\ DOMAIN new = 1 .. Len(tab) + 1
      /\ \A i \in 1 .. Len(tab) : new[i] = tab[i]
      /\ new[Len(tab) + 1] = x
  BY AppendProperties, LenProperties
<1> HIDE DEF new
<1>2. \A i \in DOMAIN new : new[i] = x \/ (i \in DOMAIN tab /\ new[i] = tab[i])
  <2> SUFFICES ASSUME NEW i \in DOMAIN new
               PROVE  new[i] = x \/ (i \in DOMAIN tab /\ new[i] = tab[i])
    OBVIOUS
  <2>1. i = Len(tab) + 1 \/ i \in 1 .. Len(tab)
    BY <1>1
  <2> QED BY <1>1, <2>1
<1>3. /\ TimedTable(tab) => TimedTable(new)
      /\ AroundTable(tab, minute) => AroundTable(new, minute)
  BY <1>2 DEF TimedTable, AroundTable
<1> QED BY <1>3 DEF new

\* Marks are no part of a client line's schedule.
LEMMA MarksInCourse ==
  ASSUME NEW tab, NEW new, SameButMarks(tab, new), TimedTable(tab)
  PROVE  TimedTable(new)
BY DEF SameButMarks, TimedTable, Timed, IsClient

\* With nothing on hold there is nothing to be in a course.
LEMMA NoneInCourse ==
  ASSUME NEW tab, OnHoldAt(tab) = {}, NEW minute
  PROVE  AroundTable(tab, minute)
BY DEF OnHoldAt, AroundTable, Around

\* A blank line and a line about the device are neither on hold nor the server's
\* own.
LEMMA PlainInCourse ==
  ASSUME NEW x, ~IsClient(x), ~OnHold(x), NEW minute
  PROVE  Timed(x) /\ Around(x, minute)
BY DEF Timed, Around

\* The crontab as it is read, and with a line about the device.
LEMMA ReadInCourse ==
  ASSUME NEW tab \in Seq(Line), NEW minute
  PROVE  /\ TimedTable(tab) => TimedTable(cron_all(tab))
         /\ AroundTable(tab, minute) => AroundTable(cron_all(tab), minute)
         /\ \A k \in DeviceKey, tmp \in BOOLEAN :
              /\ TimedTable(tab) => TimedTable(Append(tab, DeviceLine(k, tmp)))
              /\ AroundTable(tab, minute) => AroundTable(Append(tab, DeviceLine(k, tmp)), minute)
<1>1. Blank \in Line /\ ~IsClient(Blank) /\ ~OnHold(Blank)
  BY DEF Line, Blank, IsClient, OnHold, IsEntry
<1>2. /\ TimedTable(tab) => TimedTable(cron_all(tab))
      /\ AroundTable(tab, minute) => AroundTable(cron_all(tab), minute)
  BY <1>1, PlainInCourse, AppendInCourse DEF cron_all
<1>3. ASSUME NEW k \in DeviceKey, NEW tmp \in BOOLEAN
      PROVE  /\ TimedTable(tab) => TimedTable(Append(tab, DeviceLine(k, tmp)))
             /\ AroundTable(tab, minute) => AroundTable(Append(tab, DeviceLine(k, tmp)), minute)
  <2>1. /\ DeviceLine(k, tmp) \in Line
        /\ ~IsClient(DeviceLine(k, tmp)) /\ ~OnHold(DeviceLine(k, tmp))
    BY DeviceLineIsNone
  <2>2. Timed(DeviceLine(k, tmp)) /\ Around(DeviceLine(k, tmp), minute)
    BY <2>1, PlainInCourse
  <2> QED BY <2>1, <2>2, AppendInCourse
<1> QED BY <1>2, <1>3

\* The write.
LEMMA SubmitInCourse ==
  ASSUME NEW tab \in Seq(Line), NEW minute
  PROVE  /\ TimedTable(tab) => TimedTable(submit_crontab(tab))
         /\ AroundTable(tab, minute) => AroundTable(submit_crontab(tab), minute)
BY SubmitLines, PartInCourse

\* delete_old_cron_jobs() passes over lines.
LEMMA DeleteOldInCourse ==
  ASSUME NEW tab \in Seq(Line), NEW minute
  PROVE  /\ TimedTable(tab) => TimedTable(delete_old_cron_jobs(tab, minute))
         /\ AroundTable(tab, minute) => AroundTable(delete_old_cron_jobs(tab, minute), minute)
BY DeleteFrom, PartInCourse DEF delete_old_cron_jobs

\* unhold_all_jobs() leaves nothing on hold.
LEMMA UnholdAllInCourse ==
  ASSUME NEW tab \in Seq(Line), NEW minute
  PROVE  /\ TimedTable(tab) => TimedTable(unhold_all_jobs(tab))
         /\ AroundTable(unhold_all_jobs(tab), minute)
<1> DEFINE new == unhold_all_jobs(tab)
<1>1. SameButMarks(tab, new)
  BY UnholdSame DEF unhold_all_jobs
<1>2. ASSUME NEW i \in DOMAIN new
      PROVE  ~OnHold(new[i])
  <2>1. i \in DOMAIN tab
    BY <1>1 DEF SameButMarks
  <2>2. CASE i \in OnHoldAt(tab)
    <3>1. new[i] = TakeOffHold(tab[i]) /\ IsEntry(tab[i])
      BY <2>1, <2>2 DEF unhold_all_jobs, unhold_lines, OnHoldAt, OnHold
    <3>2. tab[i] \in Entry
      <4>1. tab[i] \in Line
        BY <2>1, LenProperties, ElementOfSeq
      <4> QED BY <3>1, <4>1, EntryOfLine
    <3>3. ~TakeOffHold(tab[i]).onhold
      BY <3>2 DEF TakeOffHold, Entry
    <3>4. ~new[i].onhold
      BY <3>1, <3>3
    <3> QED BY <3>4 DEF OnHold
  <2>3. CASE i \notin OnHoldAt(tab)
    <3>1. new[i] = tab[i]
      BY <2>1, <2>3 DEF unhold_all_jobs, unhold_lines
    <3> QED BY <2>1, <2>3, <3>1 DEF OnHoldAt
  <2> QED BY <2>2, <2>3
<1> HIDE DEF new
<1>3. AroundTable(new, minute)
  BY <1>2 DEF AroundTable, Around
<1>4. TimedTable(tab) => TimedTable(new)
  BY <1>1, MarksInCourse
<1> QED BY <1>3, <1>4 DEF new

\* add_new_schedule() writes a clear line for the beginning or the minute before
\* it.
LEMMA TwoPartInCourse ==
  ASSUME NEW tab \in Seq(Line), NEW b \in DeviceKey, NEW e \in DeviceKey,
         b.sched.rec = e.sched.rec, NEW year, NEW minute
  PROVE  /\ TimedTable(tab) => TimedTable(add_begin_end(tab, b, e, year, minute))
         /\ AroundTable(tab, minute) =>
              AroundTable(add_begin_end(tab, b, e, year, minute), minute)
<1> DEFINE one == add_begin(tab, b)
           both == one \o <<DeviceLine(e, TRUE)>>
           new == add_begin_end(tab, b, e, year, minute)
<1>1. /\ one \in Seq(Line)
      /\ TimedTable(tab) => TimedTable(one)
      /\ AroundTable(tab, minute) => AroundTable(one, minute)
  BY ReadInCourse, WrittenLines, AppendProperties DEF add_begin
<1>2. DeviceLine(e, TRUE) \in Line
  BY WrittenLines
<1>3. both = Append(one, DeviceLine(e, TRUE))
  <2> HIDE DEF one
  <2> QED BY <1>1, <1>2, AppendIsConcat
<1>4. /\ both \in Seq(Line)
      /\ TimedTable(tab) => TimedTable(both)
      /\ AroundTable(tab, minute) => AroundTable(both, minute)
  <2> HIDE DEF one
  <2>1. Append(one, DeviceLine(e, TRUE)) \in Seq(Line)
    BY <1>1, <1>2, AppendProperties
  <2>2. /\ TimedTable(one) => TimedTable(Append(one, DeviceLine(e, TRUE)))
        /\ AroundTable(one, minute) => AroundTable(Append(one, DeviceLine(e, TRUE)), minute)
    BY <1>1, ReadInCourse
  <2> HIDE DEF both
  <2> QED BY <1>1, <1>3, <2>1, <2>2
<1> HIDE DEF both
<1>5. CASE b.sched.rec \/ tbl_is_now_p(b.sched, minute)
  <2>1. new = both
    BY <1>5 DEF add_begin_end, both
  <2> QED BY <1>4, <2>1
<1>6. CASE ~(b.sched.rec \/ tbl_is_now_p(b.sched, minute))
  <2> DEFINE x == ClientLine(clear_tbl(b, year, minute), "clear", b, e, << >>)
  <2>1. new = Append(both, x)
    BY <1>6 DEF add_begin_end, both
  <2>2. b \in OnceKey /\ e \in OnceKey
    BY <1>6, OnceDevice
  <2>3. x \in Line
    BY <2>2, ClearLineType
  <2>4. clear_tbl(b, year, minute).at \subseteq ClearTimes(b)
    BY DEF clear_tbl, ClearTimes, Once
  <2>5. Timed(x) /\ Around(x, minute)
    BY <2>4 DEF Timed, Around, ClientLine, OnHold
  <2> HIDE DEF x
  <2> QED BY <1>4, <2>1, <2>3, <2>5, AppendInCourse
<1> QED BY <1>5, <1>6

\* The job that jobnum looks up by its md5sum has that md5sum.
LEMMA JobnumFinds ==
  ASSUME NEW tab \in Seq(Line), OnHoldAt(tab) = {}, NEW md5,
         md5sumhexa_to_jobnum(tab, md5) # 0
  PROVE  tab[cronjob_line_numbers(tab)[md5sumhexa_to_jobnum(tab, md5)]].key = md5
<1> DEFINE sums == cronjob_md5sumhexa(tab)
           n == md5sumhexa_to_jobnum(tab, md5)
           I == {i \in DOMAIN sums : sums[i] = md5}
<1>1. sums \in Seq(Key) /\ n = LastOf(I)
  BY ParallelArrays DEF md5sumhexa_to_jobnum
<1>2. I \in SUBSET (1 .. Len(sums)) /\ Len(sums) \in Nat
  BY <1>1, LenProperties
<1>3. n \in I \cup {0}
  <2> HIDE DEF I, n
  <2> QED BY <1>1, <1>2, FirstLast
<1>4. n \in DOMAIN sums /\ sums[n] = md5
  BY <1>3
<1> HIDE DEF n
<1>5. tab[cronjob_line_numbers(tab)[n]].key = md5
  BY <1>4, ArraysAgree
<1> QED BY <1>5 DEF n

\* cron_next() is later than its argument.
LEMMA NextIsLater ==
  ASSUME NEW sched \in Schedule, sched.at # {}, NEW minute \in Slot
  PROVE  ccnext2(sched, minute) \in Int /\ ccnext2(sched, minute) > minute
<1> DEFINE D == {d \in 1 .. YearLen : (minute + d) % YearLen \in sched.at}
<1>1. sched.at \subseteq Slot
  BY OnceKeys
<1>2. PICK t \in Slot : t \in sched.at
  BY <1>1
<1>3. PICK d \in 1 .. YearLen : (minute + d) % YearLen = t
  <2>1. YearLen \in Nat /\ YearLen > 0 /\ minute \in 0 .. YearLen - 1 /\ t \in 0 .. YearLen - 1
    BY YearLenAssumption DEF Slot
  <2>2. CASE t > minute
    <3>1. t - minute \in 1 .. YearLen /\ (minute + (t - minute)) = t
      BY <2>1, <2>2
    <3>2. t % YearLen = t
      BY <2>1
    <3> QED BY <3>1, <3>2
  <2>3. CASE t <= minute
    <3>1. YearLen + t - minute \in 1 .. YearLen
          /\ (minute + (YearLen + t - minute)) = t + YearLen
      BY <2>1, <2>3
    <3>2. (t + YearLen) % YearLen = t
      BY <2>1
    <3> QED BY <3>1, <3>2
  <2> QED BY <2>1, <2>2, <2>3
<1>4. D # {} /\ D \in SUBSET Int /\ \A k \in D : k >= 1
  BY <1>2, <1>3
<1>5. Min(D) \in D
  <2>1. YearLen \in Nat /\ D \in SUBSET (1 .. YearLen)
    BY YearLenAssumption
  <2> HIDE DEF D
  <2> QED BY <1>4, <2>1, FirstLast DEF FirstOf
<1>6. ccnext2(sched, minute) = minute + Min(D)
  BY DEF ccnext2
<1>7. Min(D) \in Int /\ Min(D) >= 1
  <2> HIDE DEF D
  <2> QED BY <1>4, <1>5
<1>8. minute \in Int
  BY DEF Slot
<1> HIDE DEF D
<1> QED BY <1>6, <1>7, <1>8

\* At the beginning, or in the minute before, what clear_schedule_for() holds is
\* due from now to the end: there is nothing to be held if the end is before the
\* beginning, or the minute before is in last year.
LEMMA HoldInCourse ==
  ASSUME NEW tab \in Seq(Line), OnHoldAt(tab) = {}, NEW b \in OnceKey, NEW e \in OnceKey,
         ~clear_fails(tab, b, e), ~clear_returns(tab, b, e),
         NEW minute \in Slot, minute \in ClearTimes(b),
         NEW k \in jobs_to_hold(tab, b, e, minute)
  PROVE  LET from == schedule_to_epoch(b.sched)
             to == schedule_to_epoch(e.sched)
         IN  from <= to /\ minute \in from - 1 .. to
<1> DEFINE jobs == cronjob_line_numbers(tab)
           n_b == md5sumhexa_to_jobnum(tab, b)
           n_e == md5sumhexa_to_jobnum(tab, e)
           x == tab[jobs[k]]
           from == schedule_to_epoch(b.sched)
           to == schedule_to_epoch(e.sched)
           next == ccnext2(x.key.sched, minute)
<1>1. n_b # 0 /\ n_e # 0
  BY DEF clear_fails, clear_returns
<1>2. tab[jobs[n_b]].key = b /\ tab[jobs[n_e]].key = e
  BY <1>1, JobnumFinds
<1>3. next \in from .. to
  <2>1. next \in schedule_to_epoch(tab[jobs[n_b]].key.sched)
                 .. schedule_to_epoch(tab[jobs[n_e]].key.sched)
    BY DEF jobs_to_hold
  <2> QED BY <1>2, <2>1
<1>4. from \in Slot /\ to \in Slot
  BY OnceKeys DEF OnceKey
<1>5. x.key.sched \in Schedule
  <2>1. jobs[k] \in ActiveAt(tab)
    BY HoldScripts
  <2>2. x \in Line /\ IsEntry(x)
    BY <2>1, LenProperties, ElementOfSeq DEF ActiveAt, Active
  <2> HIDE DEF x
  <2> QED BY <2>2, EntryOfLine
<1>6. x.key.sched.at # {}
  <2> HIDE DEF x
  <2>1. CASE x.key.sched \in [rec : {TRUE}, at : (SUBSET Slot) \ {{}}]
    BY <2>1
  <2>2. CASE \E t \in Slot : x.key.sched = Once(t)
    <3>1. PICK t \in Slot : x.key.sched = Once(t)
      BY <2>2
    <3>2. t \in x.key.sched.at
      BY <3>1 DEF Once
    <3> QED BY <3>2
  <2> QED BY <1>5, <2>1, <2>2 DEF Schedule
<1>7. next \in Int /\ next > minute
  <2> HIDE DEF x
  <2> QED BY <1>5, <1>6, NextIsLater
<1> HIDE DEF next
<1>8. from \in 0 .. YearLen - 1 /\ to \in 0 .. YearLen - 1 /\ minute \in 0 .. YearLen - 1
      /\ YearLen \in Nat /\ YearLen > 0
  BY <1>4, YearLenAssumption DEF Slot
<1>9. minute = from \/ minute = (from - 1) % YearLen
  BY DEF ClearTimes
<1> HIDE DEF from, to
<1>10. from <= to /\ minute < to
  BY <1>3, <1>7, <1>8
<1>11. minute >= from - 1
  <2>1. CASE minute = from
    BY <1>8, <2>1
  <2>2. CASE minute = (from - 1) % YearLen /\ from > 0
    <3>1. (from - 1) % YearLen = from - 1
      BY <1>8, <2>2
    <3> QED BY <1>8, <2>2, <3>1
  <2>3. CASE from = 0
    BY <1>8, <2>3
  <2> QED BY <1>8, <1>9, <2>1, <2>2, <2>3
<1>12. from <= to /\ minute \in from - 1 .. to
  BY <1>8, <1>10, <1>11
<1> QED BY <1>12 DEF from, to

\* clear_schedule_for() puts lines on hold and writes the unhold line for the
\* minute after the end.
LEMMA ClearInCourse ==
  ASSUME NEW tab \in Seq(Line), Tidy(tab), TimedTable(tab),
         NEW b \in OnceKey, NEW e \in OnceKey,
         Sends(tab, [kind |-> "clear", b |-> b, e |-> e]),
         ~clear_fails(tab, b, e), ~clear_returns(tab, b, e),
         NEW minute \in Slot, minute \in ClearTimes(b)
  PROVE  /\ TimedTable(clear_schedule_for(tab, b, e, minute))
         /\ AroundTable(clear_schedule_for(tab, b, e, minute), minute)
<1> DEFINE jobs == cronjob_line_numbers(tab)
           hold == jobs_to_hold(tab, b, e, minute)
           sums == cronjob_md5sumhexa(tab)
           held == KeepAt(sums, hold)
           lines == {jobs[k] : k \in hold}
           new == hold_lines(tab, lines, <<b, e>>)
           unhold == ClientLine(schedule_end(tab, e), "unhold", b, e, held)
           D == {linenum_of_clear_schedule(tab, b, e)}
           result == clear_schedule_for(tab, b, e, minute)
<1>0. result = tblDeleteLines(Append(new, unhold), D)
  BY DEF clear_schedule_for
<1> HIDE DEF D, result
<1>1. OnHoldAt(tab) = {}
  <2>1. \A i \in ClientsAt(tab) : tab[i].key.do # "unhold"
    BY SendsClear
  <2> QED BY <2>1, NoUnholdNoneOnHold
<1>2. lines \in SUBSET ActiveAt(tab) /\ <<b, e>> \in Instigator
  <2>1. \A k \in hold : jobs[k] \in ActiveAt(tab)
    BY <1>1, HoldScripts
  <2> HIDE DEF hold, jobs
  <2> QED BY <2>1, OnceKeys DEF Instigator
<1>3. held \in Seq(Key)
  <2>1. hold \in SUBSET (DOMAIN sums) /\ sums \in Seq(Key)
    <3>1. sums \in Seq(Key) /\ DOMAIN jobs \subseteq DOMAIN sums
      BY ParallelArrays
    <3>2. \A k \in hold : k \in DOMAIN jobs
      BY <1>1, HoldScripts
    <3> HIDE DEF hold, jobs, sums
    <3> QED BY <3>1, <3>2
  <2> HIDE DEF hold, sums
  <2> QED BY <2>1, KeepAtLines
<1>4. SameButMarks(tab, new)
  <2> HIDE DEF lines
  <2> QED BY <1>2, HoldSame
<1>5. AroundTable(new, minute)
  <2> SUFFICES ASSUME NEW i \in DOMAIN tab
               PROVE  Around(new[i], minute)
    BY <1>4 DEF AroundTable, SameButMarks
  <2>1. CASE i \in lines
    <3>1. PICK k \in hold : i = jobs[k]
      BY <2>1
    <3>2. /\ schedule_to_epoch(b.sched) <= schedule_to_epoch(e.sched)
          /\ minute \in schedule_to_epoch(b.sched) - 1 .. schedule_to_epoch(e.sched)
      BY <1>1, HoldInCourse
    <3>3. new[i] = PutOnHold(tab[i], <<b, e>>)
      BY <2>1 DEF hold_lines
    <3>4. tab[i] \in Entry
      <4>1. i \in ActiveAt(tab)
        BY <1>2, <2>1
      <4> QED BY <4>1, LenProperties, ElementOfSeq, EntryOfLine DEF ActiveAt, Active
    <3>5. new[i].by = <<b, e>>
      BY <3>3, <3>4 DEF PutOnHold, Entry
    <3> HIDE DEF new
    <3> QED BY <3>2, <3>5 DEF Around
  <2>2. CASE i \notin lines
    <3>1. new[i] = tab[i] /\ ~OnHold(tab[i])
      BY <1>1, <2>2 DEF hold_lines, OnHoldAt
    <3> QED BY <3>1 DEF Around
  <2> QED BY <2>1, <2>2
<1>6. TimedTable(new)
  BY <1>4, MarksInCourse
<1>7. /\ unhold \in Line /\ ~OnHold(unhold)
      /\ unhold.key.do = "unhold" /\ unhold.key.e = e
      /\ unhold.key.sched = schedule_end(tab, e)
  <2> HIDE DEF held
  <2>1. unhold \in Line
    BY <1>3, ScheduleEndType, WrittenLines
  <2> QED BY <2>1 DEF ClientLine, OnHold
<1>8. schedule_end(tab, e) = Once(UnholdTime(e))
  <2>1. md5sumhexa_to_jobnum(tab, e) # 0
    BY DEF clear_fails, clear_returns
  <2>2. tab[jobs[md5sumhexa_to_jobnum(tab, e)]].key = e
    BY <1>1, <2>1, JobnumFinds
  <2> QED BY <2>2 DEF schedule_end, UnholdTime
<1>9. Timed(unhold) /\ Around(unhold, minute)
  <2> HIDE DEF unhold
  <2> QED BY <1>7, <1>8 DEF Timed, Around, Once
<1>10. new \in Seq(Line)
  BY <1>4 DEF SameButMarks
<1> HIDE DEF new, unhold
<1>11. /\ Append(new, unhold) \in Seq(Line)
       /\ TimedTable(Append(new, unhold)) /\ AroundTable(Append(new, unhold), minute)
  BY <1>5, <1>6, <1>7, <1>9, <1>10, AppendInCourse, AppendProperties
<1>12. TimedTable(result) /\ AroundTable(result, minute)
  BY <1>0, <1>11, DeleteFrom, PartInCourse
<1> QED BY <1>12 DEF result

\* unhold_jobs_delete_jobs() leaves nothing on hold.
LEMMA UnholdInCourse ==
  ASSUME NEW tab \in Seq(Line), Tidy(tab), TimedTable(tab),
         NEW b \in OnceKey, NEW e \in OnceKey, NEW held \in Seq(Key),
         Sends(tab, [kind |-> "unhold", b |-> b, e |-> e, held |-> held]),
         ~unhold_fails(tab, held, b, e), NEW minute
  PROVE  /\ TimedTable(unhold_jobs_delete_jobs(tab, held, b, e))
         /\ AroundTable(unhold_jobs_delete_jobs(tab, held, b, e), minute)
<1> DEFINE lines == {onholdjob_linenum(tab, w) : w \in ToSet(unhold_words(held, b, e))}
           new == unhold_lines(tab, lines)
           result == unhold_jobs_delete_jobs(tab, held, b, e)
<1>1. \E D : result = tblDeleteLines(new, D)
  BY DEF unhold_jobs_delete_jobs
<1> HIDE DEF result
<1>2. \A w : onholdjob_linenum(tab, w) \in OnHoldAt(tab) \cup {0}
  BY OnHoldLookup
<1>3. lines \in SUBSET (OnHoldAt(tab) \cup {0})
  BY <1>2
<1>4. SameButMarks(tab, new)
  <2> HIDE DEF lines
  <2> QED BY <1>3, UnholdSame
<1>5. TimedTable(new) /\ new \in Seq(Line)
  BY <1>4, MarksInCourse DEF SameButMarks
<1> HIDE DEF new
<1>6. TimedTable(result)
  BY <1>1, <1>5, DeleteFrom, PartInCourse
<1>7. OnHoldAt(result) = {}
  BY UnholdTidy DEF result
<1>8. AroundTable(result, minute)
  BY <1>7, NoneInCourse
<1> QED BY <1>6, <1>8 DEF result

-----------------------------------------------------------------------------
(* Every step keeps the invariant *)

\* The program starts with nothing of its own in the crontab, nothing on hold.
LEMMA InitCourse == OneByOne /\ Init => CourseInv
<1> SUFFICES ASSUME OneByOne, Init PROVE CourseInv
  OBVIOUS
<1>1. TimedTable(crontab)
  BY NoClientLinesAssumption DEF Init, TimedTable, Timed
<1>2. AroundTable(crontab, now)
  BY NoneInCourse DEF OneByOne, Init
<1>3. inbox = << >> /\ DOMAIN inbox = {} /\ req.kind = "none" /\ pc = "accept"
      /\ work = << >> /\ DOMAIN work = {}
  BY DEF Init, NoReq
<1> QED BY <1>1, <1>2, <1>3 DEF CourseInv, TimedTable, AroundTable, ClearInTime

\* A minute later every line is still in its course, unless one of them is at
\* its end.
LEMMA NextMinute ==
  ASSUME NEW tab, NEW minute \in Slot, AroundTable(tab, minute),
         tab \in Seq(Line),
         \A i \in OnHoldAt(tab) : tab[i].by # << >> =>
           minute # schedule_to_epoch(tab[i].by[2].sched) /\ tab[i].by \in OnceKey \X OnceKey
  PROVE  AroundTable(tab, (minute + 1) % YearLen)
<1> SUFFICES ASSUME NEW i \in DOMAIN tab, OnHold(tab[i]), tab[i].by # << >>
             PROVE  /\ schedule_to_epoch(tab[i].by[1].sched) <= schedule_to_epoch(tab[i].by[2].sched)
                    /\ (minute + 1) % YearLen \in
                         schedule_to_epoch(tab[i].by[1].sched) - 1
                           .. schedule_to_epoch(tab[i].by[2].sched)
  BY DEF AroundTable, Around
<1> DEFINE from == schedule_to_epoch(tab[i].by[1].sched)
           to == schedule_to_epoch(tab[i].by[2].sched)
<1>1. minute # to /\ tab[i].by[1] \in OnceKey /\ tab[i].by[2] \in OnceKey
  BY DEF OnHoldAt
<1>2. from <= to /\ minute \in from - 1 .. to
  BY DEF AroundTable, Around
<1>3. from \in Slot /\ to \in Slot
  BY <1>1, OnceKeys DEF OnceKey
<1> HIDE DEF from, to
<1>4. from \in 0 .. YearLen - 1 /\ to \in 0 .. YearLen - 1 /\ minute \in 0 .. YearLen - 1
      /\ YearLen \in Nat /\ YearLen > 0
  BY <1>3, YearLenAssumption DEF Slot
<1>5. (minute + 1) % YearLen = minute + 1
  BY <1>1, <1>2, <1>4
<1>6. from <= to /\ (minute + 1) % YearLen \in from - 1 .. to
  BY <1>1, <1>2, <1>4, <1>5
<1> QED BY <1>6 DEF from, to

\* In the minute after the end of a course the unhold line fires; nothing else
\* arrives before.
LEMMA TickCourse ==
  ASSUME OneByOne, TypeOK, HeldInv, ServerAlive, CourseInv, Tick
  PROVE  CourseInv'
<1> DEFINE fired == FiredAt(crontab, now')
           clients == {i \in fired : IsClient(crontab[i])}
           messages == {MessageOf(crontab[i]) : i \in clients}
<1>1. pc = "accept" /\ inbox = << >> /\ req = NoReq /\ req.kind = "none"
  BY DEF OneByOne, Tick, Idle, TypeOK, NoReq, ServerAlive, CourseInv
<1>2. /\ UNCHANGED <<crontab, pc, req, work>> /\ now' = (now + 1) % YearLen
      /\ work = << >> /\ DOMAIN work = {}
  BY <1>1 DEF Tick, HeldInv, WorkFromCrontab
<1>3. AroundTable(crontab, now)
  BY <1>1 DEF CourseInv, UnholdDue
<1>4. PICK arrivals \in SetToSeqs(messages) : inbox' = inbox \o arrivals
  BY <1>1 DEF Tick
<1>5. clients \subseteq ClientsAt(crontab) /\ clients \in SUBSET (DOMAIN crontab)
  BY DEF FiredAt, ActiveAt, ClientsAt
<1>6. arrivals \in Seq(Received)
  BY <1>4, <1>5, ArrivalsType DEF TypeOK, ClientsAt
<1>7. inbox' = arrivals
  BY <1>1, <1>4, <1>6
<1>8. arrivals \in [1 .. Cardinality(messages) -> messages]
  BY DEF SetToSeqs
<1>9. (\A n \in DOMAIN inbox : ClearInTime(inbox[n]))'
  <2> SUFFICES ASSUME NEW n \in DOMAIN arrivals, arrivals[n].kind = "clear"
               PROVE  now' \in ClearTimes(arrivals[n].b)
    BY <1>7 DEF ClearInTime
  <2>1. PICK i \in clients : arrivals[n] = MessageOf(crontab[i])
    BY <1>8
  <2>2. crontab[i].key.do = "clear" /\ arrivals[n].b = crontab[i].key.b
    BY <2>1, <1>5 DEF MessageOf
  <2>3. now' \in crontab[i].key.sched.at
    BY DEF FiredAt
  <2> QED BY <1>5, <2>2, <2>3 DEF CourseInv, TimedTable, Timed
<1>10. ASSUME NEW i \in OnHoldAt(crontab), crontab[i].by # << >>,
              now = schedule_to_epoch(crontab[i].by[2].sched)
       PROVE  UnholdDue'
  <2>1. PICK u \in ClientsAt(crontab) :
          /\ crontab[u].key.do = "unhold"
          /\ <<crontab[u].key.b, crontab[u].key.e>> = crontab[i].by
    BY DEF HeldInv, Tidy, Listed
  <2>2. crontab[u].key.e = crontab[i].by[2]
    BY <2>1
  <2>3. UnholdTime(crontab[u].key.e) = now'
    BY <1>2, <1>10, <2>2 DEF UnholdTime
  <2>4. now' \in crontab[u].key.sched.at
    BY <2>1, <2>3 DEF CourseInv, TimedTable, Timed, ClientsAt
  <2>5. u \in clients
    BY <2>4 DEF HeldInv, Tidy, OneClient, ClientsAt, FiredAt, ActiveAt, Active, IsClient
  <2>6. messages = {MessageOf(crontab[u])}
    BY <1>5, <2>5 DEF HeldInv, Tidy, OneClient
  <2>7. Cardinality(messages) = 1
    <3> HIDE DEF messages
    <3> QED BY <2>6, FS_Singleton
  <2>8. DOMAIN arrivals = 1 .. 1 /\ arrivals[1] = MessageOf(crontab[u])
    <3> HIDE DEF messages
    <3> QED BY <1>8, <2>6, <2>7
  <2>9. Head(inbox') = MessageOf(crontab[u]) /\ inbox' # << >>
    <3> HIDE DEF messages
    <3>1. Len(arrivals) = 1
      BY <1>6, <2>8, LenProperties
    <3>2. arrivals # << >> /\ Head(arrivals) = arrivals[1]
      BY <1>6, <3>1, HeadTailProperties, EmptySeq
    <3> QED BY <1>7, <2>8, <3>2
  <2>10. MessageOf(crontab[u]).kind = "unhold"
    BY <2>1 DEF MessageOf
  <2> QED BY <2>9, <2>10 DEF UnholdDue
<1>11. AroundTable(crontab', now') \/ UnholdDue'
  <2>1. \A i \in OnHoldAt(crontab) : crontab[i].by # << >> =>
          crontab[i].by \in OnceKey \X OnceKey
    <3> SUFFICES ASSUME NEW i \in OnHoldAt(crontab), crontab[i].by # << >>
                 PROVE  crontab[i].by \in OnceKey \X OnceKey
      OBVIOUS
    <3>1. PICK u \in ClientsAt(crontab) :
            <<crontab[u].key.b, crontab[u].key.e>> = crontab[i].by
      BY DEF HeldInv, Tidy, Listed
    <3>2. crontab[u] \in Line /\ IsEntry(crontab[u]) /\ IsClient(crontab[u])
      BY LenProperties, ElementOfSeq DEF TypeOK, ClientsAt, IsClient
    <3>3. crontab[u].key \in ClientKey
      BY <3>2, EntryOfLine
    <3>4. crontab[u].key.b \in OnceKey /\ crontab[u].key.e \in OnceKey
      BY <3>3 DEF ClientKey
    <3>5. <<crontab[u].key.b, crontab[u].key.e>> \in OnceKey \X OnceKey
      BY <3>4
    <3> QED BY <3>1, <3>5, Zenon
  <2>2. CASE \A i \in OnHoldAt(crontab) : crontab[i].by # << >> =>
               now # schedule_to_epoch(crontab[i].by[2].sched)
    <3>1. now \in Slot /\ crontab \in Seq(Line)
      BY DEF TypeOK
    <3>2. AroundTable(crontab, (now + 1) % YearLen)
      BY <1>3, <2>1, <2>2, <3>1, NextMinute
    <3> QED BY <1>2, <3>2
  <2> QED BY <1>10, <2>2
<1>12. TimedTable(crontab') /\ TimedTable(work') /\ AroundTable(work', now')
  BY <1>2 DEF CourseInv, AroundTable
<1>13. ClearInTime(req)' /\ pc' = "accept"
  BY <1>1, <1>2 DEF ClearInTime
<1> QED BY <1>9, <1>11, <1>12, <1>13 DEF CourseInv

\* A user's connection is the last one, and is no client's.
LEMMA UserSendsCourse ==
  ASSUME TypeOK, CourseInv, NEW c \in UserCommands, UserSends(c)
  PROVE  CourseInv'
<1>1. UNCHANGED <<crontab, now, pc, req, work>> /\ inbox' = Append(inbox, c)
  BY DEF UserSends
<1>2. c.kind \notin {"clear", "unhold"}
  BY UserCommandsAssumption DEF Command, Failing
<1>3. /\ Len(inbox) \in Nat /\ DOMAIN inbox = 1 .. Len(inbox)
      /\ inbox' \in Seq(Received) /\ DOMAIN inbox' = 1 .. Len(inbox) + 1
      /\ \A n \in 1 .. Len(inbox) : inbox'[n] = inbox[n]
      /\ inbox'[Len(inbox) + 1] = c
  <2>1. c \in Received /\ inbox \in Seq(Received)
    BY DEF TypeOK, Received
  <2> QED BY <1>1, <2>1, AppendProperties, LenProperties
<1>4. (\A n \in DOMAIN inbox : ClearInTime(inbox[n]))'
  <2> SUFFICES ASSUME NEW n \in DOMAIN inbox', inbox'[n].kind = "clear"
               PROVE  now \in ClearTimes(inbox'[n].b)
    BY <1>1 DEF ClearInTime
  <2>1. n = Len(inbox) + 1 \/ n \in 1 .. Len(inbox)
    BY <1>3
  <2> QED BY <1>2, <1>3, <2>1 DEF CourseInv, ClearInTime
<1>5. UnholdDue => UnholdDue'
  <2>1. CASE inbox # << >> /\ Head(inbox).kind = "unhold"
    <3>1. 1 \in 1 .. Len(inbox) /\ Head(inbox) = inbox[1]
      BY <2>1, HeadTailProperties, LenProperties DEF TypeOK
    <3>2. inbox' # << >> /\ Head(inbox') = inbox'[1]
      BY <1>3, HeadTailProperties, LenProperties
    <3> QED BY <1>3, <2>1, <3>1, <3>2 DEF UnholdDue
  <2> QED BY <1>1, <2>1 DEF UnholdDue
<1> QED BY <1>1, <1>4, <1>5 DEF CourseInv, ClearInTime

\* The owner adds a line about the device.
LEMMA OwnerAddsCourse ==
  ASSUME TypeOK, CourseInv, NEW x \in OwnerLines, OwnerAdds(x)
  PROVE  CourseInv'
<1>1. UNCHANGED <<now, inbox, pc, req, work>> /\ crontab' = Append(crontab, x)
  BY DEF OwnerAdds
<1>2. PICK k \in DeviceKey : x = DeviceLine(k, FALSE)
  BY OwnerLinesAssumption
<1>3. /\ TimedTable(crontab')
      /\ AroundTable(crontab, now) => AroundTable(crontab', now)
  BY <1>1, <1>2, ReadInCourse DEF TypeOK, CourseInv
<1>4. UnholdDue' = UnholdDue
  BY <1>1 DEF UnholdDue
<1> QED BY <1>1, <1>3, <1>4 DEF CourseInv, ClearInTime

\* The first connection becomes the command in hand.
LEMMA AcceptCourse ==
  ASSUME TypeOK, CourseInv, Accept
  PROVE  CourseInv'
<1>1. /\ pc = "accept" /\ pc' = "dispatch" /\ inbox # << >>
      /\ req' = Head(inbox) /\ inbox' = Tail(inbox)
      /\ UNCHANGED <<crontab, now, work>>
  BY DEF Accept
<1>2. /\ Len(inbox) \in Nat /\ DOMAIN inbox = 1 .. Len(inbox) /\ 1 \in DOMAIN inbox
      /\ req' = inbox[1]
      /\ DOMAIN inbox' = 1 .. Len(inbox) - 1
      /\ \A n \in DOMAIN inbox' : inbox'[n] = inbox[n + 1]
  BY <1>1, LenProperties, HeadTailProperties DEF TypeOK
<1>3. \A n \in DOMAIN inbox' : n + 1 \in DOMAIN inbox
  BY <1>2
<1>4. (\A n \in DOMAIN inbox : ClearInTime(inbox[n]))' /\ ClearInTime(req)'
  BY <1>1, <1>2, <1>3 DEF CourseInv, ClearInTime
<1>5. UnholdDue => UnholdDue'
  BY <1>1 DEF UnholdDue, TypeOK, NoReq
<1> QED BY <1>1, <1>4, <1>5 DEF CourseInv

\* A handler but the one of "unhold" finds every line in its course.
LEMMA FoundInCourse ==
  ASSUME TypeOK, HeldInv, CourseInv, pc \notin {"accept", "dead", "off"}
  PROVE  /\ req.kind # "unhold" => AroundTable(crontab, now)
         /\ req.kind # "unhold" => AroundTable(cron_all(crontab), now)
         /\ TimedTable(cron_all(crontab))
         /\ cron_all(crontab) \in Seq(Line) /\ Tidy(cron_all(crontab))
<1>1. req.kind # "unhold" => ~UnholdDue
  <2>1. \A n \in DOMAIN inbox : inbox[n].kind # "unhold"
    BY InHand DEF HeldInv
  <2>2. inbox # << >> => Head(inbox) = inbox[1] /\ 1 \in DOMAIN inbox
    BY HeadTailProperties, LenProperties DEF TypeOK
  <2> QED BY <2>1, <2>2 DEF UnholdDue
<1>2. TimedTable(crontab) /\ (req.kind # "unhold" => AroundTable(crontab, now))
  BY <1>1 DEF CourseInv
<1>3. crontab \in Seq(Line) /\ Tidy(crontab)
  BY DEF TypeOK, HeldInv
<1> QED BY <1>2, <1>3, ReadInCourse, CronAllTidy

\* A handler that is done.
LEMMA FinishCourse ==
  ASSUME CourseInv, AroundTable(crontab, now), Finish, UNCHANGED <<crontab, now, inbox>>
  PROVE  CourseInv'
<1>1. pc' = "accept" /\ req'.kind = "none" /\ work' = << >> /\ DOMAIN work' = {}
  BY DEF Finish, NoReq
<1> QED BY <1>1 DEF CourseInv, TimedTable, AroundTable, ClearInTime

\* A handler that goes on to write an array.
LEMMA GoSubmitCourse ==
  ASSUME CourseInv, NEW array, GoSubmit(array), TimedTable(array), AroundTable(array, now),
         UNCHANGED <<crontab, now, inbox>>
  PROVE  CourseInv'
<1>1. pc' = "submit" /\ work' = array /\ req' = req
  BY DEF GoSubmit
<1>2. UnholdDue' = UnholdDue
  BY <1>1 DEF UnholdDue
<1> QED BY <1>1, <1>2 DEF CourseInv, ClearInTime

\* The handlers that only report or run a disposition, and those that edit the
\* crontab they read, the two-part commands' own excepted.
LEMMA EditHandlersCourse ==
  ASSUME Undisturbed, TypeOK, HeldInv, ServerAlive', CourseInv,
         \/ HandleList \/ HandleLast \/ HandleFailing \/ HandleDo
         \/ HandleDeleteOld \/ HandleCancelLast \/ HandleHoldAll \/ HandleUnholdAll
         \/ HandleOnePart \/ HandleTwoPart
  PROVE  CourseInv'
<1> DEFINE tab == cron_all(crontab)
<1>1. pc = "dispatch" /\ req.kind # "unhold"
  BY DEF HandleList, HandleLast, HandleFailing, HandleDo, HandleDeleteOld, HandleCancelLast,
     HandleHoldAll, HandleUnholdAll, HandleOnePart, HandleTwoPart, Dispatch, Failing
<1>2. req \in Received /\ req \in Message
  BY <1>1, InHand DEF HeldInv
<1>3. /\ AroundTable(crontab, now) /\ AroundTable(tab, now) /\ TimedTable(tab)
      /\ tab \in Seq(Line)
  BY <1>1, FoundInCourse
<1> HIDE DEF tab
<1>4. ~Die
  BY DEF Die, ServerAlive
<1>5. CASE HandleList \/ HandleLast \/ HandleDo
  <2>1. Finish /\ UNCHANGED <<crontab, now, inbox>>
    BY <1>5 DEF HandleList, HandleLast, HandleDo
  <2> QED BY <1>3, <2>1, FinishCourse
<1>6. ~HandleFailing
  BY <1>4 DEF HandleFailing
<1>7. CASE HandleDeleteOld
  <2>1. GoSubmit(delete_old_cron_jobs(tab, now)) /\ UNCHANGED <<crontab, now, inbox>>
    BY <1>4, <1>7 DEF HandleDeleteOld, tab
  <2> QED BY <1>3, <2>1, DeleteOldInCourse, GoSubmitCourse
<1>8. req.kind \notin {"cancel_last", "hold_all"}
  BY <1>2 DEF Undisturbed, OneByOne, Received, CronMessage
<1>9. ~HandleCancelLast /\ ~HandleHoldAll
  BY <1>8 DEF HandleCancelLast, HandleHoldAll, Dispatch
<1>10. CASE HandleUnholdAll
  <2>1. /\ Finish \/ GoSubmit(unhold_all_jobs(tab))
        /\ UNCHANGED <<crontab, now, inbox>>
    BY <1>10 DEF HandleUnholdAll, tab
  <2> QED BY <1>3, <2>1, UnholdAllInCourse, FinishCourse, GoSubmitCourse
<1>11. CASE HandleOnePart
  <2>1. /\ req.kind = "one" /\ GoSubmit(add_begin(tab, KeyBegin(req)))
        /\ UNCHANGED <<crontab, now, inbox>>
    BY <1>11 DEF HandleOnePart, Dispatch, tab
  <2>2. KeyBegin(req) \in DeviceKey
    BY <1>2, <2>1, KeyTypes
  <2>3. /\ TimedTable(add_begin(tab, KeyBegin(req)))
        /\ AroundTable(add_begin(tab, KeyBegin(req)), now)
    BY <1>3, <2>2, ReadInCourse DEF add_begin
  <2> QED BY <2>1, <2>3, GoSubmitCourse
<1>12. CASE HandleTwoPart
  <2> DEFINE array == add_begin_end(tab, KeyBegin(req), KeyEnd(req), req.year, now)
  <2>1. /\ req.kind = "two" /\ GoSubmit(array)
        /\ UNCHANGED <<crontab, now, inbox>>
    BY <1>12 DEF HandleTwoPart, Dispatch, tab
  <2>2. /\ KeyBegin(req) \in DeviceKey /\ KeyEnd(req) \in DeviceKey
        /\ KeyBegin(req).sched.rec = KeyEnd(req).sched.rec
    BY <1>2, <2>1, KeyTypes
  <2>3. TimedTable(array) /\ AroundTable(array, now)
    BY <1>3, <2>2, TwoPartInCourse
  <2> HIDE DEF array
  <2> QED BY <2>1, <2>3, GoSubmitCourse
<1> QED BY <1>5, <1>6, <1>7, <1>9, <1>10, <1>11, <1>12

\* "clear schedule for" comes in the minute of its line.
LEMMA ClearCourse ==
  ASSUME TypeOK, HeldInv, ServerAlive', CourseInv, HandleClear
  PROVE  CourseInv'
<1> DEFINE tab == cron_all(crontab)
           b == req.b
           e == req.e
           array == clear_schedule_for(tab, b, e, now)
<1>1. pc = "dispatch" /\ req.kind = "clear" /\ ClearScheduleFor(b, e) /\ ~Die
  BY DEF HandleClear, Dispatch, Die, ServerAlive
<1>2. b \in OnceKey /\ e \in OnceKey /\ req \in Message
  BY <1>1, InHand, MessageKinds DEF HeldInv
<1>3. req = [kind |-> "clear", b |-> b, e |-> e]
  <2>1. req \in [kind : {"clear"}, b : OnceKey, e : OnceKey]
    BY <1>1, <1>2, UserCommandsAssumption DEF Message, Command, CronMessage, Failing
  <2> QED BY <2>1
<1>4. /\ tab \in Seq(Line) /\ Tidy(tab) /\ TimedTable(tab) /\ AroundTable(crontab, now)
      /\ Sends(tab, [kind |-> "clear", b |-> b, e |-> e])
  <2>1. Sends(crontab, req)
    BY <1>1 DEF HeldInv, CurrentClient
  <2>2. Sends(tab, [kind |-> "clear", b |-> b, e |-> e])
    BY <1>3, <2>1, CronAllTidy DEF TypeOK
  <2> QED BY <1>1, <2>2, FoundInCourse
<1>5. now \in Slot /\ now \in ClearTimes(b)
  BY <1>1 DEF TypeOK, CourseInv, ClearInTime
<1>6. ~clear_fails(tab, b, e) /\ UNCHANGED <<crontab, now, inbox>>
  BY <1>1 DEF ClearScheduleFor
<1>7. CASE Finish
  BY <1>4, <1>6, <1>7, FinishCourse
<1>8. CASE ~clear_returns(tab, b, e) /\ GoSubmit(array)
  <2>1. TimedTable(array) /\ AroundTable(array, now)
    <3> HIDE DEF tab, b, e
    <3> QED BY <1>2, <1>4, <1>5, <1>6, <1>8, ClearInCourse
  <2> HIDE DEF array
  <2> QED BY <1>6, <1>8, <2>1, GoSubmitCourse
<1> QED BY <1>1, <1>7, <1>8 DEF ClearScheduleFor

\* "unhold" releases everything.
LEMMA UnholdCourse ==
  ASSUME TypeOK, HeldInv, ServerAlive', CourseInv, HandleUnhold
  PROVE  CourseInv'
<1> DEFINE tab == cron_all(crontab)
           b == req.b
           e == req.e
           held == req.held
           array == unhold_jobs_delete_jobs(tab, held, b, e)
<1>1. pc = "dispatch" /\ req.kind = "unhold" /\ ~Die
  BY DEF HandleUnhold, Dispatch, Die, ServerAlive
<1>2. b \in OnceKey /\ e \in OnceKey /\ held \in Seq(Key)
      /\ req = [kind |-> "unhold", b |-> b, e |-> e, held |-> held]
  <2>1. req \in Message
    BY <1>1, InHand DEF HeldInv
  <2>2. req \in [kind : {"unhold"}, b : OnceKey, e : OnceKey, held : Seq(Key)]
    BY <1>1, <2>1, UserCommandsAssumption DEF Message, Command, CronMessage, Failing
  <2> QED BY <2>2
<1>3. /\ tab \in Seq(Line) /\ Tidy(tab) /\ TimedTable(tab)
      /\ Sends(tab, [kind |-> "unhold", b |-> b, e |-> e, held |-> held])
  <2>1. Sends(crontab, req)
    BY <1>1 DEF HeldInv, CurrentClient
  <2>2. Sends(tab, [kind |-> "unhold", b |-> b, e |-> e, held |-> held])
    BY <1>2, <2>1, CronAllTidy DEF TypeOK
  <2> QED BY <1>1, <2>2, FoundInCourse
<1>4. /\ ~unhold_fails(tab, held, b, e)
      /\ GoSubmit(array) /\ UNCHANGED <<crontab, now, inbox>>
  BY <1>1 DEF HandleUnhold
<1>5. TimedTable(array) /\ AroundTable(array, now)
  <2> HIDE DEF tab, b, e, held
  <2> QED BY <1>2, <1>3, <1>4, UnholdInCourse
<1> HIDE DEF array
<1> QED BY <1>4, <1>5, GoSubmitCourse

\* The write; a two-part command that begins now goes on.
LEMMA WriteCourse ==
  ASSUME TypeOK, CourseInv, Submit \/ Resubmit
  PROVE  CourseInv'
<1>1. crontab' = submit_crontab(work) /\ UNCHANGED <<now, inbox>>
  BY DEF Submit, Resubmit
<1>2. TimedTable(crontab') /\ AroundTable(crontab', now)
  BY <1>1, SubmitInCourse DEF TypeOK, CourseInv
<1>3. work' = << >> /\ DOMAIN work' = {}
  BY DEF Submit, Resubmit, Finish
<1>4. CASE Finish
  <2>1. pc' = "accept" /\ req'.kind = "none"
    BY <1>4 DEF Finish, NoReq
  <2> QED BY <1>1, <1>2, <1>3, <2>1 DEF CourseInv, TimedTable, AroundTable, ClearInTime
<1>5. CASE tbl_is_now_p(req.at, now) /\ pc' = "clear_now" /\ UNCHANGED req
  <2>1. req'.at.at = {now'} /\ pc' # "off"
    BY <1>1, <1>5 DEF tbl_is_now_p
  <2> QED BY <1>1, <1>2, <1>3, <1>5, <2>1 DEF CourseInv, TimedTable, AroundTable, ClearInTime
<1> QED BY <1>4, <1>5 DEF Submit, Resubmit

\* The clear_schedule_for() of a two-part command comes in the minute it begins.
LEMMA ClearNowCourse ==
  ASSUME TypeOK, HeldInv, ServerAlive', CourseInv, ClearNow
  PROVE  CourseInv'
<1> DEFINE tab == cron_all(crontab)
           b == KeyBegin(req)
           e == KeyEnd(req)
           array == clear_schedule_for(tab, b, e, now)
<1>1. pc = "clear_now" /\ req.kind = "two" /\ ~req.at.rec /\ ~Die
  BY DEF ClearNow, TypeOK, Die, ServerAlive
<1>2. b \in OnceKey /\ e \in OnceKey
  BY <1>1, InHand, KeyTypes DEF HeldInv
<1>3. /\ tab \in Seq(Line) /\ Tidy(tab) /\ TimedTable(tab) /\ AroundTable(crontab, now)
      /\ Sends(tab, [kind |-> "clear", b |-> b, e |-> e])
  <2>1. Sends(crontab, [kind |-> "clear", b |-> b, e |-> e])
    BY <1>1 DEF HeldInv, AloneInHand, ClearOf
  <2>2. Sends(tab, [kind |-> "clear", b |-> b, e |-> e])
    BY <2>1, CronAllTidy DEF TypeOK
  <2> QED BY <1>1, <2>2, FoundInCourse
<1>4. now \in Slot /\ now \in ClearTimes(b)
  <2>1. b.sched.at = {now}
    BY <1>1 DEF CourseInv, KeyBegin
  <2>2. schedule_to_epoch(b.sched) = now
    BY <2>1 DEF schedule_to_epoch
  <2> QED BY <2>2 DEF TypeOK, ClearTimes
<1>5. ~clear_fails(tab, b, e) /\ UNCHANGED <<crontab, now, inbox>>
  BY <1>1 DEF ClearNow
<1>6. CASE Finish
  BY <1>3, <1>5, <1>6, FinishCourse
<1>7. CASE /\ ~clear_returns(tab, b, e)
           /\ pc' = "resubmit" /\ work' = array /\ UNCHANGED req
  <2>1. TimedTable(array) /\ AroundTable(array, now)
    <3> HIDE DEF tab, b, e
    <3> QED BY <1>2, <1>3, <1>4, <1>5, <1>7, ClearInCourse
  <2>2. UnholdDue' = UnholdDue
    BY <1>5, <1>7 DEF UnholdDue
  <2> HIDE DEF array
  <2> QED BY <1>5, <1>7, <2>1, <2>2 DEF CourseInv, ClearInTime
<1> QED BY <1>1, <1>6, <1>7 DEF ClearNow

\* Every step of the system keeps the invariant.
LEMMA NextCourse ==
  ASSUME Undisturbed, TypeOK, HeldInv, ServerAlive, ServerAlive', CourseInv, [Next]_vars
  PROVE  CourseInv'
<1>1. OneByOne /\ ~Outages
  BY DEF Undisturbed
<1>2. CASE Tick
  BY <1>1, <1>2, TickCourse
<1>3. CASE \E c \in UserCommands : UserSends(c)
  BY <1>3, UserSendsCourse
<1>4. CASE \E x \in OwnerLines : OwnerAdds(x)
  BY <1>4, OwnerAddsCourse
<1>5. ~PowerFail /\ ~Boot
  BY <1>1 DEF PowerFail, Boot, CourseInv
<1>6. CASE Accept
  BY <1>6, AcceptCourse
<1>7. ~AcceptSilent
  BY DEF AcceptSilent, Die, ServerAlive
<1>8. CASE Handler
  BY <1>8, EditHandlersCourse, ClearCourse, UnholdCourse DEF Handler
<1>9. CASE Submit \/ Resubmit
  BY <1>9, WriteCourse
<1>10. CASE ClearNow
  BY <1>10, ClearNowCourse
<1>11. CASE UNCHANGED vars
  BY <1>11 DEF vars, CourseInv, UnholdDue, ClearInTime
<1> QED
  BY <1>2, <1>3, <1>4, <1>5, <1>6, <1>7, <1>8, <1>9, <1>10, <1>11 DEF Next, Server

\* What is found by an idle server is what HeldOnlyInCourse says.
LEMMA FoundWhenIdle ==
  ASSUME TypeOK, ServerAlive, CourseInv
  PROVE  HeldOnlyInCourse
<1>1. ASSUME Idle
      PROVE  AroundTable(crontab, now)
  <2>1. pc = "accept" /\ inbox = << >> /\ req = NoReq
    BY <1>1 DEF Idle, ServerAlive, CourseInv, TypeOK
  <2> QED BY <2>1 DEF CourseInv, UnholdDue, NoReq
<1>2. ASSUME Idle, NEW i \in OnHoldAt(crontab), crontab[i].by # << >>
      PROVE  /\ schedule_to_epoch(crontab[i].by[1].sched) <= schedule_to_epoch(crontab[i].by[2].sched)
             /\ now \in schedule_to_epoch(crontab[i].by[1].sched) - 1
                          .. schedule_to_epoch(crontab[i].by[2].sched)
  BY <1>1, <1>2 DEF OnHoldAt, AroundTable, Around
<1> QED BY <1>2 DEF HeldOnlyInCourse

\* README: "after which time they are unheld".  While two-part commands come one
\* at a time to a server that has power and lives, nothing is on hold for one of
\* them but from the minute before its beginning to its end (clear_schedule_for,
\* unhold_jobs_delete_jobs, and crond's firing of the lines they write).
THEOREM HeldInCourse == Undisturbed => (Spec => []HeldOnlyInCourse)
<1> SUFFICES ASSUME Undisturbed PROVE Spec => []HeldOnlyInCourse
  OBVIOUS
<1>1. OneByOne /\ Wholesome /\ \A c \in UserCommands : c.kind # "cancel_last"
  BY DEF Undisturbed
<1>2. Spec => []ServerAlive
  BY <1>1, StaysAlive
<1>3. TypeOK /\ Orderly /\ [Next]_vars => Orderly'
  BY <1>1, NextOrderly
<1>4. Init => Orderly /\ HeldInv /\ CourseInv
  BY <1>1, InitOrderly, InitHeld, InitCourse
<1>5. TypeOK /\ Orderly /\ Orderly' /\ HeldInv /\ [Next]_vars => HeldInv'
  BY <1>1, NextHeld
<1>6. TypeOK /\ HeldInv /\ ServerAlive /\ ServerAlive' /\ CourseInv /\ [Next]_vars => CourseInv'
  BY NextCourse
<1>7. TypeOK /\ ServerAlive /\ CourseInv => HeldOnlyInCourse
  BY FoundWhenIdle
<1> QED BY <1>2, <1>3, <1>4, <1>5, <1>6, <1>7, TypeCorrect, PTL DEF Spec

-----------------------------------------------------------------------------
(* What the second theorem assumes *)

\* The lines of a two-part command, and those that are there for other reasons:
\* the user's own, the owner's, and what one-part and recurring commands write.
LinesFor(c) == {KeyBegin(c), KeyEnd(c)}
Standing ==
  LinesOf(Crontab0, TRUE) \cup OwnKeys
    \cup {KeyBegin(c) : c \in {m \in UserCommands : m.kind = "one"}}
    \cup UNION {LinesFor(c) : c \in {m \in UserCommands : m.kind = "two" /\ m.at.rec}}

\* A disposition that is not the one of the end is not held: of these only
\* those are due in a course that do what the course does.
Covered ==
  \A c \in TwoParts, k \in Standing :
    \/ k.do = EndDisposition(c.do)
    \/ Effect(k.do) = Effect(c.do)
    \/ k.sched.at \cap (schedule_to_epoch(c.at) .. schedule_to_epoch(c.until) - 1) = {}

\* The two lines of a two-part command are not both there without it.
Apart ==
  \A c \in TwoParts :
    /\ ~(LinesFor(c) \subseteq Standing)
    /\ \A d \in TwoParts : LinesFor(c) \subseteq Standing \cup LinesFor(d) =>
         KeyBegin(c) = KeyBegin(d) /\ KeyEnd(c) = KeyEnd(d)

\* Courses lie within this year and are announced before the minute in which
\* the clear line is due.
Steady ==
  /\ Undisturbed
  /\ \A c \in UserCommands : c.kind # "unhold_all"
  /\ Lead >= 2
  /\ \A c \in TwoParts : c.year = 0 /\ schedule_to_epoch(c.at) <= schedule_to_epoch(c.until)
  /\ Covered
  /\ Apart

-----------------------------------------------------------------------------
(* Its inductive invariant *)

\* Where the lines of a table are from.
IsScript(x) == IsEntry(x) /\ ~IsClient(x)
About(tab) == UNION {{tab[u].key.b, tab[u].key.e} : u \in ClientsAt(tab)}
Accounted(tab, keys) ==
  \A i \in DOMAIN tab : IsScript(tab[i]) => tab[i].key \in Standing \cup About(tab) \cup keys

\* There is one line of each that a two-part command brought, and it is active.
Single(tab) ==
  \A i, j \in DOMAIN tab :
    /\ IsScript(tab[i]) /\ tab[i].key \notin Standing => ~tab[i].onhold
    /\ IsScript(tab[i]) /\ IsScript(tab[j]) /\ tab[i].key = tab[j].key
         /\ tab[i].key \notin Standing => i = j

\* Client lines are a two-part command's, and a clear line is for the minute
\* before the beginning.
Course(b, e) == \E c \in TwoParts : b = KeyBegin(c) /\ e = KeyEnd(c)
Due(b) == schedule_to_epoch(b.sched)
OfCourse(tab) ==
  \A u \in ClientsAt(tab) :
    /\ Course(tab[u].key.b, tab[u].key.e)
    /\ tab[u].key.do = "clear" => tab[u].key.sched.at = {Due(tab[u].key.b) - 1}

\* Begin and end are there.
There(tab, k) == \E i \in DOMAIN tab : IsScript(tab[i]) /\ tab[i].key = k
Both(tab, b, e) == There(tab, b) /\ There(tab, e)

\* No active line that would end the course is due before it is over, and what
\* begins it is not on hold.
Quiet(tab, b, e, minute) ==
  /\ \A i \in ActiveAt(tab) :
       ~IsClient(tab[i]) /\ tab[i].key.do = e.do /\ tab[i].key \notin {b, e} =>
         tab[i].key.sched.at \cap (minute + 1 .. Due(e)) = {}
  /\ \A i \in OnHoldAt(tab) : tab[i].key # b

\* The course of a client line has not begun, or nothing will interrupt it and
\* the device is as it should be.
Phase(tab, minute, state) ==
  \A u \in ClientsAt(tab) :
    LET b == tab[u].key.b
        e == tab[u].key.e
    IN  Both(tab, b, e) =>
          IF tab[u].key.do = "clear"
          THEN minute < Due(b) - 1
          ELSE /\ minute \in Due(b) - 1 .. Due(e)
               /\ Quiet(tab, b, e, minute)
               /\ minute \in Due(b) .. Due(e) - 1 => state = Effect(b.do)

\* The client line's message is there and not yet handled.
ClientDue ==
  \/ inbox # << >> /\ Head(inbox).kind \in {"clear", "unhold"}
  \/ req.kind \in {"clear", "unhold"}

\* A two-part command that begins now has written its lines.
Begins == req.kind = "two" /\ tbl_is_now_p(req.at, now)
Beginning == Begins /\ pc # "dispatch"
Hand == IF Beginning THEN LinesFor(req) ELSE {}
Begun ==
  Beginning =>
    /\ device = Effect(req.do)
    /\ pc = "submit" => Both(work, KeyBegin(req), KeyEnd(req))
    /\ pc = "clear_now" => Both(crontab, KeyBegin(req), KeyEnd(req))

\* Messages are in time, a clear for a course.
InTime(m) ==
  /\ m.kind = "clear" => now = Due(m.b) - 1 /\ Course(m.b, m.e)
  /\ m.kind = "two" /\ ~m.at.rec =>
       tbl_is_now_p(m.at, now) \/ schedule_to_epoch(m.at) >= now + 2

\* What changes the device waits only while no two-part command is about.
Scheduling == {"do", "one", "two"}
NothingBefore ==
  /\ \A n \in DOMAIN inbox : inbox[n].kind \in Scheduling =>
       /\ NoClients(crontab) /\ NoClients(work)
       /\ req.kind \notin TwoKinds
       /\ \A m \in 1 .. n - 1 : inbox[m].kind \notin TwoKinds
  /\ req.kind \in {"do", "one"} => NoClients(crontab)

SteadyInv ==
  /\ Accounted(crontab, Hand)
  /\ Accounted(work, IF pc = "submit" THEN Hand ELSE {})
  /\ Single(crontab) /\ Single(work)
  /\ OfCourse(crontab) /\ OfCourse(work)
  /\ Phase(crontab, now, device) \/ ClientDue
  /\ Phase(work, now, device)
  /\ Begun
  /\ \A n \in DOMAIN inbox : InTime(inbox[n])
  /\ pc = "dispatch" => InTime(req)
  /\ NothingBefore

-----------------------------------------------------------------------------
(* What keeps a table steady *)

\* A loop that passes over lines.
LEMMA PartSteady ==
  ASSUME NEW tab, NEW new, Part(tab, new), NEW minute, NEW state
  PROVE  /\ Single(tab) => Single(new)
         /\ OfCourse(tab) => OfCourse(new)
         /\ Phase(tab, minute, state) => Phase(new, minute, state)
         /\ \A keys : Accounted(tab, keys)
              /\ (\A u \in ClientsAt(tab) : \E n \in DOMAIN new : new[n] = tab[u])
              => Accounted(new, keys)
<1>1. PICK f \in Injection(DOMAIN new, DOMAIN tab) : \A k \in DOMAIN new : new[k] = tab[f[k]]
  BY DEF Part, From
<1>2. /\ \A k \in DOMAIN new : f[k] \in DOMAIN tab /\ new[k] = tab[f[k]]
      /\ \A k, l \in DOMAIN new : f[k] = f[l] => k = l
  BY <1>1 DEF Injection, IsInjective
<1>3. Single(tab) => Single(new)
  <2> SUFFICES ASSUME Single(tab), NEW k \in DOMAIN new, NEW l \in DOMAIN new
               PROVE  /\ IsScript(new[k]) /\ new[k].key \notin Standing => ~new[k].onhold
                      /\ IsScript(new[k]) /\ IsScript(new[l]) /\ new[k].key = new[l].key
                           /\ new[k].key \notin Standing => k = l
    BY DEF Single
  <2>1. /\ f[k] \in DOMAIN tab /\ new[k] = tab[f[k]]
        /\ f[l] \in DOMAIN tab /\ new[l] = tab[f[l]]
    BY <1>2
  <2>2. IsScript(new[k]) /\ IsScript(new[l]) /\ new[k].key = new[l].key
          /\ new[k].key \notin Standing => f[k] = f[l]
    BY <2>1 DEF Single
  <2> QED BY <1>2, <2>1, <2>2 DEF Single
<1>4. \A u \in ClientsAt(new) : f[u] \in ClientsAt(tab) /\ new[u] = tab[f[u]]
  BY <1>2 DEF ClientsAt
<1>5. OfCourse(tab) => OfCourse(new)
  BY <1>4 DEF OfCourse
<1>6. \A b, e : Both(new, b, e) => Both(tab, b, e)
  BY <1>2 DEF Both, There
<1>7. \A b, e : Quiet(tab, b, e, minute) => Quiet(new, b, e, minute)
  <2> SUFFICES ASSUME NEW b, NEW e, Quiet(tab, b, e, minute)
               PROVE  Quiet(new, b, e, minute)
    OBVIOUS
  <2>1. /\ \A k \in ActiveAt(new) : f[k] \in ActiveAt(tab) /\ new[k] = tab[f[k]]
        /\ \A k \in OnHoldAt(new) : f[k] \in OnHoldAt(tab) /\ new[k] = tab[f[k]]
    BY <1>2 DEF ActiveAt, OnHoldAt
  <2> QED BY <2>1 DEF Quiet
<1>8. Phase(tab, minute, state) => Phase(new, minute, state)
  BY <1>4, <1>6, <1>7 DEF Phase
<1>9. ASSUME NEW keys, Accounted(tab, keys),
             \A u \in ClientsAt(tab) : \E n \in DOMAIN new : new[n] = tab[u]
      PROVE  Accounted(new, keys)
  <2>1. About(tab) \subseteq About(new)
    <3> SUFFICES ASSUME NEW u \in ClientsAt(tab)
                 PROVE  {tab[u].key.b, tab[u].key.e} \subseteq About(new)
      BY DEF About
    <3>1. PICK n \in DOMAIN new : new[n] = tab[u]
      BY <1>9
    <3>2. n \in ClientsAt(new)
      BY <3>1 DEF ClientsAt
    <3> QED BY <3>1, <3>2 DEF About
  <2>2. \A k \in DOMAIN new : IsScript(new[k]) =>
          new[k].key \in Standing \cup About(tab) \cup keys
    BY <1>2, <1>9 DEF Accounted
  <2> QED BY <2>1, <2>2 DEF Accounted
<1> QED BY <1>3, <1>5, <1>8, <1>9

\* The write keeps every client line.
LEMMA SubmitSteady ==
  ASSUME NEW tab \in Seq(Line), NEW minute, NEW state
  PROVE  LET new == submit_crontab(tab)
         IN  /\ Single(tab) => Single(new)
             /\ OfCourse(tab) => OfCourse(new)
             /\ Phase(tab, minute, state) => Phase(new, minute, state)
             /\ \A keys : Accounted(tab, keys) => Accounted(new, keys)
             /\ \A b, e : Both(tab, b, e) => Both(new, b, e)
             /\ NoClients(tab) => NoClients(new)
<1> DEFINE new == submit_crontab(tab)
<1>1. /\ Part(tab, new)
      /\ \A i \in DOMAIN tab : tab[i] # Blank => \E n \in DOMAIN new : new[n] = tab[i]
  BY SubmitLines
<1>2. \A x : IsEntry(x) => x # Blank
  BY DEF IsEntry, Blank
<1> HIDE DEF new
<1>3. \A u \in ClientsAt(tab) : \E n \in DOMAIN new : new[n] = tab[u]
  BY <1>1, <1>2 DEF ClientsAt, IsClient
<1>4. \A k : There(tab, k) => There(new, k)
  <2> SUFFICES ASSUME NEW k, NEW i \in DOMAIN tab, IsScript(tab[i]), tab[i].key = k
               PROVE  There(new, k)
    BY DEF There
  <2>1. PICK n \in DOMAIN new : new[n] = tab[i]
    BY <1>1, <1>2 DEF IsScript
  <2> QED BY <2>1 DEF There
<1>5. \A b, e : Both(tab, b, e) => Both(new, b, e)
  BY <1>4 DEF Both
<1>6. NoClients(tab) => NoClients(new)
  BY SubmitTidy DEF new
<1>7. /\ Single(tab) => Single(new)
      /\ OfCourse(tab) => OfCourse(new)
      /\ Phase(tab, minute, state) => Phase(new, minute, state)
      /\ \A keys : Accounted(tab, keys) => Accounted(new, keys)
  BY <1>1, <1>3, PartSteady
<1> QED BY <1>5, <1>6, <1>7 DEF new

\* "delete old" drops #TMP lines, and no client line is one.
LEMMA DeleteOldSteady ==
  ASSUME NEW tab \in Seq(Line), OneClient(tab), NEW minute, NEW state
  PROVE  LET new == delete_old_cron_jobs(tab, minute)
         IN  /\ Single(tab) => Single(new)
             /\ OfCourse(tab) => OfCourse(new)
             /\ Phase(tab, minute, state) => Phase(new, minute, state)
             /\ \A keys : Accounted(tab, keys) => Accounted(new, keys)
<1> DEFINE D == {i \in tmp_line_numbers(tab) :
                   schedule_to_epoch(tab[i].key.sched) < minute - OldAge}
           new == tblDeleteLines(tab, D)
<1>1. /\ Part(tab, new)
      /\ \A i \in (DOMAIN tab) \ D : \E n \in DOMAIN new : new[n] = tab[i]
  <2> HIDE DEF D
  <2> QED BY DeleteFrom
<1>2. \A u \in ClientsAt(tab) : u \in (DOMAIN tab) \ D
  BY DEF ClientsAt, OneClient, tmp_line_numbers
<1> HIDE DEF D, new
<1>3. /\ Single(tab) => Single(new)
      /\ OfCourse(tab) => OfCourse(new)
      /\ Phase(tab, minute, state) => Phase(new, minute, state)
      /\ \A keys : Accounted(tab, keys) => Accounted(new, keys)
  BY <1>1, <1>2, PartSteady
<1> QED BY <1>3 DEF new, D, delete_old_cron_jobs

\* A table without client lines is in no course.
LEMMA NoClientsSteady ==
  ASSUME NEW tab, NoClients(tab), NEW minute, NEW state
  PROVE  /\ OfCourse(tab) /\ Phase(tab, minute, state) /\ About(tab) = {}
         /\ \A keys : Accounted(tab, keys) <=>
              \A i \in DOMAIN tab : IsScript(tab[i]) => tab[i].key \in Standing \cup keys
<1>1. ClientsAt(tab) = {}
  BY DEF NoClients
<1>2. About(tab) = {}
  BY <1>1 DEF About
<1> QED BY <1>1, <1>2 DEF OfCourse, Phase, Accounted

\* A line put at the end: of a key not there yet, or one that stands there anyway.
LEMMA AppendSteady ==
  ASSUME NEW tab \in Seq(Line), NEW x \in Line, ~OnHold(x)
  PROVE  LET new == Append(tab, x)
         IN  /\ new \in Seq(Line)
             /\ Single(tab) /\ (IsScript(x) /\ x.key \notin Standing => ~There(tab, x.key))
                  => Single(new)
             /\ \A keys : Accounted(tab, keys) /\ (IsScript(x) => x.key \in Standing \cup keys)
                  => Accounted(new, keys)
             /\ OfCourse(tab) /\ ~IsClient(x) => OfCourse(new)
             /\ NoClients(tab) /\ ~IsClient(x) => NoClients(new)
             /\ \A k : There(new, k) <=> There(tab, k) \/ (IsScript(x) /\ x.key = k)
             /\ \A minute, state : Phase(tab, minute, state) /\ x = Blank => Phase(new, minute, state)
<1> DEFINE new == Append(tab, x)
<1>1. /\ new \in Seq(Line) /\ Len(tab) \in Nat /\ DOMAIN tab = 1 .. Len(tab)
      /\ DOMAIN new = 1 .. Len(tab) + 1
      /\ \A i \in 1 .. Len(tab) : new[i] = tab[i]
      /\ new[Len(tab) + 1] = x
  BY AppendProperties, LenProperties
<1> DEFINE z == Len(tab) + 1
<1>2. /\ z \in DOMAIN new /\ new[z] = x /\ z \notin DOMAIN tab
      /\ \A i \in DOMAIN tab : i \in DOMAIN new /\ new[i] = tab[i]
      /\ \A i \in DOMAIN new : i = z \/ i \in DOMAIN tab
  BY <1>1
<1> HIDE DEF new, z
<1>3. \A k : There(new, k) <=> There(tab, k) \/ (IsScript(x) /\ x.key = k)
  BY <1>2 DEF There
<1>4. ASSUME Single(tab), IsScript(x) /\ x.key \notin Standing => ~There(tab, x.key)
      PROVE  Single(new)
  <2> SUFFICES ASSUME NEW i \in DOMAIN new, NEW j \in DOMAIN new
               PROVE  /\ IsScript(new[i]) /\ new[i].key \notin Standing => ~new[i].onhold
                      /\ IsScript(new[i]) /\ IsScript(new[j]) /\ new[i].key = new[j].key
                           /\ new[i].key \notin Standing => i = j
    BY DEF Single
  <2>1. CASE i \in DOMAIN tab /\ j \in DOMAIN tab
    BY <1>2, <1>4, <2>1 DEF Single
  <2>2. CASE i = z /\ j = z
    BY <1>2, <2>2 DEF OnHold, IsScript
  <2>3. CASE i = z /\ j \in DOMAIN tab
    BY <1>2, <1>4, <2>3 DEF There, OnHold, IsScript
  <2>4. CASE i \in DOMAIN tab /\ j = z
    BY <1>2, <1>4, <2>4 DEF There, Single
  <2> QED BY <1>2, <2>1, <2>2, <2>3, <2>4
<1>5. ClientsAt(new) = IF IsClient(x) THEN ClientsAt(tab) \cup {z} ELSE ClientsAt(tab)
  BY <1>2 DEF ClientsAt
<1>6. \A u \in ClientsAt(tab) : u \in ClientsAt(new) /\ new[u] = tab[u]
  BY <1>2 DEF ClientsAt
<1>7. ASSUME NEW keys, Accounted(tab, keys), IsScript(x) => x.key \in Standing \cup keys
      PROVE  Accounted(new, keys)
  <2>1. About(tab) \subseteq About(new)
    BY <1>6 DEF About
  <2> QED BY <1>2, <1>7, <2>1 DEF Accounted
<1>8. OfCourse(tab) /\ ~IsClient(x) => OfCourse(new)
  BY <1>5, <1>6 DEF OfCourse
<1>9. NoClients(tab) /\ ~IsClient(x) => NoClients(new)
  BY <1>5 DEF NoClients
<1>10. ASSUME NEW minute, NEW state, Phase(tab, minute, state), x = Blank
       PROVE  Phase(new, minute, state)
  <2>1. ~IsEntry(x)
    BY <1>10 DEF IsEntry, Blank
  <2>2. ClientsAt(new) = ClientsAt(tab)
    BY <1>5, <2>1 DEF IsClient
  <2>3. \A b, e : Both(new, b, e) => Both(tab, b, e)
    BY <1>3, <2>1 DEF Both, IsScript
  <2>4. /\ \A i \in ActiveAt(new) : i \in ActiveAt(tab) /\ new[i] = tab[i]
        /\ \A i \in OnHoldAt(new) : i \in OnHoldAt(tab) /\ new[i] = tab[i]
    BY <1>2, <2>1 DEF ActiveAt, Active, OnHoldAt, OnHold
  <2>5. \A b, e : Quiet(tab, b, e, minute) => Quiet(new, b, e, minute)
    BY <2>4 DEF Quiet
  <2> QED BY <1>6, <1>10, <2>2, <2>3, <2>5 DEF Phase
<1> QED BY <1>1, <1>3, <1>4, <1>7, <1>8, <1>9, <1>10 DEF new

\* The crontab as it is read.
LEMMA ReadSteady ==
  ASSUME NEW tab \in Seq(Line), NEW minute, NEW state
  PROVE  LET new == cron_all(tab)
         IN  /\ new \in Seq(Line)
             /\ Single(tab) => Single(new)
             /\ \A keys : Accounted(tab, keys) => Accounted(new, keys)
             /\ OfCourse(tab) => OfCourse(new)
             /\ NoClients(tab) => NoClients(new)
             /\ \A b, e : Both(new, b, e) <=> Both(tab, b, e)
             /\ Phase(tab, minute, state) => Phase(new, minute, state)
<1>1. Blank \in Line /\ ~IsClient(Blank) /\ ~OnHold(Blank) /\ ~IsScript(Blank)
  BY DEF Line, Blank, IsClient, OnHold, IsEntry, IsScript
<1> DEFINE new == Append(tab, Blank)
<1>2. /\ new \in Seq(Line)
      /\ Single(tab) => Single(new)
      /\ \A keys : Accounted(tab, keys) => Accounted(new, keys)
      /\ OfCourse(tab) => OfCourse(new)
      /\ NoClients(tab) => NoClients(new)
      /\ \A k : There(new, k) <=> There(tab, k)
      /\ Phase(tab, minute, state) => Phase(new, minute, state)
  BY <1>1, AppendSteady
<1> HIDE DEF new
<1>3. \A b, e : Both(new, b, e) <=> Both(tab, b, e)
  BY <1>2 DEF Both
<1> QED BY <1>2, <1>3 DEF cron_all, new

\* A line about the device, put where no client line is.
LEMMA AddSteady ==
  ASSUME NEW tab \in Seq(Line), NoClients(tab), NEW k \in DeviceKey, NEW tmp \in BOOLEAN,
         NEW keys, Accounted(tab, keys)
  PROVE  LET new == Append(tab, DeviceLine(k, tmp))
         IN  /\ new \in Seq(Line) /\ NoClients(new)
             /\ Accounted(new, keys \cup {k})
             /\ k \in Standing => Accounted(new, keys)
             /\ Single(tab) /\ k \notin Standing \cup keys => Single(new)
             /\ Single(tab) /\ k \in Standing => Single(new)
             /\ There(new, k) /\ \A l : There(tab, l) => There(new, l)
<1> DEFINE x == DeviceLine(k, tmp)
           new == Append(tab, x)
<1>1. x \in Line /\ ~IsClient(x) /\ ~OnHold(x) /\ IsScript(x) /\ x.key = k
  BY DeviceLineIsNone DEF DeviceLine, IsScript, IsEntry
<1> HIDE DEF x
<1>2. Accounted(tab, keys \cup {k})
  BY DEF Accounted
<1>3. k \notin Standing \cup keys => ~There(tab, k)
  BY NoClientsSteady DEF There
<1> QED BY <1>1, <1>2, <1>3, AppendSteady DEF x

\* The begin and the end line of a two-part command.
LEMMA BothSteady ==
  ASSUME NEW tab \in Seq(Line), NoClients(tab), Accounted(tab, {}), Single(tab),
         NEW b \in DeviceKey, NEW e \in DeviceKey, b # e
  PROVE  LET both == add_begin(tab, b) \o <<DeviceLine(e, TRUE)>>
         IN  /\ both \in Seq(Line) /\ NoClients(both) /\ Single(both)
             /\ Accounted(both, {b, e}) /\ Both(both, b, e)
             /\ b \in Standing /\ e \in Standing => Accounted(both, {})
<1> DEFINE one == add_begin(tab, b)
           two == Append(one, DeviceLine(e, TRUE))
<1>1. /\ one \in Seq(Line) /\ NoClients(one) /\ Single(one) /\ Accounted(one, {b})
      /\ There(one, b) /\ (b \in Standing => Accounted(one, {}))
  <2>1. /\ one \in Seq(Line) /\ NoClients(one) /\ Accounted(one, {} \cup {b})
        /\ b \in Standing => Accounted(one, {}) /\ Single(one)
        /\ b \notin Standing \cup {} => Single(one)
        /\ There(one, b)
    BY AddSteady, TRUE \in BOOLEAN, Zenon DEF add_begin
  <2>2. {} \cup {b} = {b} /\ (b \in Standing \/ b \notin Standing \cup {})
    OBVIOUS
  <2> HIDE DEF one
  <2> QED BY <2>1, <2>2
<1> HIDE DEF one
<1>2. /\ two \in Seq(Line) /\ NoClients(two) /\ Accounted(two, {b, e})
      /\ Single(two) /\ There(two, b) /\ There(two, e)
  <2>1. /\ two \in Seq(Line) /\ NoClients(two) /\ Accounted(two, {b} \cup {e})
        /\ e \in Standing => Single(two)
        /\ e \notin Standing \cup {b} => Single(two)
        /\ There(two, e) /\ There(two, b)
    BY <1>1, AddSteady, TRUE \in BOOLEAN, Zenon
  <2>2. {b} \cup {e} = {b, e} /\ (e \in Standing \/ e \notin Standing \cup {b})
    OBVIOUS
  <2> HIDE DEF two
  <2> QED BY <2>1, <2>2
<1>3. b \in Standing /\ e \in Standing => Accounted(two, {})
  BY <1>1, AddSteady
<1>4. one \o <<DeviceLine(e, TRUE)>> = two
  BY <1>1, WrittenLines, AppendIsConcat
<1> HIDE DEF two
<1>5. /\ two \in Seq(Line) /\ NoClients(two) /\ Single(two)
      /\ Accounted(two, {b, e}) /\ Both(two, b, e)
      /\ b \in Standing /\ e \in Standing => Accounted(two, {})
  BY <1>2, <1>3 DEF Both
<1> QED BY <1>4, <1>5 DEF one

\* A client line put where there is none: the two lines are about it from now on.
LEMMA ClientSteady ==
  ASSUME NEW tab \in Seq(Line), NoClients(tab), NEW x \in Line, IsClient(x), ~OnHold(x),
         Single(tab), Accounted(tab, {x.key.b, x.key.e}), Course(x.key.b, x.key.e)
  PROVE  LET new == Append(tab, x)
         IN  /\ Single(new) /\ Accounted(new, {})
             /\ (x.key.do = "clear" => x.key.sched.at = {Due(x.key.b) - 1}) => OfCourse(new)
             /\ \A minute, state :
                  x.key.do = "clear" /\ minute < Due(x.key.b) - 1 => Phase(new, minute, state)
<1> DEFINE new == Append(tab, x)
           keys == {x.key.b, x.key.e}
<1>1. Single(new) /\ Accounted(new, keys)
  BY AppendSteady DEF IsScript
<1>2. \E z : ClientsAt(new) = {z} /\ new[z] = x
  <2> DEFINE z == Len(tab) + 1
  <2>1. /\ Len(tab) \in Nat /\ DOMAIN tab = 1 .. Len(tab)
        /\ DOMAIN new = 1 .. Len(tab) + 1
        /\ \A i \in 1 .. Len(tab) : new[i] = tab[i]
        /\ new[z] = x
    BY AppendProperties, LenProperties
  <2>2. \A i \in DOMAIN new : i = z \/ i \in DOMAIN tab
    BY <2>1
  <2>3. z \in DOMAIN new /\ \A i \in DOMAIN tab : ~IsClient(new[i])
    BY <2>1 DEF NoClients, ClientsAt
  <2> HIDE DEF z, new
  <2>4. ClientsAt(new) = {z}
    BY <2>1, <2>2, <2>3 DEF ClientsAt
  <2> QED BY <2>1, <2>4
<1> HIDE DEF new
<1>3. PICK z : ClientsAt(new) = {z} /\ new[z] = x
  BY <1>2
<1>4. About(new) = keys
  BY <1>3 DEF About
<1>5. Accounted(new, {})
  BY <1>1, <1>4 DEF Accounted
<1>6. (x.key.do = "clear" => x.key.sched.at = {Due(x.key.b) - 1}) => OfCourse(new)
  BY <1>3 DEF OfCourse
<1>7. \A minute, state :
        x.key.do = "clear" /\ minute < Due(x.key.b) - 1 => Phase(new, minute, state)
  BY <1>3 DEF Phase
<1> QED BY <1>1, <1>5, <1>6, <1>7 DEF new

\* add_new_schedule(): the two lines stand there anyway, or the course begins
\* now, or there is a clear line for the minute before it begins.
LEMMA TwoPartSteady ==
  ASSUME NEW tab \in Seq(Line), NoClients(tab), Accounted(tab, {}), Single(tab),
         NEW b \in DeviceKey, NEW e \in DeviceKey, b # e, b.sched.rec = e.sched.rec,
         NEW minute \in Slot, NEW state
  PROVE  LET new == add_begin_end(tab, b, e, 0, minute)
         IN  /\ Single(new)
             /\ b.sched.rec /\ b \in Standing /\ e \in Standing =>
                  Accounted(new, {}) /\ NoClients(new)
             /\ tbl_is_now_p(b.sched, minute) =>
                  Accounted(new, {b, e}) /\ NoClients(new) /\ Both(new, b, e)
             /\ ~b.sched.rec /\ Course(b, e) /\ Due(b) >= minute + 2 =>
                  Accounted(new, {}) /\ OfCourse(new) /\ Phase(new, minute, state)
<1> DEFINE both == add_begin(tab, b) \o <<DeviceLine(e, TRUE)>>
           x == ClientLine(clear_tbl(b, 0, minute), "clear", b, e, << >>)
           new == add_begin_end(tab, b, e, 0, minute)
<1>1. /\ both \in Seq(Line) /\ NoClients(both) /\ Single(both)
      /\ Accounted(both, {b, e}) /\ Both(both, b, e)
      /\ b \in Standing /\ e \in Standing => Accounted(both, {})
  BY BothSteady
<1>2. new = IF b.sched.rec \/ tbl_is_now_p(b.sched, minute) THEN both ELSE Append(both, x)
  BY DEF add_begin_end
<1> HIDE DEF both, new
<1>3. CASE b.sched.rec \/ tbl_is_now_p(b.sched, minute)
  <2>1. tbl_is_now_p(b.sched, minute) => Due(b) = minute
    BY DEF tbl_is_now_p, Due, schedule_to_epoch
  <2>2. minute \in Int
    BY DEF Slot
  <2>3. ~b.sched.rec => ~(Due(b) >= minute + 2)
    BY <1>3, <2>1, <2>2
  <2>4. tbl_is_now_p(b.sched, minute) => ~b.sched.rec
    BY DEF tbl_is_now_p
  <2> QED BY <1>1, <1>2, <1>3, <2>3, <2>4 DEF new
<1>4. CASE ~(b.sched.rec \/ tbl_is_now_p(b.sched, minute))
  <2>1. b \in OnceKey /\ e \in OnceKey
    BY <1>4, OnceDevice
  <2>2. x \in Line /\ IsClient(x) /\ ~OnHold(x)
    <3>1. x \in Line
      BY <2>1, ClearLineType
    <3> QED BY <3>1 DEF ClientLine, IsClient, IsEntry, OnHold
  <2>3. x.key.b = b /\ x.key.e = e /\ x.key.do = "clear" /\ x.key.sched = clear_tbl(b, 0, minute)
    BY DEF ClientLine
  <2>4. ASSUME Due(b) >= minute + 2
        PROVE  clear_tbl(b, 0, minute).at = {Due(b) - 1} /\ minute < Due(b) - 1
    <3>1. Due(b) \in 0 .. YearLen - 1 /\ minute \in 0 .. YearLen - 1 /\ YearLen \in Nat
      BY <2>1, OnceKeys, YearLenAssumption DEF Due, OnceKey, Slot
    <3>2. ~(Due(b) + 0 * YearLen - minute <= 1) /\ (Due(b) - 1) % YearLen = Due(b) - 1
      <4>1. 0 * YearLen = 0 /\ Due(b) - minute >= 2 /\ Due(b) - 1 \in 0 .. YearLen - 1
        BY <2>4, <3>1
      <4>2. (Due(b) - 1) % YearLen = Due(b) - 1
        BY <3>1, <4>1
      <4> QED BY <3>1, <4>1, <4>2
    <3>3. clear_tbl(b, 0, minute) = Once(Due(b) - 1)
      BY <3>2 DEF clear_tbl, Due
    <3> QED BY <2>4, <3>1, <3>3 DEF Once
  <2> HIDE DEF x
  <2>5. Single(Append(both, x))
    BY <1>1, <2>2, AppendSteady DEF IsScript
  <2>6. Course(b, e) => Accounted(Append(both, x), {})
    BY <1>1, <2>2, <2>3, <2>5, ClientSteady
  <2>7. ASSUME Course(b, e), Due(b) >= minute + 2
        PROVE  OfCourse(Append(both, x)) /\ Phase(Append(both, x), minute, state)
    BY <1>1, <2>2, <2>3, <2>4, <2>7, ClientSteady
  <2> QED BY <1>2, <1>4, <2>5, <2>6, <2>7 DEF new
<1> QED BY <1>3, <1>4

\* cron_next() is no later than any time of the schedule that is yet to come.
LEMMA NextIsBy ==
  ASSUME NEW sched \in Schedule, NEW minute \in Slot, NEW t \in sched.at, t > minute
  PROVE  ccnext2(sched, minute) <= t
<1> DEFINE D == {d \in 1 .. YearLen : (minute + d) % YearLen \in sched.at}
<1>1. YearLen \in Nat /\ YearLen > 0 /\ minute \in 0 .. YearLen - 1 /\ t \in 0 .. YearLen - 1
  BY YearLenAssumption, OnceKeys DEF Slot
<1>2. t - minute \in D
  <2>1. t - minute \in 1 .. YearLen /\ (minute + (t - minute)) % YearLen = t
    BY <1>1
  <2> QED BY <2>1
<1>3. D \in SUBSET (1 .. YearLen)
  OBVIOUS
<1>4. ccnext2(sched, minute) = minute + Min(D)
  BY DEF ccnext2
<1> HIDE DEF D
<1>5. PICK d \in D : \A j \in D : d <= j
  BY <1>1, <1>2, <1>3, FirstLast
<1>6. Min(D) \in D /\ \A j \in D : Min(D) <= j
  BY <1>5 DEF Min
<1> DEFINE m == Min(D)
<1>7. m \in D /\ m <= t - minute /\ ccnext2(sched, minute) = minute + m
  BY <1>2, <1>4, <1>6
<1> HIDE DEF m
<1>8. m \in Int
  BY <1>3, <1>7
<1> QED BY <1>1, <1>7, <1>8

\* cronjob_line_numbers has every active line.
LEMMA JobOfActive ==
  ASSUME NEW tab \in Seq(Line), NEW i \in ActiveAt(tab)
  PROVE  \E k \in DOMAIN cronjob_line_numbers(tab) : cronjob_line_numbers(tab)[k] = i
<1> DEFINE A == ActiveAt(tab)
           n == Len(tab)
<1>1. A \in SUBSET (1 .. n) /\ n \in Nat /\ i \in A
  BY LenProperties DEF ActiveAt
<1>2. /\ DOMAIN cronjob_line_numbers(tab) = 1 .. Cardinality(A)
      /\ cronjob_line_numbers(tab) = Ascending(A)
  BY ParallelArrays DEF cronjob_line_numbers
<1> HIDE DEF A, n
<1>3. \E k \in 1 .. Cardinality(A) : Ascending(A)[k] = i
  BY <1>1, AscendingOnto
<1> QED BY <1>2, <1>3

\* clear_schedule_for() finds every line with the disposition of the end that is
\* due in what is left of the course.
LEMMA HoldsDue ==
  ASSUME NEW tab \in Seq(KnownLine), OnHoldAt(tab) = {}, NEW b \in OnceKey, NEW e \in OnceKey,
         ~clear_fails(tab, b, e), ~clear_returns(tab, b, e),
         NEW minute \in Slot, minute >= Due(b) - 1,
         NEW i \in ActiveAt(tab), ~IsClient(tab[i]), tab[i].key.do = e.do,
         tab[i].key \notin {b, e},
         NEW t \in tab[i].key.sched.at, t \in minute + 1 .. Due(e)
  PROVE  \E k \in jobs_to_hold(tab, b, e, minute) : cronjob_line_numbers(tab)[k] = i
<1> DEFINE jobs == cronjob_line_numbers(tab)
           sums == cronjob_md5sumhexa(tab)
           n_b == md5sumhexa_to_jobnum(tab, b)
           n_e == md5sumhexa_to_jobnum(tab, e)
           x_b == tab[jobs[n_b]]
           x_e == tab[jobs[n_e]]
           x == tab[i]
           next == ccnext2(x.key.sched, minute)
<1>1. tab \in Seq(Line)
  BY KnownIsTable
<1>2. n_b # 0 /\ n_e # 0
  BY DEF clear_fails, clear_returns
<1>3. x_b.key = b /\ x_e.key = e
  BY <1>1, <1>2, JobnumFinds
<1>4. n_e \in DOMAIN jobs
  BY <1>2 DEF clear_fails, clear_returns, HasJobEpoch
<1>5. /\ \A k \in DOMAIN jobs : jobs[k] \in ActiveAt(tab)
      /\ \A k \in DOMAIN jobs : sums[k] = tab[jobs[k]].key
  BY <1>1, ParallelArrays, ArraysAgree
<1>6. PICK k \in DOMAIN jobs : jobs[k] = i
  BY <1>1, JobOfActive
<1>7. \A j \in ActiveAt(tab) : tab[j] \in Line /\ IsEntry(tab[j]) /\ Known(tab[j]) /\ j \in DOMAIN tab
  BY <1>1, LenProperties, ElementOfSeq, KnownTable DEF ActiveAt, Active
<1>8. ~IsClient(x_e) /\ x_e.held = << >>
  <2>1. jobs[n_e] \in ActiveAt(tab)
    BY <1>4, <1>5
  <2>2. e.do \in Action
    BY DEF OnceKey
  <2> HIDE DEF n_e
  <2>3. ~IsClient(x_e)
    BY <1>3, <2>2 DEF IsClient, Action
  <2> QED BY <1>7, <2>1, <2>3 DEF Known
<1>9. x.held = << >> /\ x.key \in DeviceKey /\ x.key.sched \in Schedule
  BY <1>7, EntryOfLine DEF Known
<1>10. SameDisposition(x, x_e)
  <2>1. e \in DeviceKey
    BY OnceKeys
  <2>2. [x.key EXCEPT !.sched = e.sched] = e
    BY <1>9, <2>1 DEF DeviceKey
  <2> QED BY <1>3, <1>8, <1>9, <2>2 DEF SameDisposition
<1>11. next \in Due(b) .. Due(e)
  <2>1. minute \in Int /\ t \in Int /\ Due(e) \in Int /\ Due(b) \in Int
    BY OnceKeys, YearLenAssumption DEF Due, OnceKey, Slot
  <2>2. t > minute /\ t <= Due(e)
    BY <2>1
  <2>3. next \in Int /\ next > minute /\ next <= t
    BY <1>9, <2>2, NextIsLater, NextIsBy
  <2> HIDE DEF next
  <2> QED BY <2>1, <2>2, <2>3
<1>12. sums[k] \notin {b, e}
  BY <1>5, <1>6
<1>13. k \in jobs_to_hold(tab, b, e, minute)
  BY <1>3, <1>6, <1>10, <1>11, <1>12 DEF jobs_to_hold, Due
<1> QED BY <1>6, <1>13

\* The lines that clear_schedule_for() puts on hold.
LinesHeld(tab, b, e, minute) ==
  {cronjob_line_numbers(tab)[k] : k \in jobs_to_hold(tab, b, e, minute)}

\* There is an unhold line of the course.
HasUnhold(tab, b, e) ==
  \E u \in DOMAIN tab :
    /\ IsClient(tab[u]) /\ tab[u].key.do = "unhold"
    /\ tab[u].key.b = b /\ tab[u].key.e = e

\* The lines of new that are not the server's own were in tab, each is there at
\* most as often, and they are as they were but for those that were put on hold.
ScriptsOf(tab, new, lines) ==
  \E f : /\ \A k, l \in DOMAIN new : f[k] = f[l] => k = l
         /\ \A k \in DOMAIN new : IsScript(new[k]) =>
              /\ f[k] \in DOMAIN tab /\ IsScript(tab[f[k]])
              /\ new[k].key = tab[f[k]].key
              /\ IF f[k] \in lines THEN new[k].onhold ELSE new[k] = tab[f[k]]

\* clear_schedule_for() leaves the unhold line and, of the other lines, each at
\* most once, those it found, put on hold or as they were.
LEMMA ClearShape ==
  ASSUME NEW tab \in Seq(Line), OnHoldAt(tab) = {}, NEW b \in OnceKey, NEW e \in OnceKey,
         ~clear_fails(tab, b, e), ~clear_returns(tab, b, e), NEW minute
  PROVE  LET new == clear_schedule_for(tab, b, e, minute)
         IN  /\ LinesHeld(tab, b, e, minute) \in SUBSET ActiveAt(tab)
             /\ HasUnhold(new, b, e)
             /\ ScriptsOf(tab, new, LinesHeld(tab, b, e, minute))
<1> DEFINE hold == jobs_to_hold(tab, b, e, minute)
           jobs == cronjob_line_numbers(tab)
           sums == cronjob_md5sumhexa(tab)
           held == KeepAt(sums, hold)
           lines == LinesHeld(tab, b, e, minute)
           mid == hold_lines(tab, lines, <<b, e>>)
           unhold == ClientLine(schedule_end(tab, e), "unhold", b, e, held)
           longer == Append(mid, unhold)
           n == Len(tab) + 1
           C == {i \in ActiveAt(tab) :
                   /\ tab[i].key.do = "clear"
                   /\ {tab[i].key.b, tab[i].key.e} \cap {b, e} # {}}
           line == linenum_of_clear_schedule(tab, b, e)
           new == clear_schedule_for(tab, b, e, minute)
<1>1. new = tblDeleteLines(longer, {line})
  BY DEF clear_schedule_for, LinesHeld
<1>2. lines \in SUBSET ActiveAt(tab)
  BY HoldScripts DEF LinesHeld
<1>3. held \in Seq(Key)
  <2>1. hold \in SUBSET (DOMAIN sums) /\ sums \in Seq(Key)
    BY HoldScripts, ParallelArrays
  <2> HIDE DEF hold, sums
  <2> QED BY <2>1, KeepAtLines
<1> HIDE DEF held, lines
<1>4. unhold \in Line
  BY <1>3, ScheduleEndType, WrittenLines
<1>5. /\ IsClient(unhold) /\ unhold.key.do = "unhold"
      /\ unhold.key.b = b /\ unhold.key.e = e
  BY DEF ClientLine, IsClient, IsEntry
<1> HIDE DEF unhold
<1>6. SameButMarks(tab, mid)
  <2>1. <<b, e>> \in Instigator
    BY OnceKeys DEF Instigator
  <2> QED BY <1>2, <2>1, HoldSame
<1>7. \A i \in DOMAIN tab : IF i \in lines THEN mid[i] = PutOnHold(tab[i], <<b, e>>)
                                           ELSE mid[i] = tab[i]
  BY DEF hold_lines
<1> HIDE DEF mid
<1>8. /\ Len(tab) \in Nat /\ DOMAIN tab = 1 .. Len(tab)
      /\ DOMAIN mid = 1 .. Len(tab) /\ mid \in Seq(Line) /\ Len(mid) = Len(tab)
  BY <1>6, LenProperties DEF SameButMarks
<1>9. /\ longer \in Seq(Line) /\ DOMAIN longer = 1 .. n
      /\ \A i \in 1 .. Len(tab) : longer[i] = mid[i]
      /\ longer[n] = unhold
  BY <1>4, <1>8, AppendProperties, LenProperties
<1>10. \A i \in DOMAIN longer : i = n \/ i \in DOMAIN tab
  BY <1>8, <1>9
<1> HIDE DEF longer
<1>11. ASSUME NEW i \in DOMAIN longer, IsScript(longer[i])
       PROVE  /\ i \in DOMAIN tab /\ IsScript(tab[i]) /\ longer[i].key = tab[i].key
              /\ IF i \in lines THEN longer[i].onhold ELSE longer[i] = tab[i]
  <2>1. i \in DOMAIN tab /\ longer[i] = mid[i]
    BY <1>5, <1>8, <1>9, <1>10, <1>11 DEF IsScript
  <2>2. IsScript(tab[i]) /\ mid[i].key = tab[i].key
    BY <1>6, <1>11, <2>1 DEF SameButMarks, IsScript, IsClient
  <2>3. tab[i] \in Entry
    BY <1>8, <2>1, <2>2, ElementOfSeq, EntryOfLine DEF IsScript
  <2>4. i \in lines => mid[i].onhold
    BY <1>7, <2>1, <2>3 DEF PutOnHold, Entry
  <2> QED BY <1>7, <2>1, <2>2, <2>4
<1>12. line # n
  <2>1. C \in SUBSET (1 .. Len(tab)) /\ line = FirstOf(C)
    BY <1>8 DEF ActiveAt, linenum_of_clear_schedule
  <2>2. line \in C \cup {0}
    <3> HIDE DEF C, line
    <3> QED BY <1>8, <2>1, FirstLast
  <2>3. line \in 0 .. Len(tab)
    <3> HIDE DEF C, line
    <3> QED BY <1>8, <2>1, <2>2
  <2> QED BY <1>8, <2>3
<1> HIDE DEF line, new
<1>13. /\ From(longer, (DOMAIN longer) \ {line}, new)
       /\ \A i \in (DOMAIN longer) \ {line} : \E k \in DOMAIN new : new[k] = longer[i]
  <2> DEFINE D == {line}
  <2> HIDE DEF D
  <2>1. longer \in Seq(Line)
    BY <1>9
  <2>2. /\ From(longer, (DOMAIN longer) \ D, tblDeleteLines(longer, D))
        /\ \A i \in (DOMAIN longer) \ D :
             \E k \in DOMAIN tblDeleteLines(longer, D) : tblDeleteLines(longer, D)[k] = longer[i]
    BY <2>1, DeleteFrom, Zenon
  <2> QED BY <1>1, <2>2, Zenon DEF D
<1>14. PICK f \in Injection(DOMAIN new, (DOMAIN longer) \ {line}) :
         \A k \in DOMAIN new : new[k] = longer[f[k]]
  BY <1>13 DEF From
<1>15. /\ \A k \in DOMAIN new : f[k] \in DOMAIN longer /\ new[k] = longer[f[k]]
       /\ \A k, l \in DOMAIN new : f[k] = f[l] => k = l
  BY <1>14 DEF Injection, IsInjective
<1>16. \A k \in DOMAIN new : IsScript(new[k]) =>
         /\ f[k] \in DOMAIN tab /\ IsScript(tab[f[k]])
         /\ new[k].key = tab[f[k]].key
         /\ IF f[k] \in lines THEN new[k].onhold ELSE new[k] = tab[f[k]]
  BY <1>11, <1>15
<1>17. n \in (DOMAIN longer) \ {line}
  BY <1>8, <1>9, <1>12
<1> HIDE DEF n
<1>18. PICK u \in DOMAIN new : new[u] = unhold
  BY <1>9, <1>13, <1>17
<1>19. ScriptsOf(tab, new, lines)
  BY <1>15, <1>16 DEF ScriptsOf
<1>20. HasUnhold(new, b, e)
  BY <1>5, <1>18 DEF HasUnhold
<1> QED BY <1>2, <1>19, <1>20 DEF new, lines

\* clear_schedule_for() leaves nothing that would end the course before it is
\* over.
LEMMA ClearSteady ==
  ASSUME NEW tab \in Seq(KnownLine), Tidy(tab), NEW b \in OnceKey, NEW e \in OnceKey,
         Sends(tab, [kind |-> "clear", b |-> b, e |-> e]),
         ~clear_fails(tab, b, e), ~clear_returns(tab, b, e),
         Course(b, e), Accounted(tab, {b, e}), Single(tab), Due(b) <= Due(e),
         NEW minute \in Slot, minute \in {Due(b) - 1, Due(b)},
         NEW state, minute = Due(b) => state = Effect(b.do)
  PROVE  LET new == clear_schedule_for(tab, b, e, minute)
         IN  Accounted(new, {}) /\ Single(new) /\ OfCourse(new) /\ Phase(new, minute, state)
<1> DEFINE new == clear_schedule_for(tab, b, e, minute)
           lines == LinesHeld(tab, b, e, minute)
<1>1. tab \in Seq(Line)
  BY KnownIsTable
<1>2. OnHoldAt(tab) = {}
  <2>1. \A i \in ClientsAt(tab) : tab[i].key.do # "unhold"
    BY SendsClear
  <2> QED BY <2>1, NoUnholdNoneOnHold
<1>3. About(tab) \subseteq {b, e}
  BY SendsClear DEF About
<1>4. \A i \in DOMAIN tab : IsScript(tab[i]) => tab[i].key \in Standing \cup {b, e}
  BY <1>3 DEF Accounted
<1>5. /\ lines \in SUBSET ActiveAt(tab) /\ ScriptsOf(tab, new, lines)
      /\ HasUnhold(new, b, e)
  BY <1>1, <1>2, ClearShape
<1>6. PICK u \in DOMAIN new :
        /\ IsClient(new[u]) /\ new[u].key.do = "unhold"
        /\ new[u].key.b = b /\ new[u].key.e = e
  <2> HIDE DEF new, lines
  <2> QED BY <1>5 DEF HasUnhold
<1>7. PICK f :
        /\ \A k, l \in DOMAIN new : f[k] = f[l] => k = l
        /\ \A k \in DOMAIN new : IsScript(new[k]) =>
             /\ f[k] \in DOMAIN tab /\ IsScript(tab[f[k]])
             /\ new[k].key = tab[f[k]].key
             /\ IF f[k] \in lines THEN new[k].onhold ELSE new[k] = tab[f[k]]
  <2> HIDE DEF new, lines
  <2> QED BY <1>5 DEF ScriptsOf
<1>8. \A i \in lines : tab[i].key \notin {b, e}
  <2> SUFFICES ASSUME NEW i \in lines PROVE tab[i].key \notin {b, e}
    OBVIOUS
  <2>1. PICK k \in jobs_to_hold(tab, b, e, minute) : i = cronjob_line_numbers(tab)[k]
    BY DEF LinesHeld
  <2>2. k \in DOMAIN cronjob_line_numbers(tab) /\ cronjob_md5sumhexa(tab)[k] \notin {b, e}
    BY <2>1 DEF jobs_to_hold
  <2>3. cronjob_md5sumhexa(tab)[k] = tab[i].key
    BY <1>1, <1>2, <2>1, <2>2, ArraysAgree
  <2> QED BY <2>2, <2>3
<1>9. Tidy(new)
  BY <1>1, ClearTidy
<1> HIDE DEF new, lines
<1>10. ClientsAt(new) = {u}
  BY <1>6, <1>9 DEF ClientsAt, Tidy, OneClient
<1>11. About(new) = {b, e}
  BY <1>6, <1>10 DEF About
<1>12. Accounted(new, {})
  BY <1>4, <1>7, <1>11 DEF Accounted
<1>13. Single(new)
  <2> SUFFICES ASSUME NEW k \in DOMAIN new, NEW l \in DOMAIN new,
                      IsScript(new[k]), new[k].key \notin Standing
               PROVE  /\ ~new[k].onhold
                      /\ IsScript(new[l]) /\ new[k].key = new[l].key => k = l
    BY DEF Single
  <2>1. f[k] \in DOMAIN tab /\ IsScript(tab[f[k]]) /\ new[k].key = tab[f[k]].key
    BY <1>7
  <2>2. f[k] \notin lines
    BY <1>4, <1>8, <2>1
  <2>3. new[k] = tab[f[k]] /\ ~tab[f[k]].onhold
    BY <1>7, <2>1, <2>2 DEF Single
  <2>4. IsScript(new[l]) /\ new[k].key = new[l].key => f[k] = f[l]
    BY <1>7, <2>1 DEF Single
  <2> QED BY <1>7, <2>3, <2>4
<1>14. OfCourse(new)
  BY <1>6, <1>10 DEF OfCourse
<1>15. minute \in Int /\ Due(b) \in Int /\ Due(e) \in Int
  BY OnceKeys, YearLenAssumption DEF Due, OnceKey, Slot
<1>16. \A k \in ActiveAt(new) :
         ~IsClient(new[k]) /\ new[k].key.do = e.do /\ new[k].key \notin {b, e} =>
           new[k].key.sched.at \cap (minute + 1 .. Due(e)) = {}
  <2> SUFFICES ASSUME NEW k \in ActiveAt(new), ~IsClient(new[k]), new[k].key.do = e.do,
                      new[k].key \notin {b, e},
                      NEW t \in new[k].key.sched.at, t \in minute + 1 .. Due(e)
               PROVE  FALSE
    OBVIOUS
  <2>1. k \in DOMAIN new /\ IsScript(new[k]) /\ ~new[k].onhold
    BY DEF ActiveAt, Active, IsScript
  <2>2. new[k] = tab[f[k]] /\ f[k] \in DOMAIN tab /\ f[k] \notin lines
    BY <1>7, <2>1
  <2>3. f[k] \in ActiveAt(tab)
    BY <2>1, <2>2 DEF ActiveAt, Active, IsScript
  <2>4. minute >= Due(b) - 1
    BY <1>15
  <2>5. \E h \in jobs_to_hold(tab, b, e, minute) : cronjob_line_numbers(tab)[h] = f[k]
    BY <1>2, <2>2, <2>3, <2>4, HoldsDue
  <2> QED BY <2>2, <2>5 DEF lines, LinesHeld
<1>17. Quiet(new, b, e, minute)
  <2>1. ASSUME NEW k \in OnHoldAt(new)
        PROVE  new[k].key # b
    <3>1. k \in DOMAIN new /\ IsEntry(new[k]) /\ new[k].onhold
      BY DEF OnHoldAt, OnHold
    <3>2. IsScript(new[k])
      BY <1>9, <3>1 DEF Tidy, OneClient, ClientsAt, IsScript
    <3>3. f[k] \notin lines => f[k] \in OnHoldAt(tab)
      BY <1>7, <3>1, <3>2 DEF OnHoldAt, OnHold
    <3> QED BY <1>2, <1>7, <1>8, <3>1, <3>2, <3>3
  <2> QED BY <1>16, <2>1 DEF Quiet
<1>18. minute \in Due(b) - 1 .. Due(e) /\ (minute \in Due(b) .. Due(e) - 1 => minute = Due(b))
  BY <1>15
<1>19. Phase(new, minute, state)
  BY <1>6, <1>10, <1>17, <1>18 DEF Phase
<1> QED BY <1>12, <1>13, <1>14, <1>19 DEF new

\* unhold_jobs_delete_jobs() takes the two lines of the course and its unhold
\* line: what is left would be there without it.
LEMMA UnholdSteady ==
  ASSUME NEW tab \in Seq(Line), Tidy(tab), NEW b \in OnceKey, NEW e \in OnceKey,
         NEW held \in Seq(Key),
         Sends(tab, [kind |-> "unhold", b |-> b, e |-> e, held |-> held]),
         Accounted(tab, {}), Single(tab)
  PROVE  LET new == unhold_jobs_delete_jobs(tab, held, b, e)
         IN  NoClients(new) /\ Accounted(new, {}) /\ Single(new)
<1> DEFINE lines == {onholdjob_linenum(tab, w) : w \in ToSet(unhold_words(held, b, e))}
           mid == unhold_lines(tab, lines)
           line == linenum_of_unhold_delete(tab, held, b, e)
           D == {md5sumhexa_to_linenum(tab, b), md5sumhexa_to_linenum(tab, e), line}
           new == unhold_jobs_delete_jobs(tab, held, b, e)
<1>1. new = tblDeleteLines(mid, D)
  BY DEF unhold_jobs_delete_jobs
<1>2. SameButMarks(tab, mid)
  <2>1. lines \in SUBSET (OnHoldAt(tab) \cup {0})
    BY OnHoldLookup
  <2> HIDE DEF lines
  <2> QED BY <2>1, UnholdSame
<1>3. Len(tab) \in Nat /\ DOMAIN tab = 1 .. Len(tab)
  BY LenProperties
<1>4. /\ mid \in Seq(Line) /\ DOMAIN mid = DOMAIN tab
      /\ \A i \in DOMAIN tab :
           /\ IsScript(mid[i]) => IsScript(tab[i]) /\ mid[i].key = tab[i].key
           /\ IsClient(mid[i]) => i \in ClientsAt(tab)
  BY <1>2 DEF SameButMarks, IsScript, IsClient, ClientsAt
<1>5. \A u \in ClientsAt(tab) :
        /\ tab[u].key.do = "unhold" /\ tab[u].key.b = b /\ tab[u].key.e = e
        /\ tab[u].held = held
  BY SendsUnhold
<1>6. About(tab) \subseteq {b, e}
  BY <1>5 DEF About
<1>7. ASSUME NEW u \in ClientsAt(tab)
      PROVE  u = line
  <2> DEFINE I == {i \in ActiveAt(tab) :
                     /\ tab[i].key.do = "unhold"
                     /\ IF held = << >>
                        THEN <<tab[i].key.b, tab[i].key.e>> = <<b, e>>
                        ELSE \/ IsInfix(held, tab[i].held)
                             \/ IsInfix(held, <<tab[i].key.b, tab[i].key.e>>)}
  <2>1. u \in ActiveAt(tab)
    BY DEF Tidy, OneClient, ClientsAt, ActiveAt, Active, IsClient
  <2>2. IsInfix(held, held)
    <3>1. 0 \in 0 .. Len(held) - Len(held) /\ \A i \in DOMAIN held : held[i + 0] = held[i]
      BY LenProperties
    <3> QED BY <3>1 DEF IsInfix
  <2>3. u \in I
    BY <1>5, <2>1, <2>2
  <2>4. I \in SUBSET (1 .. Len(tab)) /\ line = FirstOf(I)
    BY <1>3 DEF ActiveAt, linenum_of_unhold_delete
  <2>5. \A i \in I : i \in ClientsAt(tab)
    BY DEF ClientsAt, ActiveAt, Active, IsClient
  <2> HIDE DEF I, line
  <2>6. line \in I
    BY <1>3, <2>3, <2>4, FirstLast
  <2> QED BY <2>5, <2>6 DEF Tidy, OneClient
<1>8. ASSUME NEW k \in {b, e}, k \notin Standing,
             NEW i \in DOMAIN tab, IsScript(tab[i]), tab[i].key = k
      PROVE  i = md5sumhexa_to_linenum(tab, k)
  <2> DEFINE I == {j \in ActiveAt(tab) : tab[j].key = k}
             l == md5sumhexa_to_linenum(tab, k)
  <2>1. i \in I
    BY <1>8 DEF Single, ActiveAt, Active, IsScript
  <2>2. I \in SUBSET (1 .. Len(tab)) /\ l = LastOf(I)
    BY <1>3 DEF ActiveAt, md5sumhexa_to_linenum
  <2>3. \A j \in I : j \in DOMAIN tab /\ IsScript(tab[j]) /\ tab[j].key = k
    <3>1. k.do \notin {"clear", "unhold"}
      BY <1>8 DEF OnceKey, Action
    <3> QED BY <3>1 DEF ActiveAt, Active, IsScript, IsClient
  <2> HIDE DEF I, l
  <2>4. l \in I
    BY <1>3, <2>1, <2>2, FirstLast
  <2>5. l = i
    BY <1>8, <2>3, <2>4 DEF Single
  <2> QED BY <2>5 DEF l
<1>9. \A i \in (DOMAIN mid) \ D : IsScript(mid[i]) => mid[i].key \in Standing
  <2> SUFFICES ASSUME NEW i \in DOMAIN tab, i \notin D, IsScript(mid[i]), mid[i].key \notin Standing
               PROVE  FALSE
    BY <1>4
  <2>1. IsScript(tab[i]) /\ mid[i].key = tab[i].key
    BY <1>4
  <2>2. tab[i].key \in {b, e}
    BY <1>6, <2>1 DEF Accounted
  <2>3. i = md5sumhexa_to_linenum(tab, tab[i].key)
    BY <1>8, <2>1, <2>2
  <2> QED BY <2>2, <2>3
<1>10. \A i \in (DOMAIN mid) \ D : ~IsClient(mid[i])
  BY <1>4, <1>7
<1> HIDE DEF D, mid, new
<1>11. From(mid, (DOMAIN mid) \ D, new)
  BY <1>1, <1>4, DeleteFrom
<1>12. PICK f \in Injection(DOMAIN new, (DOMAIN mid) \ D) : \A k \in DOMAIN new : new[k] = mid[f[k]]
  BY <1>11 DEF From
<1>13. \A k \in DOMAIN new : f[k] \in (DOMAIN mid) \ D /\ new[k] = mid[f[k]]
  BY <1>12 DEF Injection
<1>14. \A k \in DOMAIN new : ~IsClient(new[k]) /\ (IsScript(new[k]) => new[k].key \in Standing)
  BY <1>9, <1>10, <1>13
<1>15. NoClients(new)
  BY <1>14 DEF NoClients, ClientsAt
<1>16. Accounted(new, {}) /\ Single(new)
  BY <1>14 DEF Accounted, Single
<1> QED BY <1>15, <1>16 DEF new

\* The two lines of a course.
LEMMA CourseKeys ==
  ASSUME Steady, NEW b, NEW e, Course(b, e)
  PROVE  /\ b \in OnceKey /\ e \in OnceKey
         /\ e.do = EndDisposition(b.do) /\ e.do # b.do
         /\ b.sched.at = {Due(b)} /\ e.sched.at = {Due(e)}
         /\ Due(b) \in Slot /\ Due(e) \in Slot /\ Due(b) <= Due(e)
         /\ \A k \in Standing : \/ k.do = e.do
                                \/ Effect(k.do) = Effect(b.do)
                                \/ k.sched.at \cap (Due(b) .. Due(e) - 1) = {}
<1>1. PICK c \in TwoParts : b = KeyBegin(c) /\ e = KeyEnd(c)
  BY DEF Course
<1>2. c \in Message /\ c.kind = "two" /\ ~c.at.rec
  BY ReceivedAreMessages DEF TwoParts, Received
<1>3. b \in OnceKey /\ e \in OnceKey
  BY <1>1, <1>2, KeyTypes
<1>4. /\ b.do = c.do /\ b.sched = c.at /\ e.do = EndDisposition(c.do) /\ e.sched = c.until
  BY <1>1 DEF KeyBegin, KeyEnd
<1>5. e.do = EndDisposition(b.do) /\ e.do # b.do
  BY <1>4 DEF EndDisposition
<1>6. \A k \in OnceKey : k.sched.at = {Due(k)} /\ Due(k) \in Slot
  BY DEF OnceKey, Once, Due, schedule_to_epoch
<1>7. Due(b) <= Due(e)
  BY <1>4 DEF Steady, Due
<1>8. \A k \in Standing : \/ k.do = e.do
                          \/ Effect(k.do) = Effect(b.do)
                          \/ k.sched.at \cap (Due(b) .. Due(e) - 1) = {}
  BY <1>4 DEF Steady, Covered, Due
<1> QED BY <1>3, <1>5, <1>6, <1>7, <1>8

\* A minute later, whatever crond ran but the client line: the device does what
\* the course does.
LEMMA CourseGoesOn ==
  ASSUME Steady, NEW tab \in Seq(Line), OneClient(tab), TimedTable(tab),
         Accounted(tab, {}), Single(tab), OfCourse(tab),
         NEW minute \in Slot, NEW state, Phase(tab, minute, state),
         NEW next, next = (minute + 1) % YearLen,
         \A i \in FiredAt(tab, next) : ~IsClient(tab[i]),
         NEW after, \/ \E i \in FiredAt(tab, next) : after = Effect(tab[i].key.do)
                    \/ FiredAt(tab, next) = {} /\ after = state
  PROVE  Phase(tab, next, after)
<1> SUFFICES ASSUME NEW u \in ClientsAt(tab), Both(tab, tab[u].key.b, tab[u].key.e)
             PROVE  IF tab[u].key.do = "clear"
                    THEN next < Due(tab[u].key.b) - 1
                    ELSE /\ next \in Due(tab[u].key.b) - 1 .. Due(tab[u].key.e)
                         /\ Quiet(tab, tab[u].key.b, tab[u].key.e, next)
                         /\ next \in Due(tab[u].key.b) .. Due(tab[u].key.e) - 1 =>
                              after = Effect(tab[u].key.b.do)
  BY DEF Phase
<1> DEFINE b == tab[u].key.b
           e == tab[u].key.e
           from == Due(b)
           to == Due(e)
<1>1. /\ Course(b, e)
      /\ tab[u].key.do = "clear" => tab[u].key.sched.at = {from - 1}
      /\ tab[u].key.do # "clear" => UnholdTime(e) \in tab[u].key.sched.at
  BY DEF OfCourse, TimedTable, Timed, ClientsAt
<1>2. next \notin tab[u].key.sched.at
  BY DEF FiredAt, ActiveAt, Active, ClientsAt, IsClient, OneClient
<1>3. IF tab[u].key.do = "clear"
      THEN minute < from - 1
      ELSE /\ minute \in from - 1 .. to
           /\ Quiet(tab, b, e, minute)
           /\ minute \in from .. to - 1 => state = Effect(b.do)
  BY DEF Phase
<1>4. About(tab) = {b, e}
  <2>1. ClientsAt(tab) = {u}
    BY DEF OneClient
  <2> QED BY <2>1 DEF About
<1>5. There(tab, b)
  BY DEF Both
<1> HIDE DEF b, e
<1>6. /\ b \in OnceKey /\ e \in OnceKey
      /\ e.do = EndDisposition(b.do) /\ e.do # b.do
      /\ b.sched.at = {from} /\ e.sched.at = {to}
      /\ from \in Slot /\ to \in Slot /\ from <= to
      /\ \A k \in Standing : \/ k.do = e.do
                             \/ Effect(k.do) = Effect(b.do)
                             \/ k.sched.at \cap (from .. to - 1) = {}
  BY <1>1, CourseKeys
<1>7. UnholdTime(e) = (to + 1) % YearLen
  BY DEF UnholdTime, Due
<1>8. /\ from \in 0 .. YearLen - 1 /\ to \in 0 .. YearLen - 1 /\ minute \in 0 .. YearLen - 1
      /\ YearLen \in Nat /\ YearLen > 0
  BY <1>6, YearLenAssumption DEF Slot
<1>9. CASE tab[u].key.do = "clear"
  <2>1. minute < from - 1 /\ next # from - 1
    BY <1>1, <1>2, <1>3, <1>9
  <2> HIDE DEF from
  <2>2. (minute + 1) % YearLen = minute + 1
    BY <1>8, <2>1
  <2>3. next < from - 1
    BY <1>8, <2>1, <2>2
  <2> QED BY <1>9, <2>3 DEF b, from
<1>10. CASE tab[u].key.do # "clear"
  <2>1. /\ minute \in from - 1 .. to /\ next # (to + 1) % YearLen
        /\ Quiet(tab, b, e, minute)
        /\ minute \in from .. to - 1 => state = Effect(b.do)
    BY <1>1, <1>2, <1>3, <1>7, <1>10
  <2>2. minute < to /\ next = minute + 1 /\ next \in from .. to
    <3> HIDE DEF from, to
    <3>1. minute # to
      BY <2>1
    <3>2. minute < to
      BY <1>8, <2>1, <3>1
    <3>3. (minute + 1) % YearLen = minute + 1
      BY <1>8, <3>2
    <3> QED BY <1>8, <2>1, <3>2, <3>3
  <2>3. Quiet(tab, b, e, next)
    <3>1. next + 1 .. to \subseteq minute + 1 .. to
      BY <1>8, <2>2
    <3> QED BY <2>1, <3>1 DEF Quiet
  <2>4. ASSUME next \in from .. to - 1, NEW i \in FiredAt(tab, next)
        PROVE  Effect(tab[i].key.do) = Effect(b.do)
    <3>1. /\ i \in ActiveAt(tab) /\ i \in DOMAIN tab /\ IsScript(tab[i])
          /\ next \in tab[i].key.sched.at
      BY <2>4 DEF FiredAt, ActiveAt, Active, IsScript
    <3>2. tab[i].key \in Standing \cup {b, e}
      BY <1>4, <3>1 DEF Accounted
    <3>3. next \in Int /\ next <= to - 1
      BY <1>8, <2>2, <2>4
    <3>4. tab[i].key # e
      BY <1>6, <1>8, <3>1, <3>3
    <3>5. CASE tab[i].key = b
      BY <3>5
    <3>6. CASE tab[i].key \notin {b, e}
      <4>1. tab[i].key.do # e.do
        <5>1. next \in minute + 1 .. to
          BY <1>8, <2>2
        <5> QED BY <2>1, <3>1, <3>6, <5>1 DEF Quiet, IsScript
      <4> QED BY <1>6, <2>4, <3>1, <3>2, <3>6, <4>1
    <3> QED BY <3>4, <3>5, <3>6
  <2>5. ASSUME next \in from .. to - 1
        PROVE  after = Effect(b.do)
    <3>1. CASE FiredAt(tab, next) = {} /\ after = state
      <4>1. next # from
        <5>1. PICK i \in DOMAIN tab : IsScript(tab[i]) /\ tab[i].key = b
          BY <1>5 DEF There
        <5>2. i \in ActiveAt(tab)
          BY <2>1, <5>1 DEF Quiet, ActiveAt, OnHoldAt, Active, OnHold, IsScript
        <5>3. i \notin FiredAt(tab, next)
          BY <3>1
        <5> QED BY <1>6, <5>1, <5>2, <5>3 DEF FiredAt
      <4>2. minute \in from .. to - 1
        <5> HIDE DEF from, to
        <5> QED BY <1>8, <2>2, <2>5, <4>1
      <4> QED BY <2>1, <3>1, <4>2
    <3> QED BY <2>4, <2>5, <3>1
  <2>6. next \in from - 1 .. to
    <3> HIDE DEF from, to
    <3> QED BY <1>8, <2>2
  <2> QED BY <1>10, <2>3, <2>5, <2>6 DEF b, e, from, to
<1> QED BY <1>9, <1>10

-----------------------------------------------------------------------------
(* Every step keeps it *)

\* What is accounted for without further lines is so with them.
LEMMA AccountedMore ==
  ASSUME NEW tab, NEW keys, Accounted(tab, {})
  PROVE  Accounted(tab, keys)
BY DEF Accounted

\* An empty table is steady.
LEMMA EmptySteady ==
  ASSUME NEW minute, NEW state
  PROVE  /\ Single(<< >>) /\ OfCourse(<< >>) /\ Phase(<< >>, minute, state)
         /\ NoClients(<< >>) /\ \A keys : Accounted(<< >>, keys)
<1>1. DOMAIN << >> = {}
  OBVIOUS
<1> QED BY <1>1, EmptyTidy, NoClientsSteady DEF Single, Accounted

\* The user's crontab holds nothing else than the user's lines.
LEMMA InitSteady ==
  ASSUME Steady, Init
  PROVE  SteadyInv
<1>1. /\ crontab = Crontab0 /\ work = << >> /\ inbox = << >> /\ req.kind = "none"
      /\ pc = "accept" /\ crontab \in Seq(Line)
  BY Crontab0Assumption DEF Init, NoReq
<1>2. NoClients(crontab)
  BY <1>1, NoClientLinesAssumption DEF NoClients, ClientsAt
<1>3. \A i \in DOMAIN crontab : IsScript(crontab[i]) => crontab[i].key \in Standing
  <2> SUFFICES ASSUME NEW i \in DOMAIN crontab, IsScript(crontab[i])
               PROVE  crontab[i].key \in Standing
    OBVIOUS
  <2>1. crontab[i] \in Entry
    BY <1>1, LenProperties, ElementOfSeq, EntryOfLine DEF IsScript
  <2>2. IsEntry(crontab[i]) /\ (crontab[i].tmp = TRUE \/ crontab[i].tmp = FALSE)
    BY <2>1 DEF Entry, IsScript
  <2>3. crontab[i].key \in LinesOf(Crontab0, TRUE) \cup LinesOf(Crontab0, FALSE)
    BY <1>1, <2>2 DEF LinesOf
  <2> QED BY <2>3 DEF Standing, OwnKeys
<1>4. /\ Single(crontab) /\ OfCourse(crontab) /\ Phase(crontab, now, device)
      /\ \A keys : Accounted(crontab, keys)
  BY <1>2, <1>3, NoClientsSteady DEF Single, Accounted
<1>5. \A n : n \notin DOMAIN inbox
  BY <1>1
<1> QED BY <1>1, <1>4, <1>5, EmptySteady
    DEF SteadyInv, Begun, Beginning, Begins, InTime, NothingBefore

\* What a handler finds: no client's message waits, and but for the handlers of
\* those the course is as it should be.
LEMMA FoundSteady ==
  ASSUME Steady, TypeOK, HeldInv, SteadyInv, pc \notin {"accept", "dead", "off"}
  PROVE  LET tab == cron_all(crontab)
         IN  /\ tab \in Seq(Line) /\ Tidy(tab) /\ Single(tab) /\ OfCourse(tab)
             /\ Accounted(tab, Hand)
             /\ pc = "dispatch" => Hand = {} /\ Accounted(crontab, {}) /\ Accounted(tab, {})
             /\ NoClients(crontab) => NoClients(tab)
             /\ \A b, e : Both(tab, b, e) <=> Both(crontab, b, e)
             /\ req.kind \notin {"clear", "unhold"} =>
                  Phase(crontab, now, device) /\ Phase(tab, now, device)
<1> DEFINE tab == cron_all(crontab)
<1>1. crontab \in Seq(Line) /\ Tidy(crontab)
  BY DEF TypeOK, HeldInv
<1>2. tab \in Seq(Line) /\ Tidy(tab)
  BY <1>1, CronAllTidy
<1>3. /\ Single(crontab) => Single(tab)
      /\ \A keys : Accounted(crontab, keys) => Accounted(tab, keys)
      /\ OfCourse(crontab) => OfCourse(tab)
      /\ NoClients(crontab) => NoClients(tab)
      /\ \A b, e : Both(tab, b, e) <=> Both(crontab, b, e)
      /\ Phase(crontab, now, device) => Phase(tab, now, device)
  BY <1>1, ReadSteady
<1> HIDE DEF tab
<1>4. req.kind \notin {"clear", "unhold"} => Phase(crontab, now, device)
  <2>1. \A n \in DOMAIN inbox : inbox[n].kind \notin {"clear", "unhold"}
    BY InHand DEF HeldInv
  <2>2. inbox # << >> => Head(inbox) = inbox[1] /\ 1 \in DOMAIN inbox
    BY HeadTailProperties, LenProperties DEF TypeOK
  <2>3. req.kind \notin {"clear", "unhold"} => ~ClientDue
    BY <2>1, <2>2 DEF ClientDue
  <2> QED BY <2>3 DEF SteadyInv
<1>5. pc = "dispatch" => Hand = {}
  BY DEF Hand, Beginning
<1>6. Single(crontab) /\ OfCourse(crontab) /\ Accounted(crontab, Hand)
  BY DEF SteadyInv
<1> QED BY <1>2, <1>3, <1>4, <1>5, <1>6 DEF tab

\* A handler that is done.
LEMMA FinishSteady ==
  ASSUME Steady, TypeOK, SteadyInv, Finish, UNCHANGED <<now, inbox>>,
         Accounted(crontab', {}), Single(crontab'), OfCourse(crontab'),
         Phase(crontab', now, device'),
         NoClients(crontab) /\ NoClients(work) => NoClients(crontab')
  PROVE  SteadyInv'
<1>1. /\ pc' = "accept" /\ req'.kind = "none" /\ work' = << >>
      /\ now' = now /\ inbox' = inbox
  BY DEF Finish, NoReq
<1>2. Hand' = {} /\ ~Beginning'
  BY <1>1 DEF Hand, Beginning, Begins
<1>3. /\ Single(work') /\ OfCourse(work') /\ Phase(work', now', device')
      /\ NoClients(work') /\ Accounted(work', {})
  BY <1>1, EmptySteady
<1>4. (\A n \in DOMAIN inbox : InTime(inbox[n]))'
  BY <1>1 DEF SteadyInv, InTime
<1>5. NothingBefore'
  BY <1>1, <1>3 DEF SteadyInv, NothingBefore, TwoKinds
<1> QED BY <1>1, <1>2, <1>3, <1>4, <1>5 DEF SteadyInv, Begun

\* A handler that goes on to write an array.
LEMMA GoSubmitSteady ==
  ASSUME Steady, TypeOK, HeldInv', SteadyInv, pc = "dispatch", NEW array, GoSubmit(array),
         Single(array), OfCourse(array), Phase(array, now, device'),
         Accounted(array, IF Begins THEN LinesFor(req) ELSE {}),
         Begins => device' = Effect(req.do) /\ Both(array, KeyBegin(req), KeyEnd(req)),
         device' = device \/ NoClients(crontab),
         UNCHANGED <<crontab, now, inbox>>
  PROVE  SteadyInv'
<1>1. pc' = "submit" /\ work' = array /\ req' = req
  BY DEF GoSubmit
<1>2. /\ Begins' = Begins /\ Beginning' = Begins /\ Hand = {}
      /\ Hand' = IF Begins THEN LinesFor(req) ELSE {}
      /\ ClientDue' = ClientDue
  BY <1>1 DEF Begins, Beginning, Hand, ClientDue, LinesFor, KeyBegin, KeyEnd
<1>3. Accounted(crontab, Hand')
  BY <1>2, AccountedMore DEF SteadyInv
<1>4. Phase(crontab, now, device') \/ ClientDue'
  BY <1>2, NoClientsSteady DEF SteadyInv
<1>5. Begun'
  BY <1>1, <1>2 DEF Begun, KeyBegin, KeyEnd
<1>6. (\A n \in DOMAIN inbox : InTime(inbox[n]))'
  BY DEF SteadyInv, InTime
<1>7. req.kind # "cancel_last"
  BY DEF Steady, Undisturbed, TypeOK, Received, CronMessage, NoReq
<1>8. NothingBefore'
  <2> SUFFICES ASSUME NEW n \in DOMAIN inbox, inbox[n].kind \in Scheduling
               PROVE  NoClients(array)
    BY <1>1 DEF SteadyInv, NothingBefore
  <2>1. NoClients(crontab) /\ req.kind \notin TwoKinds
    BY DEF SteadyInv, NothingBefore
  <2> QED BY <1>1, <1>7, <2>1 DEF HeldInv, WorkFromCrontab, TwoKinds
<1> QED BY <1>1, <1>2, <1>3, <1>4, <1>5, <1>6, <1>8 DEF SteadyInv

\* A command in hand that is no client's is a user's, and of a kind that is sent
\* here.
LEMMA SteadyHand ==
  ASSUME Steady, TypeOK, pc = "dispatch"
  PROVE  /\ req.kind \notin Failing \cup {"silent", "cancel_last", "hold_all", "unhold_all"}
         /\ req.kind \notin {"clear", "unhold"} => req \in UserCommands
<1>1. req \in Received
  BY DEF TypeOK
<1> QED BY <1>1 DEF Received, CronMessage, Steady, Undisturbed, OneByOne, Wholesome, Failing

\* The handlers that only report, and the one that runs a disposition: it waited
\* while no two-part command was about.
LEMMA PlainSteady ==
  ASSUME Steady, TypeOK, HeldInv, SteadyInv, HandleList \/ HandleLast \/ HandleDo
  PROVE  SteadyInv'
<1>1. /\ pc = "dispatch" /\ Finish /\ UNCHANGED <<crontab, now, inbox>>
      /\ req.kind \notin {"clear", "unhold"}
      /\ device' = device \/ req.kind = "do"
  BY DEF HandleList, HandleLast, HandleDo, Dispatch
<1>2. Phase(crontab, now, device) /\ Accounted(crontab, {})
  BY <1>1, FoundSteady
<1>3. req.kind = "do" => NoClients(crontab)
  BY DEF SteadyInv, NothingBefore
<1>4. Phase(crontab, now, device')
  BY <1>1, <1>2, <1>3, NoClientsSteady
<1> QED BY <1>1, <1>2, <1>4, FinishSteady DEF SteadyInv

\* "delete old".
LEMMA DeleteOldKeepsSteady ==
  ASSUME Steady, TypeOK, HeldInv, HeldInv', SteadyInv, ServerAlive', HandleDeleteOld
  PROVE  SteadyInv'
<1> DEFINE tab == cron_all(crontab)
           array == delete_old_cron_jobs(tab, now)
<1>1. /\ pc = "dispatch" /\ req.kind = "delete_old" /\ GoSubmit(array)
      /\ UNCHANGED <<crontab, now, device, inbox>>
  BY DEF HandleDeleteOld, Dispatch, Die, ServerAlive
<1>2. /\ tab \in Seq(Line) /\ OneClient(tab) /\ Single(tab) /\ OfCourse(tab)
      /\ Accounted(tab, {}) /\ Phase(tab, now, device)
  BY <1>1, FoundSteady DEF Tidy
<1> HIDE DEF tab
<1>3. Single(array) /\ OfCourse(array) /\ Accounted(array, {}) /\ Phase(array, now, device)
  BY <1>2, DeleteOldSteady
<1> HIDE DEF array
<1>4. ~Begins
  BY <1>1 DEF Begins
<1> QED BY <1>1, <1>3, <1>4, GoSubmitSteady

\* A one-part command waited while no two-part command was about.
LEMMA OnePartSteady ==
  ASSUME Steady, TypeOK, HeldInv, HeldInv', SteadyInv, HandleOnePart
  PROVE  SteadyInv'
<1> DEFINE tab == cron_all(crontab)
           b == KeyBegin(req)
           array == add_begin(tab, b)
<1>1. /\ pc = "dispatch" /\ req.kind = "one" /\ GoSubmit(array)
      /\ UNCHANGED <<crontab, now, inbox>>
  BY DEF HandleOnePart, Dispatch
<1>2. b \in DeviceKey /\ b \in Standing
  <2>1. b \in DeviceKey
    BY <1>1, KindsInHand DEF Steady, Undisturbed
  <2>2. req \in UserCommands
    BY <1>1, SteadyHand
  <2> QED BY <1>1, <2>1, <2>2 DEF Standing
<1>3. NoClients(crontab)
  BY <1>1 DEF SteadyInv, NothingBefore
<1>4. tab \in Seq(Line) /\ NoClients(tab) /\ Single(tab) /\ Accounted(tab, {})
  BY <1>1, <1>3, FoundSteady
<1>5. array = Append(tab, DeviceLine(b, TRUE))
  BY DEF add_begin
<1> HIDE DEF tab, b, array
<1>6. NoClients(array) /\ Accounted(array, {}) /\ Single(array)
  BY <1>2, <1>4, <1>5, AddSteady
<1>7. OfCourse(array) /\ Phase(array, now, device')
  BY <1>6, NoClientsSteady
<1>8. ~Begins
  BY <1>1 DEF Begins
<1> QED BY <1>1, <1>3, <1>6, <1>7, <1>8, GoSubmitSteady

\* A two-part command comes when there is no other, and in time.
LEMMA TwoPartKeepsSteady ==
  ASSUME Steady, TypeOK, HeldInv, HeldInv', SteadyInv, HandleTwoPart
  PROVE  SteadyInv'
<1> DEFINE tab == cron_all(crontab)
           b == KeyBegin(req)
           e == KeyEnd(req)
           array == add_begin_end(tab, b, e, req.year, now)
           plain == add_begin_end(tab, b, e, 0, now)
<1>1. /\ pc = "dispatch" /\ req.kind = "two" /\ GoSubmit(array) /\ ExecuteNow
      /\ UNCHANGED <<crontab, now, inbox>>
  BY DEF HandleTwoPart, Dispatch
<1>2. /\ b \in DeviceKey /\ e \in DeviceKey /\ b # e /\ b.sched.rec = e.sched.rec
  BY <1>1, KindsInHand DEF Steady, Undisturbed
<1>3. req \in UserCommands /\ b.sched = req.at
  BY <1>1, SteadyHand DEF KeyBegin
<1>4. NoClients(crontab)
  BY <1>1 DEF HeldInv, AloneInHand
<1>5. tab \in Seq(Line) /\ NoClients(tab) /\ Single(tab) /\ Accounted(tab, {})
  BY <1>1, <1>4, FoundSteady
<1>6. req.at.rec => b \in Standing /\ e \in Standing
  BY <1>1, <1>3 DEF Standing, LinesFor
<1>7. ~req.at.rec => Course(b, e) /\ req.year = 0
  BY <1>1, <1>3 DEF Course, TwoParts, Steady
<1>8. ~req.at.rec => tbl_is_now_p(req.at, now) \/ Due(b) >= now + 2
  BY <1>1, <1>3 DEF SteadyInv, InTime, Due
<1>9. array = plain
  BY <1>3, <1>7 DEF add_begin_end
<1>10. Begins => device' = Effect(req.do)
  BY <1>1 DEF ExecuteNow, Begins
<1>11. Begins <=> tbl_is_now_p(req.at, now)
  BY <1>1 DEF Begins
<1>12. LinesFor(req) = {b, e}
  BY DEF LinesFor
<1>13. now \in Slot
  BY DEF TypeOK
<1>14. tbl_is_now_p(req.at, now) => ~req.at.rec
  BY DEF tbl_is_now_p
<1> HIDE DEF tab, b, e, array, plain
<1>15. /\ Single(plain)
       /\ req.at.rec => Accounted(plain, {}) /\ NoClients(plain)
       /\ tbl_is_now_p(req.at, now) =>
            Accounted(plain, {b, e}) /\ NoClients(plain) /\ Both(plain, b, e)
       /\ ~req.at.rec /\ Due(b) >= now + 2 =>
            Accounted(plain, {}) /\ OfCourse(plain) /\ Phase(plain, now, device')
  BY <1>2, <1>3, <1>5, <1>6, <1>7, <1>13, TwoPartSteady DEF plain
<1>16. NoClients(plain) => OfCourse(plain) /\ Phase(plain, now, device')
  BY NoClientsSteady
<1>17. /\ Single(array) /\ OfCourse(array) /\ Phase(array, now, device')
       /\ Accounted(array, IF Begins THEN LinesFor(req) ELSE {})
       /\ Begins => device' = Effect(req.do) /\ Both(array, b, e)
  BY <1>8, <1>9, <1>10, <1>11, <1>12, <1>14, <1>15, <1>16
<1> QED BY <1>1, <1>4, <1>17, GoSubmitSteady DEF b, e

\* A line that jobnum does not find is not there, with nothing on hold.
LEMMA JobnumMisses ==
  ASSUME NEW tab \in Seq(Line), OnHoldAt(tab) = {}, NEW md5,
         md5sumhexa_to_jobnum(tab, md5) = 0
  PROVE  ~There(tab, md5)
<1> SUFFICES ASSUME NEW i \in DOMAIN tab, IsScript(tab[i]), tab[i].key = md5
             PROVE  FALSE
  BY DEF There
<1> DEFINE jobs == cronjob_line_numbers(tab)
           sums == cronjob_md5sumhexa(tab)
           I == {k \in DOMAIN sums : sums[k] = md5}
<1>1. sums \in Seq(Key) /\ LastOf(I) = 0
  BY ParallelArrays DEF md5sumhexa_to_jobnum
<1>2. I \in SUBSET (1 .. Len(sums)) /\ Len(sums) \in Nat /\ DOMAIN sums = 1 .. Len(sums)
  BY <1>1, LenProperties
<1>3. i \in ActiveAt(tab)
  BY DEF ActiveAt, OnHoldAt, Active, OnHold, IsScript
<1>4. PICK k \in DOMAIN jobs : jobs[k] = i
  BY <1>3, JobOfActive
<1>5. k \in DOMAIN sums /\ sums[k] = md5
  BY <1>4, ParallelArrays, ArraysAgree
<1>6. k \in I /\ k \in 1 .. Len(sums)
  BY <1>2, <1>5
<1> HIDE DEF I, sums
<1>7. LastOf(I) \in I
  BY <1>2, <1>6, FirstLast
<1> QED BY <1>1, <1>2, <1>7

\* Where clear_schedule_for() returns early, the two lines are not both there.
LEMMA ReturnsWithout ==
  ASSUME NEW tab \in Seq(Line), OnHoldAt(tab) = {}, NEW b, NEW e, clear_returns(tab, b, e)
  PROVE  ~Both(tab, b, e)
BY JobnumMisses DEF clear_returns, Both

\* What clear_schedule_for() finds.
LEMMA FoundToClear ==
  ASSUME Steady, TypeOK, HeldInv, AliveInv, SteadyInv, pc \in {"dispatch", "clear_now"},
         NEW b \in OnceKey, NEW e \in OnceKey,
         Sends(crontab, [kind |-> "clear", b |-> b, e |-> e])
  PROVE  LET tab == cron_all(crontab)
         IN  /\ tab \in Seq(KnownLine) /\ tab \in Seq(Line) /\ Tidy(tab) /\ Single(tab)
             /\ Sends(tab, [kind |-> "clear", b |-> b, e |-> e])
             /\ OnHoldAt(tab) = {}
             /\ clear_returns(tab, b, e) => ~Both(crontab, b, e)
<1> DEFINE tab == cron_all(crontab)
<1>1. /\ tab \in Seq(KnownLine) /\ tab \in Seq(Line) /\ Tidy(tab) /\ Single(tab)
      /\ Both(tab, b, e) <=> Both(crontab, b, e)
  BY KnownRead, FoundSteady
<1>2. Sends(tab, [kind |-> "clear", b |-> b, e |-> e])
  BY CronAllTidy DEF TypeOK, HeldInv
<1> HIDE DEF tab
<1>3. OnHoldAt(tab) = {}
  <2>1. \A i \in ClientsAt(tab) : tab[i].key.do # "unhold"
    BY <1>2, SendsClear
  <2> QED BY <1>1, <2>1, NoUnholdNoneOnHold
<1>4. clear_returns(tab, b, e) => ~Both(crontab, b, e)
  BY <1>1, <1>3, ReturnsWithout
<1> QED BY <1>1, <1>2, <1>3, <1>4 DEF tab

\* "clear schedule for" comes in the minute before the course.
LEMMA ClearKeepsSteady ==
  ASSUME Steady, TypeOK, HeldInv, HeldInv', AliveInv, ServerAlive', SteadyInv, HandleClear
  PROVE  SteadyInv'
<1> DEFINE tab == cron_all(crontab)
           b == req.b
           e == req.e
           array == clear_schedule_for(tab, b, e, now)
<1>1. /\ pc = "dispatch" /\ req.kind = "clear" /\ ClearScheduleFor(b, e) /\ ~Die
      /\ req \in Message
  BY ReceivedAreMessages DEF HandleClear, Dispatch, Die, ServerAlive, TypeOK
<1>2. b \in OnceKey /\ e \in OnceKey
  BY <1>1, MessageKinds
<1>3. now = Due(b) - 1 /\ Course(b, e)
  BY <1>1 DEF SteadyInv, InTime
<1>4. req = [kind |-> "clear", b |-> b, e |-> e]
  <2>1. req \in [kind : {"clear"}, b : OnceKey, e : OnceKey]
    BY <1>1, UserCommandsAssumption DEF Message, Command, CronMessage, Failing
  <2> QED BY <2>1
<1>5. Sends(crontab, [kind |-> "clear", b |-> b, e |-> e])
  BY <1>1, <1>4 DEF HeldInv, CurrentClient
<1>6. /\ tab \in Seq(KnownLine) /\ Tidy(tab) /\ Single(tab)
      /\ Sends(tab, [kind |-> "clear", b |-> b, e |-> e])
      /\ clear_returns(tab, b, e) => ~Both(crontab, b, e)
  BY <1>1, <1>2, <1>5, FoundToClear
<1>7. Accounted(tab, {b, e}) /\ Accounted(crontab, {})
  BY <1>1, FoundSteady, AccountedMore
<1>8. /\ ~clear_fails(tab, b, e) /\ UNCHANGED <<crontab, now, device, inbox>>
      /\ IF clear_returns(tab, b, e) THEN Finish ELSE GoSubmit(array)
  BY <1>1 DEF ClearScheduleFor
<1>9. /\ now \in Slot /\ Due(b) <= Due(e)
      /\ now \in {Due(b) - 1, Due(b)} /\ now # Due(b)
  <2>1. Due(b) \in Slot /\ Due(b) <= Due(e)
    BY <1>3, CourseKeys
  <2>2. Due(b) \in Int
    BY <2>1 DEF Slot
  <2> QED BY <1>3, <2>1, <2>2 DEF TypeOK
<1>10. CASE clear_returns(tab, b, e)
  <2>1. Phase(crontab, now, device)
    <3> SUFFICES ASSUME NEW u \in ClientsAt(crontab)
                 PROVE  ~Both(crontab, crontab[u].key.b, crontab[u].key.e)
      BY DEF Phase
    <3>1. crontab[u].key.b = b /\ crontab[u].key.e = e
      BY <1>5, SendsClear
    <3> QED BY <1>6, <1>10, <3>1
  <2>2. Finish
    BY <1>8, <1>10
  <2>3. Single(crontab) /\ OfCourse(crontab)
    BY DEF SteadyInv
  <2> QED BY <1>7, <1>8, <2>1, <2>2, <2>3, FinishSteady
<1>11. CASE ~clear_returns(tab, b, e)
  <2>1. GoSubmit(array)
    BY <1>8, <1>11
  <2>2. Accounted(array, {}) /\ Single(array) /\ OfCourse(array) /\ Phase(array, now, device)
    <3> HIDE DEF tab, b, e
    <3> QED BY <1>2, <1>3, <1>6, <1>7, <1>8, <1>9, <1>11, ClearSteady
  <2>3. ~Begins
    BY <1>1 DEF Begins
  <2> HIDE DEF array
  <2> QED BY <1>1, <1>8, <2>1, <2>2, <2>3, GoSubmitSteady
<1> QED BY <1>10, <1>11

\* "unhold" leaves nothing of the course.
LEMMA UnholdKeepsSteady ==
  ASSUME Steady, TypeOK, HeldInv, HeldInv', ServerAlive', SteadyInv, HandleUnhold
  PROVE  SteadyInv'
<1> DEFINE tab == cron_all(crontab)
           b == req.b
           e == req.e
           held == req.held
           array == unhold_jobs_delete_jobs(tab, held, b, e)
<1>1. pc = "dispatch" /\ req.kind = "unhold" /\ ~Die
  BY DEF HandleUnhold, Dispatch, Die, ServerAlive
<1>2. b \in OnceKey /\ e \in OnceKey /\ held \in Seq(Key)
      /\ req = [kind |-> "unhold", b |-> b, e |-> e, held |-> held]
  <2>1. req \in Message
    BY <1>1, InHand DEF HeldInv
  <2>2. req \in [kind : {"unhold"}, b : OnceKey, e : OnceKey, held : Seq(Key)]
    BY <1>1, <2>1, UserCommandsAssumption DEF Message, Command, CronMessage, Failing
  <2> QED BY <2>2
<1>3. /\ tab \in Seq(Line) /\ Tidy(tab) /\ Single(tab) /\ Accounted(tab, {})
      /\ Sends(tab, [kind |-> "unhold", b |-> b, e |-> e, held |-> held])
  <2>1. Sends(crontab, req)
    BY <1>1 DEF HeldInv, CurrentClient
  <2>2. Sends(tab, [kind |-> "unhold", b |-> b, e |-> e, held |-> held])
    BY <1>2, <2>1, CronAllTidy DEF TypeOK, HeldInv
  <2> QED BY <1>1, <2>2, FoundSteady
<1>4. GoSubmit(array) /\ UNCHANGED <<crontab, now, device, inbox>>
  BY <1>1 DEF HandleUnhold
<1>5. NoClients(array) /\ Accounted(array, {}) /\ Single(array)
  <2> HIDE DEF tab, b, e, held
  <2> QED BY <1>2, <1>3, UnholdSteady
<1> HIDE DEF array
<1>6. OfCourse(array) /\ Phase(array, now, device)
  BY <1>5, NoClientsSteady
<1>7. ~Begins
  BY <1>1 DEF Begins
<1> QED BY <1>1, <1>4, <1>5, <1>6, <1>7, GoSubmitSteady

\* The write; a two-part command that begins now goes on.
LEMMA WriteSteady ==
  ASSUME Steady, TypeOK, HeldInv, SteadyInv, Submit \/ Resubmit
  PROVE  SteadyInv'
<1>1. crontab' = submit_crontab(work) /\ UNCHANGED <<now, device, inbox>>
  BY DEF Submit, Resubmit
<1>2. /\ Single(crontab') /\ OfCourse(crontab') /\ Phase(crontab', now, device)
      /\ \A keys : Accounted(work, keys) => Accounted(crontab', keys)
      /\ \A b, e : Both(work, b, e) => Both(crontab', b, e)
      /\ NoClients(work) => NoClients(crontab')
  BY <1>1, SubmitSteady DEF TypeOK, SteadyInv
<1>3. CASE Finish /\ (pc = "submit" => ~Begins)
  <2>1. pc = "submit" => Hand = {}
    BY <1>3 DEF Hand, Beginning
  <2>2. Accounted(work, {})
    BY <2>1 DEF SteadyInv
  <2> QED BY <1>1, <1>2, <1>3, <2>2, FinishSteady
<1>4. CASE pc = "submit" /\ Begins /\ pc' = "clear_now" /\ work' = << >> /\ UNCHANGED req
  <2>1. /\ Beginning /\ Beginning' /\ Hand = LinesFor(req) /\ Hand' = LinesFor(req)
        /\ req.kind = "two"
    BY <1>1, <1>4 DEF Beginning, Begins, Hand, LinesFor, KeyBegin, KeyEnd
  <2>2. Accounted(crontab', Hand')
    BY <1>2, <1>4, <2>1 DEF SteadyInv
  <2>3. Begun'
    BY <1>1, <1>2, <1>4, <2>1 DEF SteadyInv, Begun, KeyBegin, KeyEnd
  <2>4. (\A n \in DOMAIN inbox : InTime(inbox[n]))'
    BY <1>1 DEF SteadyInv, InTime
  <2>5. NothingBefore'
    BY <1>1, <1>4, <2>1 DEF SteadyInv, NothingBefore, TwoKinds
  <2>6. /\ Single(work') /\ OfCourse(work') /\ Phase(work', now', device')
        /\ Accounted(work', {})
    BY <1>4, EmptySteady
  <2> QED BY <1>1, <1>2, <1>4, <2>2, <2>3, <2>4, <2>5, <2>6 DEF SteadyInv
<1> QED BY <1>3, <1>4 DEF Submit, Resubmit, Begins, Finish

\* The clear_schedule_for() of a two-part command that has just begun.
LEMMA ClearNowSteady ==
  ASSUME Steady, TypeOK, HeldInv, AliveInv, CourseInv, ServerAlive', SteadyInv, ClearNow
  PROVE  SteadyInv'
<1> DEFINE tab == cron_all(crontab)
           b == KeyBegin(req)
           e == KeyEnd(req)
           array == clear_schedule_for(tab, b, e, now)
<1>1. pc = "clear_now" /\ req.kind = "two" /\ ~req.at.rec /\ ~Die
  BY DEF ClearNow, TypeOK, Die, ServerAlive
<1>2. b \in OnceKey /\ e \in OnceKey
  BY <1>1, InHand, KeyTypes DEF HeldInv
<1>3. Sends(crontab, [kind |-> "clear", b |-> b, e |-> e])
  BY <1>1 DEF HeldInv, AloneInHand, ClearOf
<1>4. Beginning /\ Hand = {b, e} /\ Due(b) = now
  <2>1. req.at.at = {now}
    BY <1>1 DEF CourseInv
  <2>2. Due(b) = now
    BY <2>1 DEF Due, KeyBegin, schedule_to_epoch
  <2> QED BY <1>1, <2>1, <2>2 DEF Beginning, Begins, tbl_is_now_p, Hand, LinesFor
<1>5. device = Effect(b.do) /\ Both(crontab, b, e)
  BY <1>1, <1>4 DEF SteadyInv, Begun, KeyBegin
<1>6. Course(b, e) /\ Due(b) <= Due(e)
  <2>1. req \in UserCommands
    BY <1>1 DEF TypeOK, Received, CronMessage, NoReq
  <2>2. Course(b, e)
    BY <1>1, <2>1 DEF Course, TwoParts
  <2> QED BY <2>2, CourseKeys
<1>7. /\ tab \in Seq(KnownLine) /\ Tidy(tab) /\ Single(tab)
      /\ Sends(tab, [kind |-> "clear", b |-> b, e |-> e])
      /\ ~clear_returns(tab, b, e)
  BY <1>1, <1>2, <1>3, <1>5, FoundToClear
<1>8. Accounted(tab, {b, e}) /\ Phase(crontab, now, device)
  BY <1>1, <1>4, FoundSteady
<1>9. /\ ~clear_fails(tab, b, e) /\ UNCHANGED <<crontab, now, device, inbox>>
      /\ pc' = "resubmit" /\ work' = array /\ UNCHANGED req
  BY <1>1, <1>7 DEF ClearNow
<1>10. now \in Slot
  BY DEF TypeOK
<1>11. Accounted(array, {}) /\ Single(array) /\ OfCourse(array) /\ Phase(array, now, device)
  <2> HIDE DEF tab, b, e
  <2>1. now \in {Due(b) - 1, Due(b)}
    BY <1>4
  <2> QED BY <1>2, <1>4, <1>5, <1>6, <1>7, <1>8, <1>9, <1>10, <2>1, ClearSteady
<1> HIDE DEF tab, array
<1>12. Beginning' /\ Hand' = Hand
  BY <1>4, <1>9 DEF Beginning, Begins, Hand, LinesFor, KeyBegin, KeyEnd
<1>13. Begun'
  BY <1>4, <1>9 DEF SteadyInv, Begun
<1>14. (\A n \in DOMAIN inbox : InTime(inbox[n]))'
  BY <1>9 DEF SteadyInv, InTime
<1>15. NothingBefore'
  BY <1>1, <1>9 DEF SteadyInv, NothingBefore, TwoKinds
<1>16. Accounted(crontab', Hand') /\ Single(crontab') /\ OfCourse(crontab')
  BY <1>9, <1>12 DEF SteadyInv
<1> QED BY <1>8, <1>9, <1>11, <1>13, <1>14, <1>15, <1>16 DEF SteadyInv

\* A minute begins: crond runs the client line, or the course goes on.
LEMMA TickSteady ==
  ASSUME Steady, TypeOK, HeldInv, ServerAlive, CourseInv, SteadyInv, Tick
  PROVE  SteadyInv'
<1> DEFINE fired == FiredAt(crontab, now')
           clients == {i \in fired : IsClient(crontab[i])}
           states == {Effect(crontab[i].key.do) : i \in fired \ clients}
           messages == {MessageOf(crontab[i]) : i \in clients}
<1>1. pc = "accept" /\ inbox = << >> /\ req = NoReq /\ req.kind = "none"
  BY DEF Steady, Undisturbed, OneByOne, Tick, Idle, TypeOK, NoReq, ServerAlive, CourseInv
<1>2. /\ UNCHANGED <<crontab, pc, req, work>> /\ now' = (now + 1) % YearLen
      /\ work = << >>
      /\ device' \in IF states = {} THEN {device} ELSE states
  BY <1>1 DEF Tick, HeldInv, WorkFromCrontab
<1>3. PICK arrivals \in SetToSeqs(messages) : inbox' = inbox \o arrivals
  BY <1>1 DEF Tick
<1>4. clients \subseteq ClientsAt(crontab) /\ clients \in SUBSET (DOMAIN crontab)
  BY DEF FiredAt, ActiveAt, ClientsAt
<1>5. arrivals \in Seq(Received)
  BY <1>3, <1>4, ArrivalsType DEF TypeOK, ClientsAt
<1>6. inbox' = arrivals
  BY <1>1, <1>3, <1>5
<1>7. arrivals \in [1 .. Cardinality(messages) -> messages]
  BY DEF SetToSeqs
<1>8. \A n \in DOMAIN arrivals : \E i \in clients : arrivals[n] = MessageOf(crontab[i])
  BY <1>7
<1>9. (\A n \in DOMAIN inbox : InTime(inbox[n]))'
  <2> SUFFICES ASSUME NEW n \in DOMAIN arrivals
               PROVE  InTime(arrivals[n])'
    BY <1>6
  <2>1. PICK i \in clients : arrivals[n] = MessageOf(crontab[i])
    BY <1>8
  <2>2. arrivals[n].kind \in {"clear", "unhold"}
    BY <2>1 DEF MessageOf
  <2>3. ASSUME arrivals[n].kind = "clear"
        PROVE  now' = Due(arrivals[n].b) - 1 /\ Course(arrivals[n].b, arrivals[n].e)
    <3>1. /\ crontab[i].key.do = "clear"
          /\ arrivals[n].b = crontab[i].key.b /\ arrivals[n].e = crontab[i].key.e
      BY <2>1, <2>3 DEF MessageOf
    <3>2. now' \in crontab[i].key.sched.at /\ i \in ClientsAt(crontab)
      BY <1>4 DEF FiredAt
    <3> QED BY <3>1, <3>2 DEF SteadyInv, OfCourse
  <2> QED BY <2>2, <2>3 DEF InTime
<1>10. \A n \in DOMAIN arrivals : arrivals[n].kind \in {"clear", "unhold"}
  BY <1>8 DEF MessageOf
<1>11. NothingBefore'
  BY <1>1, <1>2, <1>6, <1>10 DEF NothingBefore, Scheduling
<1>12. Phase(crontab', now', device') \/ ClientDue'
  <2>1. CASE clients # {}
    <3>1. PICK u \in ClientsAt(crontab) : clients = {u}
      BY <1>4, <2>1 DEF HeldInv, Tidy, OneClient
    <3>2. messages = {MessageOf(crontab[u])}
      BY <3>1
    <3>3. Cardinality(messages) = 1
      <4> HIDE DEF messages
      <4> QED BY <3>2, FS_Singleton
    <3>4. DOMAIN arrivals = 1 .. 1
      <4> HIDE DEF messages
      <4> QED BY <1>7, <3>3
    <3>5. arrivals # << >> /\ Head(arrivals) = arrivals[1] /\ 1 \in DOMAIN arrivals
      <4> HIDE DEF messages
      <4>1. arrivals \in Seq(Received)
        BY <1>5
      <4>2. Len(arrivals) = 1
        BY <3>4, <4>1, LenProperties
      <4>3. arrivals # << >> /\ Head(arrivals) = arrivals[1]
        BY <4>1, <4>2, HeadTailProperties, EmptySeq
      <4>4. 1 \in DOMAIN arrivals
        BY <3>4
      <4> QED BY <4>3, <4>4
    <3> QED BY <1>6, <1>10, <3>5 DEF ClientDue
  <2>2. CASE clients = {}
    <3> DEFINE next == now'
               after == device'
    <3>1. /\ crontab \in Seq(Line) /\ OneClient(crontab) /\ TimedTable(crontab)
          /\ Single(crontab) /\ OfCourse(crontab) /\ now \in Slot
      BY DEF TypeOK, HeldInv, Tidy, CourseInv, SteadyInv
    <3>2. Accounted(crontab, {})
      BY <1>1 DEF SteadyInv, Hand, Beginning, Begins
    <3>3. Phase(crontab, now, device)
      BY <1>1 DEF SteadyInv, ClientDue
    <3>4. \A i \in fired : ~IsClient(crontab[i])
      BY <2>2
    <3>5. \/ \E i \in fired : after = Effect(crontab[i].key.do)
          \/ fired = {} /\ after = device
      BY <1>2, <2>2
    <3>6. next = (now + 1) % YearLen
      BY <1>2
    <3> HIDE DEF next, after
    <3>7. Phase(crontab, next, after)
      BY <3>1, <3>2, <3>3, <3>4, <3>5, <3>6, CourseGoesOn DEF next
    <3> QED BY <1>2, <3>7 DEF next, after
  <2> QED BY <2>1, <2>2
<1>13. /\ Single(work') /\ OfCourse(work') /\ Phase(work', now', device')
       /\ Accounted(work', {})
  BY <1>2, EmptySteady
<1>14. ~Beginning' /\ Hand' = Hand
  BY <1>1, <1>2 DEF Beginning, Begins, Hand
<1> QED BY <1>1, <1>2, <1>9, <1>11, <1>12, <1>13, <1>14 DEF SteadyInv, Begun

\* A user's command is in time, and if it changes the device or schedules
\* something, no two-part command is about.
LEMMA UserSendsSteady ==
  ASSUME Steady, TypeOK, HeldInv, SteadyInv, NEW c \in UserCommands, UserSends(c)
  PROVE  SteadyInv'
<1>1. UNCHANGED <<crontab, now, device, pc, req, work>> /\ inbox' = Append(inbox, c)
  BY DEF UserSends
<1>2. c \in Message /\ c.kind \notin {"clear", "unhold"}
  BY UserCommandsAssumption DEF Command, Message, Failing
<1>3. /\ Len(inbox) \in Nat /\ DOMAIN inbox = 1 .. Len(inbox)
      /\ inbox' \in Seq(Received) /\ DOMAIN inbox' = 1 .. Len(inbox) + 1
      /\ \A n \in 1 .. Len(inbox) : inbox'[n] = inbox[n]
      /\ inbox'[Len(inbox) + 1] = c
  <2>1. c \in Received /\ inbox \in Seq(Received)
    BY DEF TypeOK, Received
  <2> QED BY <1>1, <2>1, AppendProperties, LenProperties
<1>4. \A n \in DOMAIN inbox' : n = Len(inbox) + 1 \/ n \in DOMAIN inbox
  BY <1>3
<1>5. InTime(c)
  <2>1. ASSUME c.kind = "two", ~c.at.rec, ~tbl_is_now_p(c.at, now)
        PROVE  schedule_to_epoch(c.at) >= now + 2
    <3>1. schedule_to_epoch(c.at) + (c.year * YearLen) >= now + Lead
      BY <2>1 DEF UserSends, InGoodTime
    <3>2. c.year = 0 /\ Lead >= 2 /\ c \in TwoParts
      BY <2>1 DEF Steady, TwoParts
    <3>3. Due(KeyBegin(c)) \in Slot
      BY <3>2, CourseKeys DEF Course
    <3>4. schedule_to_epoch(c.at) \in Int /\ now \in Int /\ YearLen \in Int /\ Lead \in Int
      BY <3>3, YearLenAssumption, BoundsAssumption DEF Due, KeyBegin, Slot, TypeOK
    <3> QED BY <3>1, <3>2, <3>4
  <2> QED BY <1>2, <2>1 DEF InTime
<1>6. (\A n \in DOMAIN inbox : InTime(inbox[n]))' /\ (pc = "dispatch" => InTime(req))'
  <2> SUFFICES ASSUME NEW n \in DOMAIN inbox'
               PROVE  InTime(inbox'[n])
    BY <1>1 DEF SteadyInv, InTime
  <2> QED BY <1>3, <1>4, <1>5 DEF SteadyInv
<1>7. ClientDue => ClientDue'
  <2>1. CASE inbox # << >> /\ Head(inbox).kind \in {"clear", "unhold"}
    <3>1. 1 \in 1 .. Len(inbox) /\ Head(inbox) = inbox[1]
      BY <2>1, HeadTailProperties, LenProperties DEF TypeOK
    <3>2. inbox' # << >> /\ Head(inbox') = inbox'[1]
      BY <1>3, HeadTailProperties, LenProperties
    <3> QED BY <1>3, <2>1, <3>1, <3>2 DEF ClientDue
  <2> QED BY <1>1, <2>1 DEF ClientDue
<1>8. ASSUME c.kind \in Scheduling
      PROVE  /\ NoClients(crontab) /\ NoClients(work) /\ req.kind \notin TwoKinds
             /\ \A n \in DOMAIN inbox : inbox[n].kind \notin TwoKinds
  <2>1. ~Pending
    BY <1>8 DEF Steady, Undisturbed, OneByOne, UserSends, Scheduling
  <2>2. \A n \in DOMAIN inbox : inbox[n] \in ToSet(inbox)
    BY DEF ToSet
  <2>3. /\ NoClients(crontab) /\ req.kind \notin TwoKinds
        /\ \A n \in DOMAIN inbox : inbox[n].kind \notin TwoKinds
    BY <2>1, <2>2 DEF Pending, NoClients, ClientsAt, TwoKinds
  <2>4. req.kind # "cancel_last"
    BY DEF Steady, Undisturbed, TypeOK, Received, CronMessage, NoReq
  <2>5. CASE pc = "submit"
    BY <2>3, <2>4, <2>5 DEF HeldInv, WorkFromCrontab, TwoKinds
  <2>6. CASE pc # "submit"
    <3>1. pc # "resubmit"
      BY <2>3 DEF TypeOK, TwoKinds
    <3> QED BY <2>3, <2>6, <3>1, EmptyTidy DEF HeldInv, WorkFromCrontab
  <2> QED BY <2>3, <2>5, <2>6
<1>9. NothingBefore'
  <2> SUFFICES ASSUME NEW n \in DOMAIN inbox', inbox'[n].kind \in Scheduling
               PROVE  /\ NoClients(crontab) /\ NoClients(work)
                      /\ req.kind \notin TwoKinds
                      /\ \A m \in 1 .. n - 1 : inbox'[m].kind \notin TwoKinds
    BY <1>1 DEF SteadyInv, NothingBefore
  <2>1. CASE n \in DOMAIN inbox
    <3>1. \A m \in 1 .. n - 1 : inbox'[m] = inbox[m]
      BY <1>3, <2>1
    <3> QED BY <1>3, <2>1, <3>1 DEF SteadyInv, NothingBefore
  <2>2. CASE n = Len(inbox) + 1
    <3>1. c.kind \in Scheduling /\ \A m \in 1 .. n - 1 : m \in DOMAIN inbox /\ inbox'[m] = inbox[m]
      BY <1>3, <2>2
    <3> QED BY <1>8, <3>1
  <2> QED BY <1>4, <2>1, <2>2
<1>10. Beginning' = Beginning /\ Hand' = Hand /\ Begun'
  BY <1>1 DEF SteadyInv, Beginning, Begins, Hand, Begun, LinesFor, KeyBegin, KeyEnd
<1> QED BY <1>1, <1>6, <1>7, <1>9, <1>10 DEF SteadyInv

\* The owner's lines stand there by themselves, and come while no two-part
\* command is about.
LEMMA OwnerAddsSteady ==
  ASSUME Steady, TypeOK, HeldInv, SteadyInv, NEW x \in OwnerLines, OwnerAdds(x)
  PROVE  SteadyInv'
<1>1. /\ crontab' = Append(crontab, x) /\ UNCHANGED <<now, device, inbox, pc, req, work>>
      /\ ~Pending
  BY DEF OwnerAdds, Steady, Undisturbed, OneByOne
<1>2. NoClients(crontab) /\ req.kind \notin TwoKinds
  BY <1>1 DEF Pending, NoClients, ClientsAt, TwoKinds
<1>3. \A n \in DOMAIN inbox : inbox[n].kind \notin TwoKinds
  <2>1. \A n \in DOMAIN inbox : inbox[n] \in ToSet(inbox)
    BY DEF ToSet
  <2> QED BY <1>1, <2>1 DEF Pending, TwoKinds
<1>4. PICK k \in DeviceKey : x = DeviceLine(k, FALSE)
  BY OwnerLinesAssumption
<1>5. k \in Standing
  <2>1. x.key = k
    BY <1>4 DEF DeviceLine
  <2> QED BY <2>1 DEF Standing, OwnKeys
<1>6. Hand = {} /\ Hand' = {} /\ ~Beginning'
  BY <1>1, <1>2 DEF Hand, Beginning, Begins, TwoKinds
<1>7. Accounted(crontab, {}) /\ crontab \in Seq(Line) /\ Single(crontab)
  BY <1>6 DEF SteadyInv, TypeOK
<1>8. FALSE \in BOOLEAN
  OBVIOUS
<1>9. Accounted(crontab', {}) /\ Single(crontab') /\ NoClients(crontab')
  BY <1>1, <1>2, <1>4, <1>5, <1>7, <1>8, AddSteady, Zenon
<1>10. OfCourse(crontab') /\ Phase(crontab', now', device')
  BY <1>9, NoClientsSteady
<1>11. (\A n \in DOMAIN inbox : InTime(inbox[n]))' /\ (pc = "dispatch" => InTime(req))'
  BY <1>1 DEF SteadyInv, InTime
<1>12. NothingBefore'
  BY <1>1, <1>9 DEF SteadyInv, NothingBefore
<1> QED BY <1>1, <1>6, <1>9, <1>10, <1>11, <1>12 DEF SteadyInv, Begun

\* The first connection becomes the command in hand.
LEMMA AcceptSteady ==
  ASSUME TypeOK, SteadyInv, Accept
  PROVE  SteadyInv'
<1>1. /\ pc = "accept" /\ pc' = "dispatch" /\ inbox # << >>
      /\ req' = Head(inbox) /\ inbox' = Tail(inbox)
      /\ UNCHANGED <<crontab, now, device, work>>
  BY DEF Accept
<1>2. /\ Len(inbox) \in Nat /\ DOMAIN inbox = 1 .. Len(inbox) /\ 1 \in DOMAIN inbox
      /\ req' = inbox[1]
      /\ DOMAIN inbox' = 1 .. Len(inbox) - 1
      /\ \A n \in DOMAIN inbox' : inbox'[n] = inbox[n + 1]
  BY <1>1, LenProperties, HeadTailProperties DEF TypeOK
<1>3. \A n \in DOMAIN inbox' :
        /\ n + 1 \in DOMAIN inbox /\ 1 \in 1 .. (n + 1) - 1
        /\ \A m \in 1 .. n - 1 : m + 1 \in 1 .. (n + 1) - 1 /\ inbox'[m] = inbox[m + 1]
  BY <1>2
<1>4. req.kind = "none"
  BY <1>1 DEF TypeOK, NoReq
<1>5. Hand = {} /\ Hand' = {} /\ ~Beginning'
  BY <1>1, <1>4 DEF Hand, Beginning, Begins
<1>6. (\A n \in DOMAIN inbox : InTime(inbox[n]))' /\ InTime(req)'
  BY <1>1, <1>2, <1>3 DEF SteadyInv, InTime
<1>7. ClientDue => ClientDue'
  BY <1>1, <1>4 DEF ClientDue
<1>8. NothingBefore'
  <2>1. ASSUME NEW n \in DOMAIN inbox', inbox'[n].kind \in Scheduling
        PROVE  /\ NoClients(crontab) /\ NoClients(work)
               /\ req'.kind \notin TwoKinds
               /\ \A m \in 1 .. n - 1 : inbox'[m].kind \notin TwoKinds
    <3>1. n + 1 \in DOMAIN inbox /\ inbox[n + 1].kind \in Scheduling
      BY <1>2, <1>3, <2>1
    <3>2. /\ NoClients(crontab) /\ NoClients(work)
          /\ \A m \in 1 .. (n + 1) - 1 : inbox[m].kind \notin TwoKinds
      BY <3>1 DEF SteadyInv, NothingBefore
    <3> QED BY <1>2, <1>3, <3>2
  <2>2. req'.kind \in {"do", "one"} => NoClients(crontab)
    BY <1>2 DEF SteadyInv, NothingBefore, Scheduling
  <2> QED BY <1>1, <2>1, <2>2 DEF NothingBefore
<1>9. Accounted(crontab, {}) /\ Accounted(work, {})
  BY <1>1, <1>5 DEF SteadyInv
<1> QED BY <1>1, <1>5, <1>6, <1>7, <1>8, <1>9 DEF SteadyInv, Begun

\* Every step of the system keeps the invariant.
LEMMA NextSteady ==
  ASSUME Steady, TypeOK, HeldInv, HeldInv', AliveInv, ServerAlive, ServerAlive',
         CourseInv, SteadyInv, [Next]_vars
  PROVE  SteadyInv'
<1>1. CASE Tick
  BY <1>1, TickSteady
<1>2. CASE \E c \in UserCommands : UserSends(c)
  BY <1>2, UserSendsSteady
<1>3. CASE \E x \in OwnerLines : OwnerAdds(x)
  BY <1>3, OwnerAddsSteady
<1>4. ~PowerFail /\ ~Boot
  BY DEF PowerFail, Boot, CourseInv, Steady, Undisturbed
<1>5. CASE Accept
  BY <1>5, AcceptSteady
<1>6. ~AcceptSilent /\ ~HandleFailing
  BY DEF AcceptSilent, HandleFailing, Die, ServerAlive
<1>7. ~HandleCancelLast /\ ~HandleHoldAll /\ ~HandleUnholdAll
  BY SteadyHand DEF HandleCancelLast, HandleHoldAll, HandleUnholdAll, Dispatch
<1>8. CASE HandleList \/ HandleLast \/ HandleDo
  BY <1>8, PlainSteady
<1>9. CASE HandleDeleteOld
  BY <1>9, DeleteOldKeepsSteady
<1>10. CASE HandleClear
  BY <1>10, ClearKeepsSteady
<1>11. CASE HandleUnhold
  BY <1>11, UnholdKeepsSteady
<1>12. CASE HandleOnePart
  BY <1>12, OnePartSteady
<1>13. CASE HandleTwoPart
  BY <1>13, TwoPartKeepsSteady
<1>14. CASE Submit \/ Resubmit
  BY <1>14, WriteSteady
<1>15. CASE ClearNow
  BY <1>15, ClearNowSteady
<1>16. CASE UNCHANGED vars
  <2>1. UNCHANGED <<crontab, now, device, inbox, pc, req, work>>
    BY <1>16 DEF vars
  <2>2. Begins' = Begins /\ Beginning' = Beginning /\ Hand' = Hand /\ ClientDue' = ClientDue
    BY <2>1 DEF Begins, Beginning, Hand, ClientDue, LinesFor, KeyBegin, KeyEnd
  <2>3. Begun' /\ NothingBefore'
    BY <2>1, <2>2 DEF SteadyInv, Begun, NothingBefore, KeyBegin, KeyEnd
  <2>4. (\A n \in DOMAIN inbox : InTime(inbox[n]))' /\ (pc = "dispatch" => InTime(req))'
    BY <2>1 DEF SteadyInv, InTime
  <2> QED BY <2>1, <2>2, <2>3, <2>4 DEF SteadyInv
<1> QED
  BY <1>1, <1>2, <1>3, <1>4, <1>5, <1>6, <1>7, <1>8, <1>9, <1>10, <1>11, <1>12, <1>13,
     <1>14, <1>15, <1>16
  DEF Next, Server, Handler

\* What is found by an idle server is what Uninterrupted says.
LEMMA CourseWhenIdle ==
  ASSUME Steady, TypeOK, HeldInv, ServerAlive, CourseInv, SteadyInv
  PROVE  Uninterrupted
<1> SUFFICES ASSUME NEW c \in TwoParts, Idle, Scheduled(c), InCourse(c)
             PROVE  device = Effect(c.do)
  BY DEF Uninterrupted
<1> DEFINE b == KeyBegin(c)
           e == KeyEnd(c)
<1>1. pc = "accept" /\ inbox = << >> /\ req.kind = "none"
  BY DEF Idle, ServerAlive, CourseInv, TypeOK, NoReq
<1>2. Phase(crontab, now, device) /\ Accounted(crontab, {})
  BY <1>1 DEF SteadyInv, ClientDue, Hand, Beginning, Begins
<1>3. /\ Due(b) \in Slot /\ Due(e) \in Slot /\ Due(b) <= Due(e)
      /\ b \in DeviceKey /\ e \in DeviceKey
  <2>1. Course(b, e)
    BY DEF Course
  <2> HIDE DEF b, e
  <2> QED BY <2>1, CourseKeys, OnceKeys
<1>4. now \in Due(b) .. Due(e) - 1
  BY <1>3 DEF InCourse, Due, KeyBegin, KeyEnd
<1>5. There(crontab, b) /\ There(crontab, e)
  <2>1. ASSUME NEW k \in {b, e}
        PROVE  There(crontab, k)
    <3>1. PICK i \in DOMAIN crontab : IsEntry(crontab[i]) /\ crontab[i].key = k
      BY DEF Scheduled
    <3>2. k.do \in Action
      BY <1>3 DEF DeviceKey
    <3>3. IsScript(crontab[i])
      BY <3>1, <3>2 DEF IsScript, IsClient, Action
    <3> QED BY <3>1, <3>3 DEF There
  <2> QED BY <2>1
<1>6. LinesFor(c) \subseteq Standing \cup About(crontab)
  BY <1>2, <1>5 DEF Accounted, There, LinesFor
<1>7. ClientsAt(crontab) # {}
  <2>1. SUFFICES ASSUME ClientsAt(crontab) = {}
                 PROVE  FALSE
    OBVIOUS
  <2>2. About(crontab) = {}
    BY <2>1, NoClientsSteady DEF NoClients
  <2> QED BY <1>6, <2>2 DEF Steady, Apart
<1>8. PICK u \in ClientsAt(crontab) : ClientsAt(crontab) = {u}
  BY <1>7 DEF HeldInv, Tidy, OneClient
<1>9. About(crontab) = {crontab[u].key.b, crontab[u].key.e}
  BY <1>8 DEF About
<1>10. PICK d \in TwoParts : crontab[u].key.b = KeyBegin(d) /\ crontab[u].key.e = KeyEnd(d)
  BY DEF SteadyInv, OfCourse, Course
<1>11. LinesFor(c) \subseteq Standing \cup LinesFor(d)
  BY <1>6, <1>9, <1>10 DEF LinesFor
<1>12. crontab[u].key.b = b /\ crontab[u].key.e = e
  BY <1>10, <1>11 DEF Steady, Apart
<1>13. ~(now < Due(b) - 1)
  <2>1. Due(b) \in Int /\ now \in Int
    BY <1>3 DEF TypeOK, Slot
  <2> QED BY <1>4, <2>1
<1> HIDE DEF e
<1>14. device = Effect(b.do)
  BY <1>2, <1>4, <1>5, <1>12, <1>13 DEF Phase, Both
<1> QED BY <1>14 DEF KeyBegin

\* README: "those events are ... effectively placed on hold until the given
\* command can run its course".  While two-part commands for this year come one
\* at a time and in good time to a server that has power and lives, and the
\* other lines that could interrupt them are of the disposition that is held,
\* the device is as the command set it whenever the server is idle in its
\* course (clear_schedule_for, unhold_jobs_delete_jobs, add_new_schedule's first
\* look at the clock and its second, and crond's firing of all lines).
THEOREM CourseUninterrupted == Steady => (Spec => []Uninterrupted)
<1> SUFFICES ASSUME Steady PROVE Spec => []Uninterrupted
  OBVIOUS
<1>1. Undisturbed /\ OneByOne /\ Wholesome /\ \A c \in UserCommands : c.kind # "cancel_last"
  BY DEF Steady, Undisturbed
<1>2. Spec => []ServerAlive
  BY <1>1, StaysAlive
<1>3. TypeOK /\ Orderly /\ [Next]_vars => Orderly'
  BY <1>1, NextOrderly
<1>4. Init => Orderly /\ HeldInv /\ AliveInv /\ CourseInv /\ SteadyInv
  BY <1>1, InitOrderly, InitHeld, InitAlive, InitCourse, InitSteady
<1>5. TypeOK /\ Orderly /\ Orderly' /\ HeldInv /\ [Next]_vars => HeldInv'
  BY <1>1, NextHeld
<1>6. TypeOK /\ HeldInv /\ AliveInv /\ [Next]_vars => AliveInv'
  BY <1>1, NextAlive
<1>7. TypeOK /\ HeldInv /\ ServerAlive /\ ServerAlive' /\ CourseInv /\ [Next]_vars => CourseInv'
  BY <1>1, NextCourse
<1>8. TypeOK /\ HeldInv /\ HeldInv' /\ AliveInv /\ ServerAlive /\ ServerAlive'
        /\ CourseInv /\ SteadyInv /\ [Next]_vars => SteadyInv'
  BY NextSteady
<1>9. TypeOK /\ HeldInv /\ ServerAlive /\ CourseInv /\ SteadyInv => Uninterrupted
  BY CourseWhenIdle
<1> QED BY <1>2, <1>3, <1>4, <1>5, <1>6, <1>7, <1>8, <1>9, TypeCorrect, PTL DEF Spec

=============================================================================
