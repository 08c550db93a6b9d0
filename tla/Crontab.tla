------------------------------ MODULE Crontab ------------------------------
(***************************************************************************)
(* The crontab as src/smart_device_svr.lua reads, edits and writes it: a   *)
(* sequence of lines, and one operator for each of the program's table     *)
(* functions.  Everything here is a constant-level operator; the server    *)
(* that calls them is module SmartDeviceSvr.                               *)
(*                                                                         *)
(* The text of a line is abstracted to what the program tells apart: its   *)
(* schedule, its command, the #TMP mark, the #ONHOLD mark with the md5sums *)
(* of its instigator, and the md5sums a client command carries.  The md5   *)
(* of a line (its text without the two marks) is the line's Key.           *)
(***************************************************************************)
EXTENDS Integers, Sequences, FiniteSets, FiniteSetsExt, SequencesExt

CONSTANTS
  YearLen,    \* minutes in a (scaled) year: crontab schedules carry no year
  OldAge      \* minutes after which "delete old" drops a #TMP line (2 days)

ASSUME YearLenAssumption == YearLen \in Nat \ {0}
ASSUME OldAgeAssumption == OldAge \in Nat

-----------------------------------------------------------------------------
(* Times, schedules and lines *)

Slot == 0 .. YearLen - 1

\* "min hour day month *" for one minute of the year, as epoch_to_schedule()
\* and tbl_to_schedule_string() write it.
Once(t) == [rec |-> FALSE, at |-> {t}]

\* The five time fields of a line: the minutes of the year they match, and
\* whether a field is a wildcard or a list (such a schedule has no epoch).
Schedule == {Once(t) : t \in Slot}
            \cup [rec : {TRUE}, at : (SUBSET Slot) \ {{}}]

Action == {"off", "on", "reboot"}

\* The disposition that ends a two-part command: off and reboot end with on,
\* on ends with off.
EndDisposition(do) == IF do = "on" THEN "off" ELSE "on"

\* What md5.sumhexa() sees of a line.  A client line's md5 is abstracted to
\* its schedule, its command and the two lines it is about, which
\* are one-shot lines: no clear line is written for a recurring one.
DeviceKey == [sched : Schedule, do : Action]
OnceKey == [sched : {Once(t) : t \in Slot}, do : Action]
ClientKey == [sched : Schedule, do : {"clear", "unhold"},
              b : OnceKey, e : OnceKey]
Key == DeviceKey \cup ClientKey

\* The md5sums in an #ONHOLD mark: none for "hold all", else begin and end.
Instigator == {<< >>} \cup (DeviceKey \X DeviceKey)

Blank == [kind |-> "blank"]
Comment == [kind |-> "comment"]
Entry == [kind : {"entry"}, tmp : BOOLEAN, held : Seq(Key), key : Key,
          by : Instigator, onhold : BOOLEAN]
Line == {Blank, Comment} \cup Entry

DeviceLine(key, tmp) ==
  [kind |-> "entry", tmp |-> tmp, held |-> << >>, key |-> key,
   by |-> << >>, onhold |-> FALSE]

\* "<sched> send-to-smart-device-svr.sh clear schedule for <b> <e>" and
\* "<sched> send-to-smart-device-svr.sh unhold <held> delete <b> <e>"
ClientLine(sched, cmd, b, e, held) ==
  [kind |-> "entry", tmp |-> FALSE, held |-> held,
   key |-> [sched |-> sched, do |-> cmd, b |-> b, e |-> e],
   by |-> << >>, onhold |-> FALSE]

IsEntry(x) == x.kind = "entry"
Active(x) == IsEntry(x) /\ ~x.onhold
OnHold(x) == IsEntry(x) /\ x.onhold
IsClient(x) == IsEntry(x) /\ x.key.do \in {"clear", "unhold"}

ActiveAt(tab) == {i \in DOMAIN tab : Active(tab[i])}
OnHoldAt(tab) == {i \in DOMAIN tab : OnHold(tab[i])}

-----------------------------------------------------------------------------
(* Tables *)

\* The members of a set of line numbers in ascending order, and the lines of
\* s at those numbers: what a loop over ipairs() with one table.insert()
\* under a condition builds.
Ascending(I) ==
  [k \in 1 .. Cardinality(I) |->
     CHOOSE i \in I : Cardinality({j \in I : j <= i}) = k]
KeepAt(s, I) == [k \in 1 .. Cardinality(I) |-> s[Ascending(I)[k]]]

tblDeleteLines(tab, D) == KeepAt(tab, (DOMAIN tab) \ D)

\* First and last of a set of line numbers, 0 (nil) if there is none.
FirstOf(I) == IF I = {} THEN 0 ELSE Min(I)
LastOf(I) == IF I = {} THEN 0 ELSE Max(I)

\* Mutant: lines with the same disposition taken for duplicates.
RemoveDuplicates_by_disposition(tab) ==
  KeepAt(tab, {i \in DOMAIN tab :
                 Active(tab[i]) =>
                   \A j \in 1 .. i - 1 : Active(tab[j]) =>
                     [tab[j].key EXCEPT !.sched = tab[i].key.sched] # tab[i].key})

\* An active line is written only if no equal line precedes it; blank lines
\* and lines that start with # are always written.
RemoveDuplicates(tab) ==
  KeepAt(tab, {i \in DOMAIN tab :
                 Active(tab[i]) => \A j \in 1 .. i - 1 : tab[j] # tab[i]})

\* A line is dropped if it and the two before it are blank.
AllowTwoBlankLines(tab) ==
  KeepAt(tab, {i \in DOMAIN tab :
                 i < 3 \/ \E j \in i - 2 .. i : tab[j] # Blank})

\* What submit_crontab() makes of the array it is given.
submit_crontab(array) == AllowTwoBlankLines(RemoveDuplicates(array))

\* cron_all: "crontab -l" split at newlines, which yields one empty string
\* after the last newline.
cron_all(tab) == Append(tab, Blank)

\* Mutant: an md5sum inserted for every line, blank and comment lines too.
cronjob_md5sumhexa_every_line(tab) ==
  [i \in DOMAIN tab |-> IF IsEntry(tab[i]) THEN tab[i].key ELSE Blank]

\* The parallel arrays of get_cron_jobs().  cronjob_dispositions and
\* cronjob_schedules run along cronjob_line_numbers, which has the active
\* lines; cronjob_md5sumhexa has the lines on hold too.
cronjob_line_numbers(tab) == Ascending(ActiveAt(tab))
cronjob_md5sumhexa(tab) ==
  LET all == KeepAt(tab, ActiveAt(tab) \cup OnHoldAt(tab))
  IN  [k \in DOMAIN all |-> all[k].key]

\* Mutants: a job number where a line number is meant, and the line numbers
\* of active lines where those of lines on hold are.
md5sumhexa_to_linenum_jobnum(tab, md5) ==
  LET jobs == cronjob_line_numbers(tab)
  IN  LastOf({k \in DOMAIN jobs : tab[jobs[k]].key = md5})
onholdjob_linenum_active(tab, md5) ==
  LastOf({i \in ActiveAt(tab) : tab[i].key = md5})

\* The reverse lookups keep the last index of a value.
md5sumhexa_to_jobnum(tab, md5) ==
  LET sums == cronjob_md5sumhexa(tab)
  IN  LastOf({k \in DOMAIN sums : sums[k] = md5})
md5sumhexa_to_linenum(tab, md5) ==
  LastOf({i \in ActiveAt(tab) : tab[i].key = md5})
onholdjob_linenum(tab, md5) ==
  LastOf({i \in OnHoldAt(tab) : tab[i].key = md5})

-----------------------------------------------------------------------------
(* Times of a schedule *)

\* The first time after now that the schedule matches, in minutes from the
\* start of this year (cron_next() is strictly later than its argument).
ccnext2(sched, now) ==
  now + Min({d \in 1 .. YearLen : (now + d) % YearLen \in sched.at})

\* The epoch in THIS year; os.time() raises an error on a wildcard.
schedule_to_epoch(sched) == CHOOSE t \in sched.at : TRUE
HasEpoch(sched) == ~sched.rec

tbl_is_now_p(sched, now) == ~sched.rec /\ sched.at = {now}

-----------------------------------------------------------------------------
(* Holding and unholding lines *)

PutOnHold(x, by) == [x EXCEPT !.onhold = TRUE, !.by = by]
TakeOffHold(x) == [x EXCEPT !.onhold = FALSE, !.by = << >>]

hold_lines(tab, I, by) ==
  [i \in DOMAIN tab |-> IF i \in I THEN PutOnHold(tab[i], by) ELSE tab[i]]
unhold_lines(tab, I) ==
  [i \in DOMAIN tab |-> IF i \in I THEN TakeOffHold(tab[i]) ELSE tab[i]]

hold_all(tab) == hold_lines(tab, ActiveAt(tab), << >>)
unhold_all_jobs(tab) == unhold_lines(tab, OnHoldAt(tab))

-----------------------------------------------------------------------------
(* clear_schedule_for(b, e) *)

\* The first active "clear" client line that mentions b or e.
linenum_of_clear_schedule(tab, b, e) ==
  FirstOf({i \in ActiveAt(tab) :
             /\ tab[i].key.do = "clear"
             /\ {tab[i].key.b, tab[i].key.e} \cap {b, e} # {}})

\* Indexing the schedules with a jobnum of the md5 array, then converting.
HasJobEpoch(tab, jobnum) ==
  LET jobs == cronjob_line_numbers(tab)
  IN  jobnum \in DOMAIN jobs /\ HasEpoch(tab[jobs[jobnum]].key.sched)

\* The handler stops with a Lua error: a nil or a wildcard schedule.
clear_fails(tab, b, e) ==
  LET jobnum_b == md5sumhexa_to_jobnum(tab, b)
      jobnum_e == md5sumhexa_to_jobnum(tab, e)
  IN  /\ jobnum_b # 0
      /\ \/ ~HasJobEpoch(tab, jobnum_b)
         \/ jobnum_e # 0 /\ ~HasJobEpoch(tab, jobnum_e)

\* The two early returns.
clear_returns(tab, b, e) ==
  \/ md5sumhexa_to_jobnum(tab, b) = 0
  \/ /\ HasJobEpoch(tab, md5sumhexa_to_jobnum(tab, b))
     /\ md5sumhexa_to_jobnum(tab, e) = 0

SameDisposition(x, y) ==
  [x.key EXCEPT !.sched = y.key.sched] = y.key /\ x.held = y.held

\* Mutant: a line due at the very beginning is not held.
jobs_to_hold_after_begin(tab, b, e, now) ==
  LET jobs == cronjob_line_numbers(tab)
      sums == cronjob_md5sumhexa(tab)
      x_b == tab[jobs[md5sumhexa_to_jobnum(tab, b)]]
      x_e == tab[jobs[md5sumhexa_to_jobnum(tab, e)]]
      clear_begin == schedule_to_epoch(x_b.key.sched)
      clear_end == schedule_to_epoch(x_e.key.sched)
  IN  {k \in DOMAIN jobs :
         /\ SameDisposition(tab[jobs[k]], x_e)
         /\ ccnext2(tab[jobs[k]].key.sched, now) \in clear_begin + 1 .. clear_end
         /\ sums[k] \notin {b, e}}

\* The jobs to be held: those with the end's disposition whose next time
\* lies between the two, begin and end themselves excepted.
jobs_to_hold(tab, b, e, now) ==
  LET jobs == cronjob_line_numbers(tab)
      sums == cronjob_md5sumhexa(tab)
      x_b == tab[jobs[md5sumhexa_to_jobnum(tab, b)]]
      x_e == tab[jobs[md5sumhexa_to_jobnum(tab, e)]]
      clear_begin == schedule_to_epoch(x_b.key.sched)
      clear_end == schedule_to_epoch(x_e.key.sched)
  IN  {k \in DOMAIN jobs :
         /\ SameDisposition(tab[jobs[k]], x_e)
         /\ ccnext2(tab[jobs[k]].key.sched, now) \in clear_begin .. clear_end
         /\ sums[k] \notin {b, e}}

\* The minute after the end, for the unhold line.
schedule_end(tab, e) ==
  LET x_e == tab[cronjob_line_numbers(tab)[md5sumhexa_to_jobnum(tab, e)]]
  IN  Once((schedule_to_epoch(x_e.key.sched) + 1) % YearLen)

\* Mutant: the instigator's md5sum listed instead of the held line's.
clear_schedule_for_lists_begin(tab, b, e, now) ==
  LET jobs == cronjob_line_numbers(tab)
      hold == jobs_to_hold(tab, b, e, now)
      held == [k \in 1 .. Cardinality(hold) |-> b]
      new == hold_lines(tab, {jobs[k] : k \in hold}, <<b, e>>)
  IN  tblDeleteLines(
        Append(new, ClientLine(schedule_end(tab, e), "unhold", b, e, held)),
        {linenum_of_clear_schedule(tab, b, e)})

clear_schedule_for(tab, b, e, now) ==
  LET jobs == cronjob_line_numbers(tab)
      hold == jobs_to_hold(tab, b, e, now)
      held == KeepAt(cronjob_md5sumhexa(tab), hold)
      new == hold_lines(tab, {jobs[k] : k \in hold}, <<b, e>>)
  IN  tblDeleteLines(
        Append(new, ClientLine(schedule_end(tab, e), "unhold", b, e, held)),
        {linenum_of_clear_schedule(tab, b, e)})

-----------------------------------------------------------------------------
(* unhold_jobs_delete_jobs(unhold_str, delete_str) *)

\* The md5sums found in the words after "unhold".  The shell client drops
\* the empty list of "unhold  delete b e", and what follows is taken for it.
unhold_words(held, b, e) == IF held = << >> THEN <<b, e>> ELSE held

IsInfix(s, t) ==
  \E d \in 0 .. Len(t) - Len(s) : \A i \in DOMAIN s : t[i + d] = s[i]

\* The first active "unhold" client line whose text contains unhold_str.
linenum_of_unhold_delete(tab, held, b, e) ==
  FirstOf({i \in ActiveAt(tab) :
             /\ tab[i].key.do = "unhold"
             /\ IF held = << >>
                THEN <<tab[i].key.b, tab[i].key.e>> = <<b, e>>
                ELSE \/ IsInfix(held, tab[i].held)
                     \/ IsInfix(held, <<tab[i].key.b, tab[i].key.e>>)})

\* The same line is unheld twice: the second cronline:find() is nil.
unhold_fails(tab, held, b, e) ==
  LET words == unhold_words(held, b, e)
  IN  \E i, j \in DOMAIN words :
        /\ i # j
        /\ words[i] = words[j]
        /\ onholdjob_linenum(tab, words[i]) # 0

\* Mutant: the unhold line does not delete itself.
unhold_jobs_delete_jobs_stays(tab, held, b, e) ==
  LET words == ToSet(unhold_words(held, b, e))
  IN  tblDeleteLines(
        unhold_lines(tab, {onholdjob_linenum(tab, w) : w \in words}),
        {md5sumhexa_to_linenum(tab, b), md5sumhexa_to_linenum(tab, e)})

unhold_jobs_delete_jobs(tab, held, b, e) ==
  LET words == ToSet(unhold_words(held, b, e))
  IN  tblDeleteLines(
        unhold_lines(tab, {onholdjob_linenum(tab, w) : w \in words}),
        {md5sumhexa_to_linenum(tab, b), md5sumhexa_to_linenum(tab, e),
         linenum_of_unhold_delete(tab, held, b, e)})

-----------------------------------------------------------------------------
(* delete_old_cron_jobs() *)

tmp_line_numbers(tab) ==
  {i \in ActiveAt(tab) \cup OnHoldAt(tab) : tab[i].tmp}

\* schedule_to_epoch() of a recurring #TMP line.
delete_old_fails(tab) ==
  \E i \in tmp_line_numbers(tab) : ~HasEpoch(tab[i].key.sched)

delete_old_cron_jobs(tab, now) ==
  tblDeleteLines(tab, {i \in tmp_line_numbers(tab) :
                         schedule_to_epoch(tab[i].key.sched) < now - OldAge})

-----------------------------------------------------------------------------
(* add_new_schedule(tbl_begin, disposition_begin, tbl_end, disposition_end) *)

add_begin(tab, b) == Append(tab, DeviceLine(b, TRUE))

\* The clear line: one minute before the beginning, or at the beginning if
\* that is at most a minute away.  year is that of tbl_begin, counted from
\* this one; the line does not carry it.
clear_tbl(b, year, now) ==
  LET begin == schedule_to_epoch(b.sched)
  IN  IF begin + year * YearLen - now <= 1
      THEN Once(begin)
      ELSE Once((begin - 1) % YearLen)

add_begin_end(tab, b, e, year, now) ==
  LET both == add_begin(tab, b) \o <<DeviceLine(e, TRUE)>>
  IN  IF b.sched.rec \/ tbl_is_now_p(b.sched, now)
      THEN both
      ELSE Append(both, ClientLine(clear_tbl(b, year, now), "clear", b, e, << >>))

=============================================================================
