# A TLA+ specification of smart_device_svr

`smart_device_svr` switches a device (a wifi router) off and on with cron. A
server written in Lua, `src/smart_device_svr.lua`, reads commands such as *turn
off wifi from 3pm to 5pm* from TCP port 29998 and edits the user's crontab; crond
runs the lines, and some of those lines send further commands back to the server.
This directory holds a specification of that loop, what TLC checks of it, and
what TLAPS proves of it for every crontab, every set of commands and every length
of run.

## The system

### Components, their state and operations

| component | source | state it keeps | operations |
|---|---|---|---|
| crontab table functions | `smart_device_svr.lua` 270-301, 2028-2585, 2719-2850 | none: arrays of lines in, arrays of lines out | `get_cron_jobs`, `submit_crontab` (duplicate and blank-line removal), `hold_job`, `hold_all`, `unhold_job`, `unhold_all_jobs`, `clear_schedule_for`, `unhold_jobs_delete_jobs`, `delete_old_cron_jobs`, `add_new_schedule` |
| server main loop | `smart_device_svr.lua` 2985-3496 | the accepted connection, `line`, `command_history_stack` | accept, receive, one handler per command, close |
| command history | `smart_device_svr.lua` (`Stack`, `cancel last`, `last?`) | a flat stack of four values per command, one of which is the crontab the command found | push, pop, read |
| crontab's owner | `crontab -e` | none | add a line |
| crond | the system's | the time, the crontab as last installed | every minute, start every line that matches |
| shell client | `send-to-smart-device-svr.sh`, `send_to_smart_device_svr.lua` | none | connect, send one line |
| command grammar, date parsers | `smart_device_svr.lua` 700-2027, 3196-3480 | none | from words to a disposition and two times |
| calendar algorithms | `smart_device_svr.lua` 330-735 | none | weekday of a date, days in a month, n-th weekday |
| cron expressions | `ccronexpr.c`, `cron_next_epoch_...c`, `cron_last_...c` | none | parse, next, previous |
| boot | `start_smart_device_svr.sh`, `smart_device_svr.lua` 2590-2716 | none | look for the last statement about the device |
| device | `disable_wifi.el`, `enable_wifi.el`, the router | off or on | run a disposition's script |
| device status, pole, temperature, uptime | `smart_device_svr.lua` | none | shell commands and scraping of the router's pages |
| vendored | `LuaJIT-2.0.5`, `luasocket`, `md5.lua`, `inspect.lua`, `pp.lua` | | |

### How they interact

A two-part command (*off from b to e*) lives in four lines of the crontab, and
each is removed by a command that another of them sends:

```
   user --"turn off wifi from b to e"--> server: add_new_schedule()
                                            writes  b off  #TMP
                                                    e on   #TMP
                                                    b-1m   clear schedule for B E
   crond, b-1m --"clear schedule for B E"--> server: clear_schedule_for()
                                            puts the lines in the way on hold,
                                            writes  e+1m   unhold H delete B E
                                            deletes the clear line
   crond, b    --device script--> off
   crond, e    --device script--> on
   crond, e+1m --"unhold H delete B E"--> server: unhold_jobs_delete_jobs()
                                            releases H, deletes b, e and itself
```

Lines are named by the md5 sum of their text. The server keeps nothing between
commands but the history: the crontab is its only memory, and users, crond and the
server's own earlier commands all work through it.

### What is hard

* The server is one thread, but not atomic: the crontab is read, changed as a
  copy and written as a whole; the clock is read several times on the way.
* crond starts all lines of a minute together. A device script and a client
  that wants to hold that very line start at the same time.
* The arrays of `get_cron_jobs` run in parallel, but not all over the same lines.
* Schedules have no year, and are compared as times of this year.
* Lines are identified by text, and text is removed as duplicate.
* `cancel last` brings back a crontab that was read some commands ago, whatever
  was changed since then by whom.
* Any Lua error ends the process: the whole server is one failure away from
  leaving its lines on hold. So does a loss of power, between any two steps.
* The history is a flat stack: that every command pushes and takes four values is
  an agreement of all handlers and written down nowhere.
* The grammar goes over a command several times and deletes what it has found, so
  that what one pass takes changes what the next one sees beside its words.
* The days of the week are numbered in several places, from 0 or from 1 and with Sunday
  first or last.

The hazards, with the lines where they bite and the properties that watch them,
are listed in `PROJECT.json`.

### What makes each component correct

* *Table functions*: arrays of lines in, arrays of lines out; nothing is lost but
  what the function is for; the lookups find the line they mean.
* *Main loop*: it goes on after every command; what it has begun is finished or
  not begun.
* *The protocol of the four lines*: while the course of a command runs, the device
  is as commanded; lines are held in that time only; it comes to an end; and the
  user's own lines are there afterwards.
* *History*: `cancel last` restores what there was before the last command.
* *Grammar*: a command means what a reader takes it to mean, in whatever order its
  passes find it.
* *Calendar, cron expressions*: what they compute agrees with the calendar, and
  with what crond does.

## Modules

| module | what it is |
|---|---|
| `Crontab` | crontab lines, and one operator for each table function |
| `SmartDeviceSvr` | extends `Crontab`: server, crond, clients and device as a state machine; the properties |
| `MCSmartDeviceSvr` | extends `SmartDeviceSvr`: crontabs and sets of commands for TLC |
| `CronExpr` | `cron_next` and `cron_prev`, one step per field; the properties |
| `MCCronExpr` | extends `CronExpr`: a calendar and expressions for TLC |
| `FrameStack` | what the history promises: a stack of frames, one a command |
| `CommandHistory` | the flat stack of four values a command and the handlers that use it; implements `FrameStack` |
| `MCCommandHistory` | extends `CommandHistory`: commands, devices and crontabs for TLC |
| `CronField` | `cron_parse_expr`, one step per element of a field; what crond makes of the line |
| `MCCronField` | extends `CronField`: lines for TLC |
| `Dates` | a calendar that goes from day to day, and the date functions asked on each |
| `Weekdays` | `extract_dow_recurring` match by match, and the lines of a recurring command with a duration |
| `MCWeekdays` | extends `Weekdays`: commands for TLC |
| `CrontabTheorems` | lemmas about the operators of `Crontab` |
| `SmartDeviceSvr_proofs`, `CommandHistory_proofs`, `CronField_proofs`, `Dates_proofs`, `Weekdays_proofs` | the theorems about the module each is named after |
| `Exceptions_proofs` | extends `SmartDeviceSvr_proofs`: the theorems about two-part commands that come one at a time |
| `Courses_proofs` | extends `Exceptions_proofs`: the theorems about when they hold lines and what the device does meanwhile |

### Crontab

A line is blank, a comment, or an entry. What the code tells apart in an entry's
text are the fields of a record:

| field | in the text |
|---|---|
| `key.sched` | the five time fields: the set `at` of minutes of the year they match and whether they recur (`rec`: a `*` or a list, which has no epoch) |
| `key.do` | the command: a script for `off`, `on` or `reboot`, or the client with `clear` or `unhold` |
| `key.b`, `key.e` | of a client line, the md5 sums of the two lines it is about |
| `held` | of an unhold line, the md5 sums of the lines to release |
| `tmp`, `onhold` | the marks `#TMP`, `#ONHOLD` |
| `by` | the two md5 sums in an `#ONHOLD` mark; none for `hold all` |

The md5 sum of a line is its `key`: the code strips the marks before it computes
the sum, and md5 is taken to be injective. The sum of an unhold line itself is
never looked up, so its `held` is not part of the key.

The parallel arrays are kept as they are: `cronjob_line_numbers(tab)` runs over
the active lines, `cronjob_md5sumhexa(tab)` over those on hold as well, and
`clear_schedule_for` indexes one with a position in the other as
the code does. Where that yields `nil`, or where `os.time()` gets a wildcard,
`clear_fails`, `unhold_fails` and `delete_old_fails` say that the handler ends
in a Lua error. `unhold_words` is what remains of `unhold  delete B E` after
the shell has dropped the empty word. Loops that insert under a condition are
`KeepAt(s, I)`, the lines of `s` at the numbers `I` in ascending order. There is no
recursion.

### SmartDeviceSvr

| variable | in the program |
|---|---|
| `crontab` | what `crontab -l` would print |
| `now` | the minute of the year |
| `device` | what the router is |
| `inbox` | connections in the listen queue, with what they will send |
| `pc` | where the main loop is; `"dead"` after an error, `"off"` without power |
| `req` | the command that is handled |
| `work` | the array the handler is about to give to `submit_crontab` |
| `history` | `command_history_stack`, a crontab a frame |
| `sent` | bound only: commands, edits and losses of power so far |
| `own` | the lines the owner has added |

| action | in the program |
|---|---|
| `Tick` | a minute passes; crond starts the active lines that match. Scripts of several dispositions finish in any order, and clients connect in any order |
| `UserSends(c)` | a user connects and sends `c` |
| `OwnerAdds(x)` | the owner adds a line with `crontab -e` |
| `PowerFail`, `Boot` | the computer loses power, at any step; it comes up and starts the program |
| `Accept` | `accept`, `receive`, the push of the history frame |
| `AcceptSilent` | `receive` returns `nil` after 30 seconds, or the peer hangs up |
| `HandleList`, `HandleLast`, `HandleFailing`, `HandleDo`, `HandleDeleteOld`, `HandleCancelLast`, `HandleHoldAll`, `HandleUnholdAll`, `HandleClear`, `HandleUnhold`, `HandleOnePart`, `HandleTwoPart` | one handler each, from the read of the crontab to just before the write |
| `Submit` | `submit_crontab`, and in `add_new_schedule` the second look at the clock |
| `ClearNow`, `Resubmit` | the `clear_schedule_for` that `add_new_schedule` calls for a command that begins now: its own read, and its write |

Between any two of these the minute may change; that is where the code's reads
of the clock and of the crontab differ. `Die` is an uncaught error: the process
ends with its connections, its history and the array it was about to write (`Lost`),
crond goes on. `HandleFailing` are the commands that die in any state: `md5`, a user's
`delete`, a bare `status`, a schedule without a device. A loss of power takes the
same things and crond as well; the crontab is a file, and the device has a
supply of its own. `Boot` does no more than push the first history frame, for
`execute_last_cron_statement_regarding_device` goes through an empty list.

Everything a user says is a record of `Command`, the result of the grammar: its
kind, the disposition and one or two schedules. `year` is 1 if the date that
was parsed is in the next year; only `clear_tbl` looks at it, as the code does,
for the line that is written has no year.

### CronExpr

The server asks two C programs when a line is due next and was due last; both are a
`main()` around `ccronexpr.c`. `Crontab` takes `ccnext2` to be the first
matching minute after now. `CronExpr` is how the code finds it, and is not composed
with the server: its property `FoundIsNearest` is what `Crontab` relies on.

| variable | in the program |
|---|---|
| `fn`, `expr`, `date` | the function called, the bits of its expression, its date |
| `cal` | `calendar`, as `mktime()` leaves it |
| `pc` | the field `do_next` (`do_prev`) is at, or how the call ended |
| `resets` | the list of fields that match already |
| `stack` | frames of `do_next` that wait for the one they called, each with its `resets` |
| `dot`, `again` | the year the search began in; whether it is the second one |

`FindSecond`, `FindMinute`, `FindHour`, `FindDay` and `FindMonth` are the calls of
`find_next`, `find_next_day` and their counterparts, with the carries of
`mktime()`; a field that changed makes `do_next` call itself (`Recur`), which the
model bounds by `MaxDepth` as the C stack does; `Return`, `SearchAgain` and
`Answer` are the ways a frame ends. The two functions differ in direction only, but
for the last day of a month, so one set of actions stands for both.

The calendar is scaled: three months of 4, 2 or 3, and 4 days, weeks of two days,
two hours, minutes and seconds each. What makes the real one hard is kept:
months of unequal length, the short one second, a leap year (every second year), a week shorter
than every month, a day limit that is the longest year, and a limit of years (two)
that is enough for a leap day. Every call starts from every second of two
years, a leap year and a common one.

### CommandHistory and FrameStack

`CommandHistory` is the flat stack itself: `push` (which stops at a `nil`), `popped`,
`top` and `supplant` on a sequence of values, and a handler for each kind of
command that touches it. `pole` takes its own frame off as the queries do; it does
not block. `FrameStack` knows no values, only frames: the commands so far, each with
the crontab it found. The refinement mapping cuts the flat stack into fours and leaves
out the topmost while its command is being handled (`FramesOf`); a variant command,
which puts its device into its frame before it changes the crontab, is one step of
`FrameStack`. `SmartDeviceSvr` uses the abstract stack, of which it keeps the crontabs.

### CronField

`cron_parse_expr` makes of a line the sets of values that `CronExpr` searches. A
number is its decimal value and whether a zero stands before it, since `parse_uint` reads
such a number as octal; a field is a list of at least one element, as the blanks between
the fields leave no empty one. `SetElement` is one element of a list, `Fail` an error, `EndField`
the rotation of a field's bits in place (months from 0, a 7 of Sunday to 0). `Means`
and `crond_accepts` are what crond makes of the same line.

### Dates

The variables are a date and its weekday, and `NextDay` is the calendar that `os.date`
follows. The date functions are operators, and the properties ask them about the day
the calendar has come to. `date_of_the_nth_wday_of_m` and `calculate_dow_from_date`
cannot be reached by a command today: the table of day names their caller looks into
has keys of two letters. What the first is asked for is a number or the words *last* or
*2nd to last* (`Nth`, `Last`, `SecondToLast`), as its callers do.

### Weekdays

`extract_dow_recurring` finds the days of the week in a command. A word is a record of
its kind (`every day`, a span with `-` or `through`, a plural, a single day with or
without a comma, `every`, `except`, `but not`, `at ...`, `for ...`) and its days. The
positions of the code, which are characters, are numbers of words.

| variable | in the program |
|---|---|
| `words`, `course` | the command; its begin and its duration |
| `pass` | which of the five loops is under way |
| `from` | `startingpos` |
| `nums`, `exceptions` | `tblDow_nums`, `tblDow_num_exceptions` |
| `cut`, `gone` | `tblDelete_pos_range`; what has been deleted |
| `torn` | each `every` that was deleted with the space before it |
| `listed` | `i ~= 0` in the last loop |

`EveryDay`, `Span`, `Plural` and `Single` are one turn of a loop each, `SpansEnd`, `PluralsEnd`
and `SinglesEnd` the deletion behind it. What stands before a day in what is left of the text
(`Before`) depends on the deletions of the passes before, and a deletion that
leaves no space joins two words (`Joined`), which hides a duration from
`in_future_time_parser2`. `Ends` are the lines that `tbl_to_schedule_string` writes for the end:
the hour of the end, on the days of the beginning. The model was compared with the
program on several hundred random commands. `Meaning` is the reference: what the words
say to somebody who reads them once from left to right.

### How the specification is run

A year has `YearLen` = 6 or 8 minutes. The code's arithmetic is on minutes
(60 seconds) and on two constants: *at most one minute away* in `add_new_schedule`,
and two days in `delete old`, which is the parameter `OldAge`. Everything else is
the order of times in a year and the wrap at its end; eight minutes have room
for clear, begin, a conflict, end and unhold one after the other and for a
recurring line before and behind. The crontab has recurring lines of
both dispositions at, inside and outside the boundaries of the commands, a
comment and two blank lines. That of `undo` has one-shot `#TMP` lines between recurring ones
instead, and its exceptions one for either: this is where holding for two exceptions at
the same time would hold one line and list another, as `hold_shift` does. With commands in
any order (`OneAtATime` without its second part) `undo` violates `HeldIsNamed`.

Bounds: `MaxCmds` is the number of commands, edits and losses of power (4 in `one_exception` and
`undo`: an exception with others before, in and behind it, or two with a `cancel last`
between; 2 in `anything`), `InboxBound` the connections waiting when
the next minute or user comes (a minute's own lines may exceed it), and
`HistoryDepth` the frames kept (the oldest is forgotten first; `cancel last`
takes two, so the runs with it have three, or two where no property depends on
the depth).

The parameters that say what a run assumes of the environment; without any one of
the first three a property of `one_exception` is violated (`minute_race`, `overlap`, and the
remark on `Lead` below the counterexamples):

* `Punctual`: the server is idle again before the minute ends. A handler takes
  well under a second.
* `OneAtATime`: no command is scheduled while a two-part command is pending, and no
  two-part command while a `cancel last` is, which may bring one back.
* `Lead`: a two-part command begins now or at least `Lead` minutes from now.
* `Polite`: the owner does not edit the crontab while the server is about to write
  it. The server writes the whole crontab, so an edit in between is lost.
* `Outages`: the computer may lose power.
* `OwnerLines`: what the owner may add; none in the runs that are not about it.

The other modules. `history`: two devices, two crontabs, up to three frames (`MaxLen` = 12
values) and a fourth being handled, so that commands meet an empty stack, one frame and
several. `dates`: every day from 2000 to 2099, the years the code's comment claims.
`fields`: one field with a list of one or two elements of every shape, the others `*`; fields
do not see each other but for the first error, which ends the parse. The numbers are bounds
of the fields, so that what is in bounds of one is beyond those of another. `weekdays`: every sequence of up to four words
about three days (Sunday, Monday, Friday: spans within a week and over its end), in which
no day is named twice and the words are in the usual order (`Ordinary`): `every` with its day
first, what is excluded last but for times and begun with single days or spans. Four
words have room for a list behind an exception behind a plural; five words were tried
as well, without a difference.

*Fairness.* `WF_vars(Tick)`: time passes. `WF_pc(MainLoop)`: the server goes on
with a command it has; it is a single thread in an endless loop, and no step
of another component disables its steps. `MainLoop` says only that the server
is ready and that `pc` changes; every step of `Server` changes `pc` and no other
step does, so this is the fairness of `Server`, with an `ENABLED` that
TLC evaluates cheaply. Users owe nothing.

## What is checked

Runs that pass:

| run | what it shows |
|---|---|
| `one_exception` | the protocol, used as it is meant to be: one two-part command at a time, two minutes ahead or now, on a punctual server, with an owner who adds a line in between. `TypeOK`, `PermanentKept`, `OwnerKept`, `HeldIsNamed`, `Uninterrupted`, `HeldOnlyInCourse`, `ServerAlive` and, with fairness, `CourseEnds` |
| `undo` | the same with `cancel last`, `unhold all`, `delete old` and losses of power mixed in, but no `hold all` (see `hold_shift`): `PermanentKept` and `HeldIsNamed` still hold |
| `anything` | no assumption at all: every command at any moment, minutes that pass within a handler, silent clients, recurring two-part commands, an owner who is not polite, losses of power, commands that end the server: `PermanentKept` |
| `cron_server` | lines for some days of the week in every month or for one day of one month, as `tbl_to_schedule_string` writes them, in UTC. `cron_next` of all of them, leap days and February 30th included, `cron_prev` of those that come every year; of 29 February see `cron_prev_recursion`. No line has a day of the month and a day of the week. `FoundIsNearest`, `FailedIsNone`, `StackHolds` |
| `history` | the flat stack implements the stack of frames as long as the peer is known: `TypeOK`, `IsFrameStack` |
| `fields` | the parser and crond agree on lines without octal numbers: `TypeOK`, `Understood`, `Refused` |
| `dates` | `DowCounts` and `WeekdayNamed` on every day of a century |
| `weekdays` | the five passes together find the days a reader finds, and a course within a day lasts as long as it should: `TypeOK`, `Understood`, `CourseLasts` |

The properties:

* `PermanentKept`: no recurring line of the user's own is ever lost - not from the
  crontab, not from an array about to be written, and not from what `cancel
  last` may bring back.
* `OwnerKept`: no line is lost that the owner adds while the server runs.
* `HeldIsNamed`: a line on hold for a two-part command is listed by that command's
  unhold line, so there is something that will release it.
* `Uninterrupted`: while a two-part command is in its course and nothing is left
  to handle, the device is as the command set it.
* `HeldOnlyInCourse`: with the server idle, lines are on hold for a command
  only from the minute before its beginning to its end.
* `WholeDeviceHeld`: every line about the device that is due in the course is on
  hold (the comment above `add_new_schedule`).
* `ServerAlive`: no lookup in the arrays of the crontab comes to nothing, so that no command
  of the run and no line the server wrote ends it. Commands that fail in any state (`md5`, a
  bare `status`, a client that is silent) are not in the run; they violate it at once.
* `CaughtUp`: when the program starts, the device is set as the statement sets it that was
  due last.
* `CourseEnds`: a two-part command that is scheduled leaves nothing behind some
  day.
* `FoundIsNearest`: the time that `cron_next` (`cron_prev`) returns matches every field
  and is the nearest one that does.
* `FailedIsNone`: it gives up only if there is none in the years it has to look at.
* `StackHolds`: `do_next` and `do_prev` do not call themselves for ever.
* `IsFrameStack`: every step of the main loop on the flat stack is a step of `FrameStack`
  or a stutter. `TypeOK` of `CommandHistory` says that frames lie on frames.
* `Understood`, `Refused` (`CronField`): of a line that crond runs, the parser leaves the sets
  of values at which it does; of any other it sets the error.
* `DowCounts`: the weekday congruence counts on with the calendar.
* `NthFound`: every day is found as the n-th of its weekday in its month, and as the last or the
  last but one. It holds on every day but Sundays (`nth_sunday`, `NthCorrect`).
* `WeekdayNamed`: the name of a weekday means a day of that name that is to come.
* `NamedThisWeek`: and one within a week.
* `Understood` (`Weekdays`): the days a command gets are those it names without those it
  excludes.
* `CourseLasts`: after every begin the next end comes when the duration is over.

Runs that find a violation, each a place where the code does something
else than its documentation or comments say:

| run | property | what happens |
|---|---|---|
| `new_year` | `Uninterrupted` | a course across New Year's Eve: `schedule_to_epoch` takes the end in this year, before the beginning, and nothing is held |
| `overlap` | `HeldOnlyInCourse` | with a line on hold already, `clear_schedule_for` indexes the shorter arrays with a position in the longer one; the server ends and the lines stay on hold |
| `boot` | `CaughtUp` | after an outage the last statement is searched for no device, and the call that would execute it is commented out |
| `cron_prev_recursion` | `StackHolds` | the previous 29 February, asked for from a common year: `do_prev` goes from the end of the long month to its last days and back, without end |

In `new_year` TLC's trace has a command at the end of the year that is cleared for and holds nothing,
and the recurring *on* line after midnight that ends it. `InCourse` counts the minutes of the new year
as in the course only while the unhold line waits, that is if the course was begun.

`cron_prev_recursion` concerns a line that the server writes itself: a command for 29 February gives
`0 12 29 2 *`. It was seen in the compiled `ccronexpr.c` as well, and the finding in `PROJECT.json`
gives the dates. A line for the whole of a short month, which only a user writes, meets it too
(`cron_prev_month`).

### Counterexamples kept beside the runs

These configurations are not runs of `PROJECT.json`; each can be given to TLC and ends
in a violation. They show why the runs assume what they do, or what lies just outside
of it.

| cfg, module | property | what happens |
|---|---|---|
| `minute_race`, `MCSmartDeviceSvr` | `Uninterrupted` | the minute ends between the two looks at the clock of `add_new_schedule`: no clear line is written, and the schedule is not cleared at once either (why `Punctual`) |
| `cancel_after`, `MCSmartDeviceSvr` | `HeldOnlyInCourse` | `cancel last` after a course: the last command is the unhold line's own, and the crontab it found has lines on hold |
| `missed_unhold`, `MCSmartDeviceSvr` | `HeldOnlyInCourse` | the power fails in the course: the unhold line is due in one minute of the year only, and nothing at boot makes up for it (why `Undisturbed` excludes `Outages`) |
| `silent_client`, `MCSmartDeviceSvr` | `ServerAlive` | a telnet user who types nothing for 30 seconds ends the server |
| `hold_shift`, `MCSmartDeviceSvr` | `HeldIsNamed` | lines put on hold by `hold all` stand between active ones: `cronjob_md5sumhexa` has them and `cronjob_line_numbers` has not, so the held line is not the listed one (why `OneByOne` and `undo` exclude `hold all`) |
| `own_twin`, `MCSmartDeviceSvr` | `ServerAlive` | a one-shot line of the user's own has the md5 sum of one a command wrote, for the sum leaves out `#TMP`: both are held and listed, and the second lookup is nil (why `Wholesome`) |
| `delete_recurring`, `MCSmartDeviceSvr` | `ServerAlive` | a recurring two-part command writes `#TMP` lines with a wildcard, of which `delete old` asks for an epoch (why `Wholesome`) |
| `whole_device`, `MCSmartDeviceSvr` | `WholeDeviceHeld` | only lines with the disposition of the *end* are held |
| `cron_prev_month`, `MCCronExpr` | `StackHolds` | the recursion of `cron_prev_recursion`, for a user's line for every day of the short month |
| `cron_short_month`, `MCCronExpr` | `FoundIsNearest` | from the last day of a long month, the next time in the short one is missed by a year |
| `fields_padded`, `MCCronField` | `Understood` | `today`, `tomorrow` and `now` give the day and the month as `os.date("%d")` and `os.date("%m")` write them, with two digits, and so the server writes them into the line; 08 and 09 are no octal numbers, the parser sets its error, and the two programs do not look at it. The compiled one ends in a segmentation fault for `0 17 08 02 *` |
| `nth_sunday`, `Dates` | `NthFound` | `date_of_the_nth_wday_of_m` takes Sunday for 7 (lines 639-641), the congruence it asks says 0 (*sunday = 0*, line 591): no Sunday is ever found |
| `this_week`, `Dates` | `NamedThisWeek` | the name of the weekday that is tomorrow means the day a week after that (*thu* said on a Wednesday is eight days away), while the comment at 783-785 has a day's name for a day of *this week* |
| `next_dow`, `Dates` | `NextDow` | `date_of_next_dow` takes `os.date`'s weekday, 1 on Sundays, for a number from 0 and finds the day before |
| `past_midnight`, `MCWeekdays` | `CourseLasts` | *on sundays and mondays at 11pm for 2 hours*: the line of the end is for one o'clock on the same days, so that the device stays off until the next week |
| `weekdays_every`, `MCWeekdays` | `CourseLasts` | *at 9pm every mon for 2 hours*: `every mon` is deleted with the space before it, `9pmfor` is left, and the command has no end |
| `weekdays_except`, `MCWeekdays` | `Understood` | *every day except mondays* and *every day but not mon* include Mondays: plurals compare `except_pos` with the end of the match before, and a list is begun by `except` only |

Four more departures can be had by changing a run; they are listed as hazards.
With `Lead` = 1 instead of 2 `one_exception` violates `Uninterrupted`: with one
minute to go the clear line is put into the minute of the beginning, where it
races with the line it is to hold. The documented command `md5` violates
`ServerAlive`, as a silent client does. With `EastOfUTC`, `cron_prev` of a line for
every day of the first month violates `FoundIsNearest`. And so does `cron_next` of
a line with a day of the month and a day of the week, where a search that ends
on the same number in another month counts as no move.

Every property of a passing run has a mutant in `PROJECT.json`: a variant of one
definition, as a plausible slip in the code would have it, that breaks the
property in that run. The variants stand above the definitions they vary.

## What is proved

For every value of the constants:

```
SmartDeviceSvr_proofs   TypeCorrect         Spec => []TypeOK
                        PermanentLinesKept  Spec => []PermanentKept
                        OwnerLinesKept      Polite, no "cancel last" : Spec => []OwnerKept
Exceptions_proofs       HeldNamed           OneByOne => (Spec => []HeldIsNamed)
                        StaysAlive          OneByOne /\ Wholesome => (Spec => []ServerAlive)
Courses_proofs          HeldInCourse        Undisturbed => (Spec => []HeldOnlyInCourse)
                        CourseUninterrupted Steady => (Spec => []Uninterrupted)
CommandHistory_proofs   TypeCorrect         NoPeer \notin Peers => (Spec => []TypeOK)
                        Refinement          NoPeer \notin Peers => (Spec => IsFrameStack)
CronField_proofs        DecimalUnderstood   Decimal => (Spec => []Understood)
                        DecimalRefused      Decimal => (Spec => []Refused)
                        TypeCorrect         Spec => []TypeOK
Dates_proofs            DowCorrect          Spec => []DowCounts
                        NthCorrect          Spec => [](NthFound <=> wday # 0)
                        NamesUnderstood     Spec => []WeekdayNamed
Weekdays_proofs         TypeCorrect         Spec => []TypeOK
                        DaysUnderstood      all phrases Ordinary : Spec => []Understood
                        CoursesLast         all phrases OpensWithEvery, all courses Within : Spec => []CourseLasts
```

### The server

*Assumptions*: `YearLenAssumption` (a year has a minute), `OldAgeAssumption`,
`BoundsAssumption` and `SchedulingAssumption` (types of the bounds), `Crontab0Assumption`
(the user's crontab is a sequence of lines), `UserCommandsAssumption` (users
send what the grammar yields), `OwnerLinesAssumption` (the owner adds recurring lines about
the device) and `NoClientLinesAssumption` (the crontab the
server is first started on has none of its own client lines). TLC evaluates them in every run.
`Punctual`, `OneAtATime`, `Lead` and `Outages` are not fixed: the theorems hold however commands
overlap, however slow the server is, and whenever it ends or the power fails. `OwnerLinesKept`
needs `Polite` and users who do not send `cancel last`: without the first the
write of an array that was read before the edit loses the line, without the
second an older crontab comes back.

*Argument.* `CrontabTheorems` is about single table functions. All deletions are
`KeepAt`, whose loop is the one thing that needs work: the numbers of a set `I`
of positive integers and their ranks `Rank(I, i)`, the number of members up to
`i`, are in bijection (`RankInjective`, `AscendingOnto`), so that `KeepAt(s, I)` has the
type of `s` and exactly its lines at `I` (`KeepAtLines`). From that each function
gets a lemma: what it returns is a crontab, and it has every recurring line that
the given one has (`Keeps(tab, new)`). `submit_crontab` drops a line only
behind an equal one; holding and unholding change marks only; what is
deleted by md5 sum is looked up by the sum of a one-shot line or is a client line
(`OnceLineSpared`, `ClientLineSpared`), and what `delete old` deletes is `#TMP`.

`TypeOK` is inductive as it stands. It says more than types: `req` is there
exactly while something is handled, and the steps after a first `Submit`
belong to a one-shot two-part command, without which the sums that
`ClearNow` looks up need not be those of one-shot lines. `HandlerOutcome` reduces
the thirteen handlers to three outcomes (the server ends, is done, or is about
to write an array that keeps the lines or comes from the history), and each invariant is
proved for these. `PermanentKept` is inductive relative to `TypeOK`; its
conjuncts about `work` and `history` are what makes it so, since both
are written to the crontab later. That the lines to be kept are recurring lines of
scripts (`PermanentAreRecurring`) is where `NoClientLinesAssumption` is used.
`OwnerKept` is inductive relative to `TypeOK` in the same way: a handler reads the crontab
anew, and `Polite` keeps the owner out between that read and the write.

### One exception at a time

`Exceptions_proofs` is about what two-part commands put on hold, for any crontab, any commands and
any bounds.

*Hypotheses.* `OneByOne` is what the runs `one_exception` and `undo` assume: `Punctual`,
`OneAtATime`, nothing on hold at the start, and no `hold all`, which shifts the arrays against
each other and breaks `HeldIsNamed` (`hold_shift`). `Wholesome` says that no command fails by
itself, that no line the server writes has the md5 sum of a line of the user's own (`own_twin`), and
that every `#TMP` line has an epoch where `delete old` is used (`delete_recurring`). Power
failures, impolite edits and every `Lead` are allowed in both.

That two-part commands are alone is decided when they are sent, by what waits, is handled and is in
the crontab; a `cancel last` that still waits may bring back what is not there yet. `Orderly` says that
no two-part command waits behind one; `OneAtATime` makes it an invariant (`NextOrderly`),
and without that TLC finds `HeldIsNamed` violated in `undo`.

*Argument of `HeldNamed`.* `HeldIsNamed` is not inductive: a line on hold is listed by an unhold line,
but a `clear` that comes while another unhold line is there, or an `unhold` that
finds a twin of the line it looks up, would break it. `HeldInv` says what prevents this. A table is `Tidy` if
it has at most one line of the server's own (`OneClient`), every line on hold is listed by the unhold line of its
instigators (`Listed`), and two lines on hold with one md5 sum are listed twice (`Counted`).
The crontab, the array about to be written and each frame of the history are tidy; a message of a client line
is the only one of its kind and agrees with the client line it came from (`CurrentClient`);
while a two-part command waits or is handled nothing else has client lines (`AloneInInbox`, `AloneInHand`,
`WorkFromCrontab`). Most table functions only leave lines out, and for these one lemma is enough
(`PartTidy`, with `Part` from `CrontabTheorems`). The two that need work are `ClearTidy` - with nothing
on hold before, the two arrays of `get_cron_jobs` agree (`ArraysAgree`), so that the lines
held are the lines listed - and `UnholdTidy`: what it takes off hold is all that was on hold, so that
deleting the unhold line leaves nothing unnamed.

*Argument of `StaysAlive`.* Beside the failing commands, three functions index with what
a lookup may not find: `clear_fails`, `unhold_fails` and `delete_old_fails`. `AliveInv` says that
lines with the same md5 sum differ in their `#ONHOLD` mark only (`Known`), that the lists of client lines
name no line twice, and that the crontab has no line twice when
`clear` reads it (`DistinctBefore`), for which `submit_crontab` is needed: of equal lines it writes one
(`SubmitDistinct`). So a list made by `clear` has no repetitions (`ClearLists`), and no `unhold`
looks up the same sum twice.

*`HeldInCourse`.* `Undisturbed` is `OneByOne`, `Wholesome`, no `Outages` and nobody who sends `cancel last`, as
in the run `one_exception`; commands, crontab, bounds, `Lead` and the owner's edits, polite or not, are
arbitrary. Each part is needed: `overlap` and `silent_client` end the server, which then never
releases what it holds, `missed_unhold` is a failure of power, and `cancel_after` brings
lines on hold back after their unhold line has fired. `HeldOnlyInCourse` speaks of an idle server
only; what it needs in between is `CourseInv`, beside `HeldInv` and `ServerAlive`:

* client lines are for the right minute (`TimedTable`): a `clear` line for the beginning or the minute
  before, an `unhold` line for the minute after the end, also over the end of a year;
* what is on hold in the crontab is in its course (`AroundTable`), or the unhold line's message is the
  next to be handled (`UnholdDue`), and the array about to be written is in its course always;
* a `clear` that waits or is handled was sent in this minute (`ClearInTime`), for a punctual server is
  idle when the minute ends, and one that is carried out at once has this minute as its time.

The work is in four places. In `TickCourse` the minute after the end of a course comes: the lines on hold
are listed by an unhold line (`Listed`), there is no other client line (`OneClient`), so that
one fires and its message arrives alone. `NextMinute` says that in every other minute what
is in its course stays so; a course does not go over the end of the year, for
`clear_schedule_for` compares times within one year and finds nothing to hold if the end is before the
beginning, or if it is sent in the last minute of the year before. `ClearInCourse` says that what
is put on hold is in its course in that minute, and the lemmas for `unhold` and `unhold all` that nothing of
it is left. `CourseInv` was checked by TLC in the states of `one_exception` before it was proved.

*`CourseUninterrupted`* is what the program is for: while a course runs, the device is as the
command set it. `Steady` is `Undisturbed` and what follows; the constants of `one_exception`
satisfy it, and TLC finds `Uninterrupted` violated if one part is left out:

* nobody sends `unhold all`, which releases what was on hold in the middle of the course;
* `Lead` is at least 2: with one minute to go the clear line and the line it is to hold start together;
* courses lie in this year, the beginning before the end (`new_year`); a line has no
  year, so that the lines of a command for next year are those of a course of this year, and nothing is cleared for it;
* `Covered`: of the lines that stand there for other reasons (`Standing`: the crontab's, the owner's, those of
  one-part and of recurring commands) only those of the disposition of the end, or with the same effect as the
  course, are due in it. Others are not held (`whole_device`): a `reboot` line in an `off` course turns the device
  on, an `off` line in a `reboot` course turns it off;
* `Apart`: the begin and end line of a two-part command are not both there without it. Two one-part
  commands *off at 2*, *on at 5* write the same two lines, and hold nothing.

The crontab, the number and order of commands, the owner's edits, what crond starts
together and in which order, and all other bounds are arbitrary. `Uninterrupted` speaks of an idle
server; `SteadyInv` says what leads there, beside `HeldInv`, `AliveInv` and `CourseInv`:

* every line about the device is one that stands there, or of the two-part command whose client line
  is there, or of the one that is just being carried out (`Accounted`), and of the lines that only a two-part
  command writes there is one, and active (`Single`);
* the client line is a two-part command's, and its `clear` line is due in the minute before the beginning (`OfCourse`);
* in every minute (`Phase`) the `clear` line is still to come, or there is an `unhold` line, no active line
  that would end the course is due before its end (`Quiet`), and from the beginning on the device is as
  commanded - or the client line's message is the next to be handled (`ClientDue`);
* a command that begins now has set the device before it writes (`Begun`), and what waits was sent in
  good time (`InTime`) and while no two-part command was about (`NothingBefore`).

`HoldsDue` is where `clear_schedule_for` does its work: with nothing on hold before, every active line
with the disposition of the end is in the arrays (`JobOfActive`), and what is due in the course has its next time
there, for `cron_next` is no later than any time to come (`NextIsBy`). `ClearSteady` makes of
it the `Quiet` of the new table, `CourseGoesOn` takes it through a minute in which crond
starts any lines but the client's, and `UnholdSteady` ends it. `FoundToClear` and
`JobnumMisses` show that `clear_schedule_for` returns without doing anything only if one of the command's lines
is gone. `SteadyInv` too was checked by TLC in the states of `one_exception`.

### The history

`TypeOK` of `CommandHistory` is inductive: it says that the stack is made of whole frames
of the right sorts and, while a command is handled, that the topmost frame is that command's
and has the installed crontab. Without the second part neither `cancel last` nor the mapping
of `Remember` could be shown. The lemmas state what the flat operations do to frames (one
pushed, one popped, the device of the topmost changed, every fourth of `4 * n` values a
command) for stacks of any depth; `StepGood` then has one step for each handler.
The theorems need the peer to be known: one that hangs up before `getpeername` shifts every
frame above it, which is a hazard listed in `PROJECT.json`.

### Cron fields

`DecimalUnderstood` rests on an invariant over the fields: those before the one being parsed
have the values they mean, the one being parsed has the bits of its elements so far, not
rotated yet, those behind it none, and the error is set for a reason. The rotation in
place is the lemma `RotatedIsValue`. `Decimal` excludes numbers with a zero before them, on which the
two readings differ. They are no rarity: the server itself writes them for `today`, `tomorrow` and `now`
(`fields_padded`). `TypeCorrect` needs no such hypothesis; its invariant `TypeInv` adds that the field being
parsed has no bits but its own (`HitsInField`) and is rotated once: rotated again, the bit
of January would be number -1.

### Dates

`DowCorrect` is by induction along the calendar: the congruence is a day and an offset of
the month (`CongruenceSplit`), and `MonthEnd` and `YearEnd` say that the offset steps by the
length of the month, over February 29th and over the end of a year, where the code goes on
counting January and February to the year before. `NthCorrect` follows: the days the function finds are
those that lie a multiple of seven from the date asked about (`Same`, `OccurringSame`), and of these there are as
many up to one of them as its number in the month says (`EverySeventh`, `Occurrences`); for a Sunday
there are none. `NamesUnderstood` says that a weekday's name means a day of that name and not one that is over;
how far off it may be is what `this_week` shows.

### Days of the week

`DaysUnderstood` is about commands of any length. Its invariant `HeardInv` says of every moment
that the days found so far are those said by the words that have been read, included and excluded
apart (`NumsHeard`, `ExceptionsHeard`); that what is deleted is what the passes that are over
look for (`Deleted`); and that a list has begun if one of the single days
passed recurs (`ListBegun`). `Understood` alone says nothing before the end, and which days recur
depends on what is left of the text. The lemmas `ExceptIsExcluded`,
`PluralsStay`, `FollowsEvery` and `ExceptionsListed` are where the usual order is
needed, one for each of the places where the code sees less than a reader;
`weekdays_every` and `weekdays_except` are commands out of that order. `CoursesLast` needs less of the order: an
`every` that comes first has no word before it, so no word is run together with another
(`TornIsEvery`, `NoneJoined`); `past_midnight` shows why the course must be over by then.

*Only model-checked*: `CourseEnds`, since liveness under fairness and `ENABLED` are
outside the prover; and `FoundIsNearest`, `FailedIsNone` and `StackHolds`, whose calendar is a
scaled one.

## What is not modelled, and why

* The rest of the grammar and the parsers of dates and times: their result is the input
  `Command`. They are some two thousand lines of patterns whose order is their
  meaning; what was modelled of them is where a loop with state makes decisions.
  Some of what they do is odd: *turn on wifi every day except thu from 3 to 5pm*
  (`README.md:19`) begins now, for *from 3* has no am or pm; *every month* is read
  as Mondays. The filters of *every other* and *every third* (strings put
  before the command, some with a backquote that is not closed) are left out.
* `status`, `temp`, `uptime`, `pole`: pure input and output. The reports
  that change nothing are one action, `HandleList`; of `pole` only what it does to the history.
* The arguments and the output of the two C programs, and the splitting of a line's text.
* Daylight saving: minutes are uniform, here and in `CronExpr`. Lines with a day of the
  month and a day of the week, which `ccronexpr.c` and crond read differently, and
  `delete old` over the end of a year are hazards without a property.
* Emacs and the router, crond's own errors, and the vendored libraries. LuaJIT and
  luasocket are nearly all of the repository's lines and none of its own logic; the program
  itself is one Lua file of 3500 lines, of which half is the grammar, and three C files.

## Plan

Done: `Crontab` and `SmartDeviceSvr` with the owner, the loss of power and boot;
`CommandHistory` with `FrameStack`; `CronExpr`, `CronField`, `Dates`, `Weekdays`; the theorems above.
To come, in the order of importance:

1. `ExceptionWindow`: the abstract promise of a two-part command - waiting, in
   force, over - with the device and the set of held lines, and
   `SmartDeviceSvr` under the assumptions of `one_exception` shown to implement it
   (`INSTANCE ... WITH`).
2. `Grammar`: the decisions of 3196-3480 that turn the parts found in a command into begin,
   end and dispositions, with `Weekdays` as one of the parts.
3. The December to January case of `delete old`; lines with both kinds of day; that the
   fields `CronExpr` finds match and are strictly later, as a theorem.
