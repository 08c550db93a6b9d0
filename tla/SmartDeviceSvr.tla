--------------------------- MODULE SmartDeviceSvr ---------------------------
(***************************************************************************)
(* The server of src/smart_device_svr.lua and the programs it works with:  *)
(* crond, which runs the crontab once a minute; the clients that send one  *)
(* command per TCP connection - users, and the crontab's own lines that run*)
(* send-to-smart-device-svr.sh; and the owner's "crontab -e".  The computer*)
(* may lose power at any time and boot later.                              *)
(*                                                                         *)
(* The server is one thread, but not atomic: it reads the crontab, works   *)
(* on the copy and writes it back, and for a two-part command looks at the *)
(* clock before and after.  Accept, the handlers, Submit, ClearNow and     *)
(* Resubmit are separate steps between which the minute may change.        *)
(***************************************************************************)
EXTENDS Crontab

CONSTANTS
  Crontab0,      \* the user's crontab when the server starts
  UserCommands,  \* the commands users may send
  MaxCmds,       \* bound: how many of them, edits and power failures come
  InboxBound,    \* bound: connections waiting when a minute or a user comes
  HistoryDepth,  \* bound: frames kept of the command history
  Punctual,      \* the server is idle again before the minute is over
  OneAtATime,    \* nothing is scheduled while a two-part command is pending,
                 \* and no two-part command behind a "cancel last"
  Lead,          \* a two-part command begins now, or no sooner than this
  Outages,       \* the computer may lose power
  OwnerLines,    \* lines the owner may add to the crontab
  Polite         \* not while the server is about to write it

\* "list" stands for the commands that only report (list, status of a device,
\* uptime, temp, ver, test), "last" for those that take their own frame off
\* the history (last?, what was last, what were the last, pole), Failing for
\* "md5", a user's "delete", a bare "status" and a schedule for no device.
\* Both times of a two-part command recur, or neither does.
Failing == {"md5", "delete", "status", "no_device"}
Command ==
  [kind : {"list", "last", "delete_old", "cancel_last", "hold_all",
           "unhold_all", "silent"} \cup Failing]
  \cup [kind : {"do"}, do : {"off", "on"}]
  \cup [kind : {"one"}, do : Action, at : Schedule]
  \cup {c \in [kind : {"two"}, do : Action, at : Schedule, until : Schedule,
              year : {0, 1}] : c.at.rec = c.until.rec}

CronMessage ==
  [kind : {"clear"}, b : OnceKey, e : OnceKey]
  \cup [kind : {"unhold"}, b : OnceKey, e : OnceKey, held : Seq(Key)]

NoReq == [kind |-> "none"]

ProgramCounter ==
  {"accept", "dispatch", "submit", "clear_now", "resubmit", "dead", "off"}

Message == Command \cup CronMessage
Received == UserCommands \cup CronMessage

ASSUME Crontab0Assumption == Crontab0 \in Seq(Line)
ASSUME UserCommandsAssumption == UserCommands \subseteq Command
ASSUME BoundsAssumption ==
  /\ MaxCmds \in Nat
  /\ InboxBound \in Nat
  /\ HistoryDepth \in Nat
  /\ Lead \in Nat
ASSUME SchedulingAssumption ==
  {Punctual, OneAtATime, Outages, Polite} \subseteq BOOLEAN
\* The owner's lines are about the device, and recur.
ASSUME OwnerLinesAssumption ==
  \A x \in OwnerLines : \E k \in DeviceKey : k.sched.rec /\ x = DeviceLine(k, FALSE)
\* The user's crontab holds none of the server's own lines yet.
ASSUME NoClientLinesAssumption ==
  \A i \in DOMAIN Crontab0 : ~IsClient(Crontab0[i])

VARIABLES
  crontab,   \* the installed crontab: a sequence of lines
  now,       \* the current minute of the year
  device,    \* the state of the device: "off" or "on"
  inbox,     \* connections not yet accepted, with what they will send
  pc,        \* where the main loop is; the computer may be "off"
  req,       \* the command being handled
  work,      \* the array the handler is about to submit
  history,   \* command_history_stack: the crontab each command found
  sent,      \* how many commands, edits and power failures there were
  own        \* the keys of the lines the owner has added

vars == <<crontab, now, device, inbox, pc, req, work, history, sent, own>>

-----------------------------------------------------------------------------
(* Helpers *)

\* What a disposition's script does to the device (reboot leaves it on).
Effect(do) == IF do = "off" THEN "off" ELSE "on"

KeyBegin(c) == [sched |-> c.at, do |-> c.do]
KeyEnd(c) == [sched |-> c.until, do |-> EndDisposition(c.do)]

\* What the shell client sends for a client line that fires.
MessageOf(x) ==
  IF x.key.do = "clear"
  THEN [kind |-> "clear", b |-> x.key.b, e |-> x.key.e]
  ELSE [kind |-> "unhold", b |-> x.key.b, e |-> x.key.e, held |-> x.held]

\* command_history_stack:push of a frame; the frame's command, peer and
\* device are only displayed.  The bound forgets the oldest frame.
Push(stack, cjs) ==
  LET s == Append(stack, cjs)
  IN  IF Len(s) > HistoryDepth THEN Tail(s) ELSE s
Pop(stack) == IF stack = << >> THEN << >> ELSE Front(stack)

\* Mutant: the command is not forgotten.
Finish_keeps_req ==
  /\ pc' = "accept"
  /\ work' = << >>
  /\ UNCHANGED req

\* A handler that is done with the command: client:close().
Finish ==
  /\ pc' = "accept"
  /\ req' = NoReq
  /\ work' = << >>

\* The process ends, and with it the connections, the history and the array
\* that was not submitted.
Lost ==
  /\ req' = NoReq
  /\ work' = << >>
  /\ inbox' = << >>
  /\ history' = << >>
  /\ UNCHANGED <<crontab, now, device, own>>

\* A Lua error that nothing catches.
Die == pc' = "dead" /\ Lost /\ UNCHANGED sent

\* A handler that goes on to submit_crontab(array).
GoSubmit(array) ==
  /\ pc' = "submit"
  /\ work' = array
  /\ UNCHANGED req

-----------------------------------------------------------------------------
(* The environment: crond, the users, the owner and the power *)

Idle == pc \in {"accept", "dead", "off"} /\ inbox = << >>

FiredAt(tab, t) == {i \in ActiveAt(tab) : t \in tab[i].key.sched.at}

\* The next minute begins and crond runs every active line that matches it,
\* all at once: device scripts finish in any order, and so do the clients'
\* connections arrive.  What is missed while the computer is off is not made
\* up for.
Tick ==
  /\ Punctual => Idle
  /\ Len(inbox) <= InboxBound
  /\ now' = (now + 1) % YearLen
  /\ LET fired == IF pc = "off" THEN {} ELSE FiredAt(crontab, now')
         clients == {i \in fired : IsClient(crontab[i])}
         states == {Effect(crontab[i].key.do) : i \in fired \ clients}
         messages == {MessageOf(crontab[i]) : i \in clients}
     IN  /\ device' \in IF states = {} THEN {device} ELSE states
         /\ IF pc = "dead"
            THEN UNCHANGED inbox
            ELSE \E arrivals \in SetToSeqs(messages) :
                   inbox' = inbox \o arrivals
  /\ UNCHANGED <<crontab, pc, req, work, history, sent, own>>

\* A two-part command, or what it left in the crontab, is still about.
Pending ==
  \/ \E i \in DOMAIN crontab : IsClient(crontab[i])
  \/ \E m \in ToSet(inbox) \cup {req} : m.kind \in {"two", "clear", "unhold"}

\* A "cancel last" that is not yet done may bring back a two-part command.
Undoing == \E m \in ToSet(inbox) \cup {req} : m.kind = "cancel_last"

InGoodTime(c) ==
  c.kind = "two" /\ ~c.at.rec =>
    \/ tbl_is_now_p(c.at, now)
    \/ schedule_to_epoch(c.at) + c.year * YearLen >= now + Lead

UserSends(c) ==
  /\ pc \notin {"dead", "off"}
  /\ sent < MaxCmds
  /\ Len(inbox) <= InboxBound
  /\ OneAtATime /\ Pending => c.kind \notin {"do", "one", "two"}
  /\ OneAtATime /\ Undoing => c.kind # "two"
  /\ InGoodTime(c)
  /\ inbox' = Append(inbox, c)
  /\ sent' = sent + 1
  /\ UNCHANGED <<crontab, now, device, pc, req, work, history, own>>

\* "crontab -e".
OwnerAdds(x) ==
  /\ pc # "off"
  /\ x.key \notin own
  /\ sent < MaxCmds
  /\ Polite => pc \notin {"submit", "resubmit"}
  /\ OneAtATime => ~Pending
  /\ crontab' = Append(crontab, x)
  /\ own' = own \cup {x.key}
  /\ sent' = sent + 1
  /\ UNCHANGED <<now, device, inbox, pc, req, work, history>>

\* The device has a supply of its own.
PowerFail ==
  /\ Outages
  /\ pc # "off"
  /\ sent < MaxCmds
  /\ pc' = "off"
  /\ sent' = sent + 1
  /\ Lost

\* The start of the program.  execute_last_cron_statement_regarding_device()
\* has no device to do it for, and would only print the statement.
Boot ==
  /\ pc = "off"
  /\ pc' = "accept"
  /\ history' = Push(<< >>, cron_all(crontab))
  /\ UNCHANGED <<crontab, now, device, inbox, req, work, sent, own>>

-----------------------------------------------------------------------------
(* The main loop *)

\* accept(), receive(), get_cron_jobs() and the push of the history frame.
Accept ==
  /\ pc = "accept"
  /\ inbox # << >>
  /\ Head(inbox).kind # "silent"
  /\ pc' = "dispatch"
  /\ req' = Head(inbox)
  /\ inbox' = Tail(inbox)
  /\ history' = Push(history, cron_all(crontab))
  /\ UNCHANGED <<crontab, now, device, work, sent, own>>

\* receive() times out or the client hangs up: line is nil, line:gsub fails.
AcceptSilent ==
  /\ pc = "accept"
  /\ inbox # << >>
  /\ Head(inbox).kind = "silent"
  /\ Die

Dispatch(kind) == pc = "dispatch" /\ req.kind = kind

HandleList ==
  /\ Dispatch("list")
  /\ Finish
  /\ UNCHANGED <<crontab, now, device, inbox, history, sent, own>>

\* The queries about the history take their own frame off first.
HandleLast ==
  /\ Dispatch("last")
  /\ history' = Pop(history)
  /\ Finish
  /\ UNCHANGED <<crontab, now, device, inbox, sent, own>>

\* A nil is concatenated, searched or indexed: the global errormsg_file,
\* unhold_str, the device of "status", the device of a schedule.
HandleFailing ==
  /\ pc = "dispatch"
  /\ req.kind \in Failing
  /\ Die

\* "0" and "1" run the disposition at once.
HandleDo ==
  /\ Dispatch("do")
  /\ device' = Effect(req.do)
  /\ Finish
  /\ UNCHANGED <<crontab, now, inbox, history, sent, own>>

HandleDeleteOld ==
  /\ Dispatch("delete_old")
  /\ LET tab == cron_all(crontab)
     IN  IF delete_old_fails(tab)
         THEN Die
         ELSE /\ GoSubmit(delete_old_cron_jobs(tab, now))
              /\ UNCHANGED <<crontab, now, device, inbox, history, sent, own>>

HandleCancelLast ==
  /\ Dispatch("cancel_last")
  /\ LET rest == Pop(history)
     IN  /\ history' = Pop(rest)
         /\ IF rest = << >> THEN Finish ELSE GoSubmit(Last(rest))
  /\ UNCHANGED <<crontab, now, device, inbox, sent, own>>

HandleHoldAll ==
  /\ Dispatch("hold_all")
  /\ GoSubmit(hold_all(cron_all(crontab)))
  /\ UNCHANGED <<crontab, now, device, inbox, history, sent, own>>

HandleUnholdAll ==
  /\ Dispatch("unhold_all")
  /\ LET tab == cron_all(crontab)
     IN  IF OnHoldAt(tab) = {} THEN Finish ELSE GoSubmit(unhold_all_jobs(tab))
  /\ UNCHANGED <<crontab, now, device, inbox, history, sent, own>>

\* clear_schedule_for(), from the read of the crontab to the submit.
ClearScheduleFor(b, e) ==
  LET tab == cron_all(crontab)
  IN  IF clear_fails(tab, b, e)
      THEN Die
      ELSE /\ IF clear_returns(tab, b, e)
              THEN Finish
              ELSE GoSubmit(clear_schedule_for(tab, b, e, now))
           /\ UNCHANGED <<crontab, now, device, inbox, history, sent, own>>

HandleClear == Dispatch("clear") /\ ClearScheduleFor(req.b, req.e)

HandleUnhold ==
  /\ Dispatch("unhold")
  /\ LET tab == cron_all(crontab)
     IN  IF unhold_fails(tab, req.held, req.b, req.e)
         THEN Die
         ELSE /\ GoSubmit(unhold_jobs_delete_jobs(tab, req.held, req.b, req.e))
              /\ UNCHANGED <<crontab, now, device, inbox, history, sent, own>>

\* The variant commands: run the disposition if it is due now, then
\* add_new_schedule().
ExecuteNow ==
  device' = IF tbl_is_now_p(req.at, now) THEN Effect(req.do) ELSE device

\* Mutant: the crontab as the main loop read it, not as it is now.
HandleOnePart_stale ==
  /\ Dispatch("one")
  /\ ExecuteNow
  /\ GoSubmit(add_begin(Last(history), KeyBegin(req)))
  /\ UNCHANGED <<crontab, now, inbox, history, sent, own>>

HandleOnePart ==
  /\ Dispatch("one")
  /\ ExecuteNow
  /\ GoSubmit(add_begin(cron_all(crontab), KeyBegin(req)))
  /\ UNCHANGED <<crontab, now, inbox, history, sent, own>>

HandleTwoPart ==
  /\ Dispatch("two")
  /\ ExecuteNow
  /\ GoSubmit(add_begin_end(cron_all(crontab), KeyBegin(req), KeyEnd(req),
                            req.year, now))
  /\ UNCHANGED <<crontab, now, inbox, history, sent, own>>

\* The write; a two-part command then looks at the clock again and, if it is
\* still the minute of the beginning, goes on to clear_schedule_for().
Submit ==
  /\ pc = "submit"
  /\ crontab' = submit_crontab(work)
  /\ IF req.kind = "two" /\ tbl_is_now_p(req.at, now)
     THEN pc' = "clear_now" /\ work' = << >> /\ UNCHANGED req
     ELSE Finish
  /\ UNCHANGED <<now, device, inbox, history, sent, own>>

\* The call of clear_schedule_for() in add_new_schedule(), and its write.
ClearNow ==
  /\ pc = "clear_now"
  /\ LET tab == cron_all(crontab)
         b == KeyBegin(req)
         e == KeyEnd(req)
     IN  IF clear_fails(tab, b, e)
         THEN Die
         ELSE /\ IF clear_returns(tab, b, e)
                 THEN Finish
                 ELSE /\ pc' = "resubmit"
                      /\ work' = clear_schedule_for(tab, b, e, now)
                      /\ UNCHANGED req
              /\ UNCHANGED <<crontab, now, device, inbox, history, sent, own>>

Resubmit ==
  /\ pc = "resubmit"
  /\ crontab' = submit_crontab(work)
  /\ Finish
  /\ UNCHANGED <<now, device, inbox, history, sent, own>>

-----------------------------------------------------------------------------
(* The specification *)

\* The start of the program: the history's first frame is the crontab found.
Init ==
  /\ crontab = Crontab0
  /\ now \in Slot
  /\ device \in {"off", "on"}
  /\ inbox = << >>
  /\ pc = "accept"
  /\ req = NoReq
  /\ work = << >>
  /\ history = Push(<< >>, cron_all(Crontab0))
  /\ sent = 0
  /\ own = {}

Handler ==
  \/ HandleList \/ HandleLast \/ HandleFailing \/ HandleDo
  \/ HandleDeleteOld \/ HandleCancelLast \/ HandleHoldAll \/ HandleUnholdAll
  \/ HandleClear \/ HandleUnhold \/ HandleOnePart \/ HandleTwoPart

Server == Accept \/ AcceptSilent \/ Handler \/ Submit \/ ClearNow \/ Resubmit

Next ==
  \/ Tick
  \/ \E c \in UserCommands : UserSends(c)
  \/ \E x \in OwnerLines : OwnerAdds(x)
  \/ PowerFail
  \/ Boot
  \/ Server

Spec == Init /\ [][Next]_vars

\* The main loop has something to do, and goes on: every Server step changes
\* pc and, as long as there is power, no other step does, so that this has the
\* fairness of Server.
ServerReady == pc \notin {"dead", "off"} /\ (pc = "accept" => inbox # << >>)
MainLoop == ServerReady /\ pc' \in ProgramCounter \ {pc, "off"}

\* Time passes, and the server goes on with a command it has.
FairSpec == Spec /\ WF_vars(Tick) /\ WF_pc(MainLoop)

-----------------------------------------------------------------------------
(* Properties *)

\* Every variable has its type; what is being handled fits where the main
\* loop is.
TypeOK ==
  /\ crontab \in Seq(Line)
  /\ now \in Slot
  /\ device \in {"off", "on"}
  /\ inbox \in Seq(Received)
  /\ pc \in ProgramCounter
  /\ req \in Received \cup {NoReq}
  /\ work \in Seq(Line)
  /\ history \in Seq(Seq(Line))
  /\ sent \in 0 .. MaxCmds
  /\ own \subseteq {x.key : x \in OwnerLines}
  /\ pc \in {"accept", "dead", "off"} <=> req = NoReq
  /\ pc \in {"clear_now", "resubmit"} => req.kind = "two" /\ ~req.at.rec

\* The recurring lines of the user's own crontab.
PermanentKeys ==
  {Crontab0[i].key : i \in {j \in DOMAIN Crontab0 :
                              /\ IsEntry(Crontab0[j])
                              /\ ~Crontab0[j].tmp
                              /\ Crontab0[j].key.sched.rec}}

HasLines(tab, keys) ==
  \A k \in keys :
    \E i \in DOMAIN tab : IsEntry(tab[i]) /\ tab[i].key = k /\ ~tab[i].tmp

HasPermanent(tab) == HasLines(tab, PermanentKeys)

\* No recurring line of the user's own is ever lost, whatever commands clear,
\* hold, unhold, delete and cancel: it is in the crontab, active or on hold,
\* in an array about to be written and in everything "cancel last" may bring
\* back (submit_crontab, tblDeleteLines, unhold_jobs_delete_jobs).
PermanentKept ==
  /\ HasPermanent(crontab)
  /\ pc \in {"submit", "resubmit"} => HasPermanent(work)
  /\ \A n \in DOMAIN history : HasPermanent(history[n])

\* No line is lost that the owner adds between two commands of the server, or
\* in the middle of one that has not yet read the crontab - unless "cancel last"
\* goes back behind it.
OwnerKept ==
  /\ HasLines(crontab, own)
  /\ pc \in {"submit", "resubmit"} => HasLines(work, own)

\* Lines on hold for a two-part command are listed by its unhold line.
HoldersNamed(tab) ==
  \A i \in OnHoldAt(tab) : tab[i].by # << >> =>
    \E j \in DOMAIN tab :
      /\ IsClient(tab[j]) /\ tab[j].key.do = "unhold"
      /\ <<tab[j].key.b, tab[j].key.e>> = tab[i].by
      /\ tab[i].key \in ToSet(tab[j].held)

\* Every line a clear_schedule_for() put on hold is named by the unhold line
\* of the same two-part command, so that something will release it; true of
\* what is installed, about to be written and kept for "cancel last".
HeldIsNamed ==
  /\ HoldersNamed(crontab)
  /\ HoldersNamed(work)
  /\ \A n \in DOMAIN history : HoldersNamed(history[n])

TwoParts == {c \in UserCommands : c.kind = "two" /\ ~c.at.rec}

\* The lines of the two-part command c are in the crontab.
Scheduled(c) ==
  \A k \in {KeyBegin(c), KeyEnd(c)} :
    \E i \in DOMAIN crontab : IsEntry(crontab[i]) /\ crontab[i].tmp
                              /\ crontab[i].key = k

\* The schedule has been cleared for c: its unhold line waits.
Cleared(c) ==
  \E i \in DOMAIN crontab :
    /\ IsClient(crontab[i]) /\ crontab[i].key.do = "unhold"
    /\ <<crontab[i].key.b, crontab[i].key.e>> = <<KeyBegin(c), KeyEnd(c)>>

\* The course of c is from its beginning to its end.  One that goes on into the
\* next year has begun before the minutes of that year only if it was cleared.
InCourse(c) ==
  LET from == schedule_to_epoch(c.at)
      to == schedule_to_epoch(c.until)
  IN  IF from <= to
      THEN now \in from .. to - 1
      ELSE now >= from \/ (now < to /\ Cleared(c))

\* README: "those events are ... effectively placed on hold until the given
\* command can run its course".  While a two-part command runs its course and
\* nothing is left to handle, the device is as the command set it.
Uninterrupted ==
  \A c \in TwoParts :
    Idle /\ pc # "dead" /\ Scheduled(c) /\ InCourse(c) => device = Effect(c.do)

\* README: "after which time they are unheld".  When the server is idle, a
\* line is on hold for a two-part command only from the minute before its
\* beginning to its end.
HeldOnlyInCourse ==
  Idle => \A i \in OnHoldAt(crontab) : crontab[i].by # << >> =>
    LET from == schedule_to_epoch(crontab[i].by[1].sched)
        to == schedule_to_epoch(crontab[i].by[2].sched)
    IN  \/ from <= to /\ now \in from - 1 .. to
        \/ from > to /\ (now >= from - 1 \/ now <= to)

\* add_new_schedule()'s comment: "all crontab lines that involve turning on or
\* off said device that happen to occur during the new schedule will be placed
\* on hold".  While the unhold line of a two-part command waits, no other
\* active line of the device is due between its beginning and its end.
WholeDeviceHeld ==
  Idle => \A u \in ActiveAt(crontab) : crontab[u].key.do = "unhold" =>
    LET b == crontab[u].key.b
        e == crontab[u].key.e
        span == schedule_to_epoch(b.sched) .. schedule_to_epoch(e.sched)
    IN  \A i \in ActiveAt(crontab) :
          IsClient(crontab[i]) \/ crontab[i].key \in {b, e}
            \/ crontab[i].key.sched.at \cap span = {}

\* README: "executes the last cron statement that happens to involve said
\* device(s)".  When the program starts, the device is set as the statement of
\* the crontab sets it that was due last.
DueAgo(sched) == CHOOSE d \in 0 .. YearLen - 1 :
  /\ (now - d) % YearLen \in sched.at
  /\ \A f \in 0 .. d - 1 : (now - f) % YearLen \notin sched.at
LastStatements ==
  LET all == {i \in ActiveAt(crontab) : crontab[i].key.do \in {"off", "on"}}
  IN  {i \in all : \A j \in all : DueAgo(crontab[i].key.sched) <= DueAgo(crontab[j].key.sched)}
CaughtUp ==
  [][Boot /\ LastStatements # {} =>
       \E i \in LastStatements : device' = Effect(crontab[i].key.do)]_vars

\* No lookup in the crontab's arrays comes to nothing, so that neither a user's
\* command nor a line the server wrote itself ends the server.  Users who send
\* what ends it in any state (Failing, a silent client) violate this at once.
ServerAlive == pc # "dead"

\* Nothing of the two-part command c is left in the crontab.
Over(c) ==
  LET b == KeyBegin(c)
      e == KeyEnd(c)
  IN  \A i \in DOMAIN crontab : IsEntry(crontab[i]) =>
        /\ crontab[i].tmp => crontab[i].key \notin {b, e}
        /\ IsClient(crontab[i]) =>
             <<crontab[i].key.b, crontab[i].key.e>> # <<b, e>>
        /\ crontab[i].by # <<b, e>>

\* Every two-part command is over some time: its begin, end, clear and unhold
\* lines are gone and what it held is released (unhold_jobs_delete_jobs).
CourseEnds == \A c \in TwoParts : Scheduled(c) ~> Over(c)

=============================================================================
