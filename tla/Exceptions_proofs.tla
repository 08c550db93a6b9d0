--------------------------- MODULE Exceptions_proofs ---------------------------
(***************************************************************************)
(* Theorems about the two-part commands of module SmartDeviceSvr when they *)
(* come one at a time: what one of them puts on hold is named by its unhold*)
(* line.  Nothing is said here of the crontab, the commands, the length of *)
(* the year or the bounds but what OneByOne says.                          *)
(***************************************************************************)
EXTENDS SmartDeviceSvr_proofs

\* The assumptions of the runs one_exception and undo.  What "hold all" puts on
\* hold is listed nowhere and shifts the arrays of get_cron_jobs() against
\* each other.
OneByOne ==
  /\ Punctual /\ OneAtATime
  /\ OnHoldAt(Crontab0) = {}
  /\ \A c \in UserCommands : c.kind # "hold_all"

\* No two-part command waits behind a "cancel last", which may bring back one
\* that is not over.  This is what becomes of the second part of OneAtATime
\* (Undoing) while commands wait (NextOrderly).
Orderly ==
  \A n \in DOMAIN inbox : inbox[n].kind = "two" =>
    /\ req.kind # "cancel_last"
    /\ \A m \in 1 .. n - 1 : inbox[m].kind # "cancel_last"

-----------------------------------------------------------------------------
(* The inductive invariant *)

ClientsAt(tab) == {i \in DOMAIN tab : IsClient(tab[i])}
NoClients(tab) == ClientsAt(tab) = {}

\* There is one line of the server's own at a time, and it has no mark.
OneClient(tab) ==
  /\ \A i, j \in ClientsAt(tab) : i = j
  /\ \A i \in ClientsAt(tab) : ~tab[i].onhold /\ ~tab[i].tmp

\* Whatever is on hold is listed by an unhold line of its instigators,
Listed(tab) ==
  \A i \in OnHoldAt(tab) : \E u \in ClientsAt(tab) :
    /\ tab[u].key.do = "unhold"
    /\ <<tab[u].key.b, tab[u].key.e>> = tab[i].by
    /\ tab[i].key \in ToSet(tab[u].held)

\* and two lines with one md5sum are listed twice.
Twice(s, k) == \E p, q \in DOMAIN s : p # q /\ s[p] = k /\ s[q] = k
Counted(tab) ==
  \A i, j \in OnHoldAt(tab) : i # j /\ tab[i].key = tab[j].key =>
    \A u \in ClientsAt(tab) : Twice(tab[u].held, tab[i].key)

Tidy(tab) == OneClient(tab) /\ Listed(tab) /\ Counted(tab)

\* What a client line sent is what the client line of the crontab sends.
Sends(tab, m) == \A i \in ClientsAt(tab) : MessageOf(tab[i]) = m

\* A client's connection is the first, and is handled before any other.
CurrentClient ==
  /\ \A n \in DOMAIN inbox : inbox[n].kind \in {"clear", "unhold"} =>
       n = 1 /\ req = NoReq /\ Sends(crontab, inbox[n])
  /\ req.kind \in {"clear", "unhold"} => Sends(crontab, req)

TwoKinds == {"two", "clear", "unhold"}

\* While a two-part command waits there is no other.
AloneInInbox ==
  \A n \in DOMAIN inbox : inbox[n].kind = "two" =>
    /\ NoClients(crontab) /\ NoClients(work)
    /\ req.kind \notin TwoKinds
    /\ \A m \in 1 .. n - 1 : inbox[m].kind \notin TwoKinds

\* Nor when its lines are added; afterwards the clear line is its own.
ClearOf(c) == [kind |-> "clear", b |-> KeyBegin(c), e |-> KeyEnd(c)]
AloneInHand ==
  req.kind = "two" =>
    /\ pc = "dispatch" => NoClients(crontab)
    /\ pc = "submit" => Sends(work, ClearOf(req))
    /\ pc = "clear_now" => Sends(crontab, ClearOf(req))

\* A command that has nothing to do with them makes no client lines.
WorkFromCrontab ==
  /\ pc \notin {"submit", "resubmit"} => work = << >>
  /\ pc = "submit" /\ req.kind \notin {"two", "clear", "cancel_last"} /\ NoClients(crontab) =>
       NoClients(work)

TidyTables == {tab \in Seq(Line) : Tidy(tab)}

HeldInv ==
  /\ Tidy(crontab)
  /\ Tidy(work)
  /\ history \in Seq(TidyTables)
  /\ CurrentClient
  /\ AloneInInbox
  /\ AloneInHand
  /\ WorkFromCrontab

-----------------------------------------------------------------------------
(* What keeps a table tidy *)

\* With nothing on hold there is nothing to be listed.
LEMMA NoneOnHold ==
  ASSUME NEW tab, OnHoldAt(tab) = {}, OneClient(tab)
  PROVE  Tidy(tab)
BY DEF Tidy, Listed, Counted

\* And nothing is on hold if there is no unhold line.
LEMMA NoUnholdNoneOnHold ==
  ASSUME NEW tab, Tidy(tab), \A i \in ClientsAt(tab) : tab[i].key.do # "unhold"
  PROVE  OnHoldAt(tab) = {}
BY DEF Tidy, Listed

\* A loop that passes over no line of the server's own leaves a tidy table: it
\* has nothing that was not there, and whatever is on hold is still listed.
LEMMA PartTidy ==
  ASSUME NEW tab \in Seq(Line), NEW new \in Seq(Line), Part(tab, new)
  PROVE  /\ OneClient(tab) => OneClient(new)
         /\ NoClients(tab) => NoClients(new)
         /\ OnHoldAt(tab) = {} => OnHoldAt(new) = {}
         /\ \A m : Sends(tab, m) => Sends(new, m)
         /\ /\ Tidy(tab)
            /\ \A i \in ClientsAt(tab) : \E n \in DOMAIN new : new[n] = tab[i]
            => Tidy(new)
<1>1. PICK f \in Injection(DOMAIN new, DOMAIN tab) : \A k \in DOMAIN new : new[k] = tab[f[k]]
  BY DEF Part, From
<1>2. /\ \A k \in DOMAIN new : f[k] \in DOMAIN tab /\ new[k] = tab[f[k]]
      /\ \A k, l \in DOMAIN new : k # l => f[k] # f[l]
  BY <1>1 DEF Injection, IsInjective
<1>3. /\ \A k \in ClientsAt(new) : k \in DOMAIN new /\ f[k] \in ClientsAt(tab) /\ new[k] = tab[f[k]]
      /\ \A k \in OnHoldAt(new) : k \in DOMAIN new /\ f[k] \in OnHoldAt(tab) /\ new[k] = tab[f[k]]
  BY <1>2 DEF ClientsAt, OnHoldAt
<1>4. OneClient(tab) => OneClient(new)
  <2> SUFFICES ASSUME OneClient(tab) PROVE OneClient(new)
    OBVIOUS
  <2>1. \A k, l \in ClientsAt(new) : f[k] = f[l]
    BY <1>3 DEF OneClient
  <2>2. \A k, l \in ClientsAt(new) : k = l
    BY <1>2, <1>3, <2>1
  <2>3. \A k \in ClientsAt(new) : ~new[k].onhold /\ ~new[k].tmp
    BY <1>3 DEF OneClient
  <2> QED BY <2>2, <2>3 DEF OneClient
<1>5. (NoClients(tab) => NoClients(new)) /\ (OnHoldAt(tab) = {} => OnHoldAt(new) = {})
  BY <1>3 DEF NoClients
<1>6. \A m : Sends(tab, m) => Sends(new, m)
  BY <1>3 DEF Sends
<1>7. ASSUME Tidy(tab), \A i \in ClientsAt(tab) : \E n \in DOMAIN new : new[n] = tab[i]
      PROVE  Listed(new)
  <2> SUFFICES ASSUME NEW k \in OnHoldAt(new)
               PROVE  \E u \in ClientsAt(new) :
                        /\ new[u].key.do = "unhold"
                        /\ <<new[u].key.b, new[u].key.e>> = new[k].by
                        /\ new[k].key \in ToSet(new[u].held)
    BY DEF Listed
  <2>1. PICK u \in ClientsAt(tab) :
          /\ tab[u].key.do = "unhold"
          /\ <<tab[u].key.b, tab[u].key.e>> = tab[f[k]].by
          /\ tab[f[k]].key \in ToSet(tab[u].held)
    BY <1>3, <1>7 DEF Tidy, Listed
  <2>2. PICK n \in DOMAIN new : new[n] = tab[u]
    BY <1>7
  <2>3. n \in ClientsAt(new)
    BY <2>2 DEF ClientsAt
  <2> QED BY <1>3, <2>1, <2>2, <2>3
<1>8. ASSUME Tidy(tab)
      PROVE  Counted(new)
  <2> SUFFICES ASSUME NEW k \in OnHoldAt(new), NEW l \in OnHoldAt(new), k # l,
                      new[k].key = new[l].key, NEW u \in ClientsAt(new)
               PROVE  Twice(new[u].held, new[k].key)
    BY DEF Counted
  <2>1. /\ f[k] \in OnHoldAt(tab) /\ f[l] \in OnHoldAt(tab) /\ f[u] \in ClientsAt(tab)
        /\ new[k] = tab[f[k]] /\ new[l] = tab[f[l]] /\ new[u] = tab[f[u]]
    BY <1>3
  <2>2. f[k] # f[l]
    BY <1>2, <1>3
  <2>3. Twice(tab[f[u]].held, tab[f[k]].key)
    BY <1>8, <2>1, <2>2 DEF Tidy, Counted
  <2> QED BY <2>1, <2>3
<1> QED BY <1>4, <1>5, <1>6, <1>7, <1>8 DEF Tidy

\* submit_crontab() drops no client line but behind an equal one.
LEMMA SubmitTidy ==
  ASSUME NEW tab \in Seq(Line)
  PROVE  /\ Tidy(tab) => Tidy(submit_crontab(tab))
         /\ NoClients(tab) => NoClients(submit_crontab(tab))
         /\ \A m : Sends(tab, m) => Sends(submit_crontab(tab), m)
<1>1. submit_crontab(tab) \in Seq(Line) /\ Part(tab, submit_crontab(tab))
  BY SubmitLines
<1>2. \A i \in ClientsAt(tab) : tab[i] # Blank /\ i \in DOMAIN tab
  BY DEF ClientsAt, IsClient, IsEntry, Blank
<1>3. \A i \in ClientsAt(tab) :
        \E n \in DOMAIN submit_crontab(tab) : submit_crontab(tab)[n] = tab[i]
  BY <1>2, SubmitLines
<1> QED BY <1>1, <1>3, PartTidy

\* A line put at the end that is neither on hold nor the server's own.
LEMMA AppendTidy ==
  ASSUME NEW tab \in Seq(Line), NEW x \in Line, ~IsClient(x), ~OnHold(x)
  PROVE  /\ Append(tab, x) \in Seq(Line)
         /\ Tidy(tab) => Tidy(Append(tab, x))
         /\ NoClients(tab) => NoClients(Append(tab, x))
         /\ OnHoldAt(Append(tab, x)) = OnHoldAt(tab)
         /\ \A m : Sends(tab, m) => Sends(Append(tab, x), m)
<1> DEFINE new == Append(tab, x)
<1>1. /\ new \in Seq(Line) /\ Len(new) = Len(tab) + 1 /\ Len(tab) \in Nat
      /\ \A i \in 1 .. Len(tab) : new[i] = tab[i]
      /\ new[Len(tab) + 1] = x
      /\ DOMAIN tab = 1 .. Len(tab)
      /\ DOMAIN new = 1 .. Len(tab) + 1
  BY AppendProperties, LenProperties
<1> HIDE DEF new
<1>2. ClientsAt(new) = ClientsAt(tab) /\ OnHoldAt(new) = OnHoldAt(tab)
  BY <1>1 DEF ClientsAt, OnHoldAt
<1>3. \A i \in ClientsAt(tab) \cup OnHoldAt(tab) : new[i] = tab[i]
  BY <1>1 DEF ClientsAt, OnHoldAt
<1>4. OneClient(tab) => OneClient(new)
  BY <1>2, <1>3 DEF OneClient
<1>5. Listed(tab) => Listed(new)
  BY <1>2, <1>3 DEF Listed
<1>6. Counted(tab) => Counted(new)
  BY <1>2, <1>3 DEF Counted
<1>7. \A m : Sends(tab, m) => Sends(new, m)
  BY <1>2, <1>3 DEF Sends
<1> QED BY <1>1, <1>2, <1>4, <1>5, <1>6, <1>7 DEF Tidy, NoClients, new

\* The crontab as it is read.
LEMMA CronAllTidy ==
  ASSUME NEW tab \in Seq(Line)
  PROVE  /\ cron_all(tab) \in Seq(Line)
         /\ Tidy(tab) => Tidy(cron_all(tab))
         /\ NoClients(tab) => NoClients(cron_all(tab))
         /\ OnHoldAt(cron_all(tab)) = OnHoldAt(tab)
         /\ \A m : Sends(tab, m) => Sends(cron_all(tab), m)
<1>1. Blank \in Line /\ ~IsClient(Blank) /\ ~OnHold(Blank)
  BY DEF Line, Blank, IsClient, OnHold, IsEntry
<1> QED BY <1>1, AppendTidy DEF cron_all

\* A line about the device is not one of the server's own.
LEMMA DeviceLineIsNone ==
  ASSUME NEW k \in DeviceKey, NEW tmp \in BOOLEAN
  PROVE  /\ DeviceLine(k, tmp) \in Line
         /\ ~IsClient(DeviceLine(k, tmp)) /\ ~OnHold(DeviceLine(k, tmp))
<1>1. << >> \in Seq(Key) /\ << >> \in Instigator
  BY EmptySeq DEF Instigator
<1>2. k.do \notin {"clear", "unhold"}
  BY DEF DeviceKey, Action
<1> QED BY <1>1, <1>2 DEF DeviceLine, Line, Entry, Key, IsClient, OnHold

\* add_new_schedule() for one line.
LEMMA AddBeginTidy ==
  ASSUME NEW tab \in Seq(Line), NEW b \in DeviceKey
  PROVE  /\ add_begin(tab, b) \in Seq(Line)
         /\ Tidy(tab) => Tidy(add_begin(tab, b))
         /\ NoClients(tab) => NoClients(add_begin(tab, b))
BY DeviceLineIsNone, AppendTidy DEF add_begin

\* A line of the server's own is added to a table that has none, and nothing
\* on hold.
LEMMA AppendClientTidy ==
  ASSUME NEW tab \in Seq(Line), NoClients(tab), OnHoldAt(tab) = {},
         NEW x \in Line, ~OnHold(x), IsEntry(x), ~x.tmp
  PROVE  /\ Tidy(Append(tab, x))
         /\ \A m : (IsClient(x) => MessageOf(x) = m) => Sends(Append(tab, x), m)
<1> DEFINE new == Append(tab, x)
           n == Len(tab) + 1
<1>1. /\ new \in Seq(Line) /\ Len(new) = n /\ Len(tab) \in Nat
      /\ \A i \in 1 .. Len(tab) : new[i] = tab[i]
      /\ new[n] = x
      /\ DOMAIN tab = 1 .. Len(tab)
      /\ DOMAIN new = 1 .. n
  BY AppendProperties, LenProperties
<1> HIDE DEF new
<1>2. \A i \in 1 .. n : i = n \/ i \in 1 .. Len(tab)
  BY <1>1
<1>3. \A i \in ClientsAt(new) : i = n /\ new[i] = x
  BY <1>1, <1>2 DEF ClientsAt, NoClients
<1>4. OnHoldAt(new) = {}
  BY <1>1, <1>2 DEF OnHoldAt
<1>5. OneClient(new)
  BY <1>3 DEF OneClient, OnHold
<1>6. \A m : (IsClient(x) => MessageOf(x) = m) => Sends(new, m)
  BY <1>3 DEF Sends, ClientsAt
<1> QED BY <1>4, <1>5, <1>6, NoneOnHold DEF new

\* add_new_schedule() for a two-part command: what it adds sends the clear of
\* the two lines, if anything.
LEMMA AddBeginEndTidy ==
  ASSUME NEW tab \in Seq(Line), Tidy(tab), NoClients(tab),
         NEW b \in DeviceKey, NEW e \in DeviceKey, b.sched.rec = e.sched.rec,
         NEW year, NEW minute
  PROVE  /\ Tidy(add_begin_end(tab, b, e, year, minute))
         /\ Sends(add_begin_end(tab, b, e, year, minute), [kind |-> "clear", b |-> b, e |-> e])
<1> DEFINE one == add_begin(tab, b)
           both == one \o <<DeviceLine(e, TRUE)>>
           new == add_begin_end(tab, b, e, year, minute)
           m == [kind |-> "clear", b |-> b, e |-> e]
<1>1. one \in Seq(Line) /\ Tidy(one) /\ NoClients(one)
  BY AddBeginTidy
<1>2. DeviceLine(e, TRUE) \in Line
  BY DeviceLineIsNone
<1>3. both = Append(one, DeviceLine(e, TRUE))
  <2> HIDE DEF one
  <2> QED BY <1>1, <1>2, AppendIsConcat
<1>4. both \in Seq(Line) /\ Tidy(both) /\ NoClients(both)
  <2> HIDE DEF one
  <2> QED BY <1>1, <1>3, DeviceLineIsNone, AppendTidy
<1> HIDE DEF both
<1>5. OnHoldAt(both) = {}
  BY <1>4, NoUnholdNoneOnHold DEF NoClients
<1>6. CASE b.sched.rec \/ tbl_is_now_p(b.sched, minute)
  <2>1. new = both
    BY <1>6 DEF add_begin_end, both
  <2>2. Sends(both, m)
    BY <1>4 DEF Sends, NoClients
  <2> QED BY <1>4, <2>1, <2>2
<1>7. CASE ~(b.sched.rec \/ tbl_is_now_p(b.sched, minute))
  <2> DEFINE x == ClientLine(clear_tbl(b, year, minute), "clear", b, e, << >>)
  <2>1. new = Append(both, x)
    BY <1>7 DEF add_begin_end, both
  <2>2. b \in OnceKey /\ e \in OnceKey
    BY <1>7, OnceDevice
  <2>3. x \in Line
    BY <2>2, ClearLineType
  <2>4. ~OnHold(x) /\ IsEntry(x) /\ ~x.tmp /\ MessageOf(x) = m
    BY DEF ClientLine, OnHold, IsEntry, MessageOf
  <2> HIDE DEF x
  <2> QED BY <1>4, <1>5, <2>1, <2>3, <2>4, AppendClientTidy
<1> QED BY <1>6, <1>7

\* unhold_all_jobs() leaves nothing on hold and the server's own line as it is.
LEMMA UnholdAllTidy ==
  ASSUME NEW tab \in Seq(Line), Tidy(tab)
  PROVE  /\ Tidy(unhold_all_jobs(tab))
         /\ NoClients(tab) => NoClients(unhold_all_jobs(tab))
<1> DEFINE new == unhold_all_jobs(tab)
<1>1. SameButMarks(tab, new) /\ DOMAIN new = DOMAIN tab
  BY UnholdSame DEF unhold_all_jobs, unhold_lines
<1>2. ASSUME NEW i \in DOMAIN tab, IsEntry(tab[i])
      PROVE  ~new[i].onhold
  <2>1. tab[i] \in Line
    BY LenProperties, ElementOfSeq
  <2>2. tab[i] \in Entry
    BY <1>2, <2>1, EntryOfLine
  <2>3. CASE tab[i].onhold
    <3>1. new[i] = TakeOffHold(tab[i])
      BY <1>2, <2>3 DEF unhold_all_jobs, unhold_lines, OnHoldAt, OnHold
    <3> QED BY <2>2, <3>1 DEF TakeOffHold, Entry
  <2>4. CASE ~tab[i].onhold
    <3>1. new[i] = tab[i]
      BY <1>2, <2>4 DEF unhold_all_jobs, unhold_lines, OnHoldAt, OnHold
    <3> QED BY <2>4, <3>1
  <2> QED BY <2>3, <2>4
<1> HIDE DEF new
<1>3. OnHoldAt(new) = {}
  BY <1>1, <1>2 DEF OnHoldAt, OnHold, SameButMarks
<1>4. ClientsAt(new) = ClientsAt(tab)
  BY <1>1 DEF ClientsAt, IsClient, SameButMarks
<1>5. \A i \in ClientsAt(tab) : ~new[i].tmp /\ ~new[i].onhold
  <2>1. \A i \in ClientsAt(tab) : ~tab[i].tmp /\ i \in DOMAIN tab /\ IsEntry(tab[i])
    BY DEF Tidy, OneClient, ClientsAt, IsClient
  <2>2. \A i \in ClientsAt(tab) : new[i].tmp = tab[i].tmp
    BY <1>1, <2>1 DEF SameButMarks
  <2> QED BY <1>2, <2>1, <2>2
<1>6. OneClient(new)
  BY <1>4, <1>5 DEF OneClient, Tidy
<1> QED BY <1>3, <1>4, <1>6, NoneOnHold DEF new, NoClients

\* delete_old_cron_jobs() deletes #TMP lines, on hold or not.
LEMMA DeleteOldTidy ==
  ASSUME NEW tab \in Seq(Line), Tidy(tab), NEW minute
  PROVE  /\ Tidy(delete_old_cron_jobs(tab, minute))
         /\ NoClients(tab) => NoClients(delete_old_cron_jobs(tab, minute))
<1> DEFINE D == {i \in tmp_line_numbers(tab) :
                   schedule_to_epoch(tab[i].key.sched) < minute - OldAge}
           new == tblDeleteLines(tab, D)
<1>1. \A i \in ClientsAt(tab) : i \in (DOMAIN tab) \ D
  BY DEF tmp_line_numbers, Tidy, OneClient, ClientsAt
<1> HIDE DEF D
<1>2. /\ new \in Seq(Line) /\ Part(tab, new)
      /\ \A i \in ClientsAt(tab) : \E n \in DOMAIN new : new[n] = tab[i]
  BY <1>1, DeleteFrom
<1>3. Tidy(new) /\ (NoClients(tab) => NoClients(new))
  <2> HIDE DEF new
  <2> QED BY <1>2, PartTidy DEF Tidy
<1> QED BY <1>3 DEF delete_old_cron_jobs, D

\* The arrays of get_cron_jobs() agree while nothing is on hold: the md5sum at a
\* job's place is that of the line at the job's line number.
LEMMA ArraysAgree ==
  ASSUME NEW tab \in Seq(Line), OnHoldAt(tab) = {}
  PROVE  /\ DOMAIN cronjob_md5sumhexa(tab) = DOMAIN cronjob_line_numbers(tab)
         /\ \A k \in DOMAIN cronjob_line_numbers(tab) :
              cronjob_md5sumhexa(tab)[k] = tab[cronjob_line_numbers(tab)[k]].key
<1> DEFINE A == ActiveAt(tab)
<1>1. cronjob_line_numbers(tab) = Ascending(A) /\ DOMAIN Ascending(A) = 1 .. Cardinality(A)
  BY DEF cronjob_line_numbers, Ascending
<1>2. ActiveAt(tab) \cup OnHoldAt(tab) = A
  OBVIOUS
<1>3. /\ DOMAIN KeepAt(tab, A) = 1 .. Cardinality(A)
      /\ \A k \in 1 .. Cardinality(A) : KeepAt(tab, A)[k] = tab[Ascending(A)[k]]
  BY DEF KeepAt
<1>4. /\ DOMAIN cronjob_md5sumhexa(tab) = 1 .. Cardinality(A)
      /\ \A k \in 1 .. Cardinality(A) : cronjob_md5sumhexa(tab)[k] = KeepAt(tab, A)[k].key
  BY <1>2, <1>3 DEF cronjob_md5sumhexa
<1> HIDE DEF A
<1> QED BY <1>1, <1>3, <1>4

\* A client line that sends a clear is a clear line of the same two lines, and
\* so with unhold.
LEMMA SendsClear ==
  ASSUME NEW tab, NEW b, NEW e, Sends(tab, [kind |-> "clear", b |-> b, e |-> e]),
         NEW i \in ClientsAt(tab)
  PROVE  tab[i].key.do = "clear" /\ tab[i].key.b = b /\ tab[i].key.e = e
BY DEF Sends, MessageOf

\* The same of an unhold line.
LEMMA SendsUnhold ==
  ASSUME NEW tab, NEW m, m.kind = "unhold", Sends(tab, m), NEW i \in ClientsAt(tab)
  PROVE  /\ tab[i].key.do = "unhold" /\ tab[i].key.b = m.b /\ tab[i].key.e = m.e
         /\ tab[i].held = m.held
BY DEF Sends, MessageOf, ClientsAt, IsClient

\* What clear_schedule_for() puts on hold, with nothing on hold before: active
\* lines of scripts, each at one place of the arrays.
LEMMA HoldScripts ==
  ASSUME NEW tab \in Seq(Line), OnHoldAt(tab) = {}, NEW b \in OnceKey, NEW e \in OnceKey,
         ~clear_fails(tab, b, e), ~clear_returns(tab, b, e), NEW minute,
         NEW k \in jobs_to_hold(tab, b, e, minute)
  PROVE  /\ k \in DOMAIN cronjob_line_numbers(tab)
         /\ cronjob_line_numbers(tab)[k] \in ActiveAt(tab)
         /\ ~IsClient(tab[cronjob_line_numbers(tab)[k]])
<1> DEFINE jobs == cronjob_line_numbers(tab)
           sums == cronjob_md5sumhexa(tab)
           n == md5sumhexa_to_jobnum(tab, e)
           x_e == tab[jobs[n]]
           x == tab[jobs[k]]
<1>1. k \in DOMAIN jobs /\ SameDisposition(x, x_e)
  BY DEF jobs_to_hold
<1>2. jobs[k] \in ActiveAt(tab)
  BY <1>1, ParallelArrays
<1>3. n # 0
  BY DEF clear_fails, clear_returns
<1>4. n \in DOMAIN sums /\ sums[n] = e
  <2> DEFINE I == {i \in DOMAIN sums : sums[i] = e}
  <2>1. sums \in Seq(Key) /\ n = LastOf(I)
    BY ParallelArrays DEF md5sumhexa_to_jobnum
  <2>2. I \in SUBSET (1 .. Len(sums)) /\ Len(sums) \in Nat
    BY <2>1, LenProperties
  <2>3. n \in I \cup {0}
    <3> HIDE DEF I, n
    <3> QED BY <2>1, <2>2, FirstLast
  <2> QED BY <1>3, <2>3
<1>5. x_e.key = e
  BY <1>4, ArraysAgree
<1>6. e.do \in Action
  BY DEF OnceKey
<1>7. x \in Line /\ IsEntry(x)
  BY <1>2, LenProperties, ElementOfSeq DEF ActiveAt, Active
<1>8. x.key \in Key
  BY <1>7, EntryOfLine
<1>9. [x.key EXCEPT !.sched = e.sched].do = x.key.do
  BY <1>8 DEF Key, DeviceKey, ClientKey
<1>10. x.key.do = e.do
  BY <1>1, <1>5, <1>9 DEF SameDisposition
<1> QED BY <1>1, <1>2, <1>6, <1>10 DEF IsClient, Action

\* The list of an unhold line has the md5sum of every job that is held, and
\* twice that of two.
LEMMA ListHasAll ==
  ASSUME NEW s \in Seq(Key), NEW I \in SUBSET (DOMAIN s)
  PROVE  /\ \A k \in I : s[k] \in ToSet(KeepAt(s, I))
         /\ \A k, l \in I : k # l /\ s[k] = s[l] => Twice(KeepAt(s, I), s[k])
<1>1. DOMAIN s = 1 .. Len(s) /\ Len(s) \in Nat
  BY LenProperties
<1>2. \A i \in I : \E k \in 1 .. Cardinality(I) : Ascending(I)[k] = i
  BY <1>1, AscendingOnto
<1>3. /\ DOMAIN KeepAt(s, I) = 1 .. Cardinality(I)
      /\ \A k \in 1 .. Cardinality(I) : KeepAt(s, I)[k] = s[Ascending(I)[k]]
  BY DEF KeepAt
<1>4. \A i \in I : s[i] \in ToSet(KeepAt(s, I))
  BY <1>2, <1>3 DEF ToSet
<1>5. ASSUME NEW k \in I, NEW l \in I, k # l, s[k] = s[l]
      PROVE  Twice(KeepAt(s, I), s[k])
  <2>1. PICK p \in 1 .. Cardinality(I) : Ascending(I)[p] = k
    BY <1>2
  <2>2. PICK q \in 1 .. Cardinality(I) : Ascending(I)[q] = l
    BY <1>2
  <2>3. p # q /\ KeepAt(s, I)[p] = s[k] /\ KeepAt(s, I)[q] = s[k]
    BY <1>3, <1>5, <2>1, <2>2
  <2> QED BY <1>3, <2>3 DEF Twice
<1> QED BY <1>4, <1>5

\* clear_schedule_for() puts lines on hold, lists them all in the unhold line it
\* adds, and takes the clear line that called it.
LEMMA ClearTidy ==
  ASSUME NEW tab \in Seq(Line), Tidy(tab), NEW b \in OnceKey, NEW e \in OnceKey,
         Sends(tab, [kind |-> "clear", b |-> b, e |-> e]), NEW minute,
         ~clear_fails(tab, b, e), ~clear_returns(tab, b, e)
  PROVE  Tidy(clear_schedule_for(tab, b, e, minute))
<1> DEFINE jobs == cronjob_line_numbers(tab)
           hold == jobs_to_hold(tab, b, e, minute)
           sums == cronjob_md5sumhexa(tab)
           held == KeepAt(sums, hold)
           lines == {jobs[k] : k \in hold}
           new == hold_lines(tab, lines, <<b, e>>)
           unhold == ClientLine(schedule_end(tab, e), "unhold", b, e, held)
           longer == Append(new, unhold)
           n == Len(tab) + 1
           C == {i \in ActiveAt(tab) :
                   /\ tab[i].key.do = "clear"
                   /\ {tab[i].key.b, tab[i].key.e} \cap {b, e} # {}}
           line == linenum_of_clear_schedule(tab, b, e)
           result == clear_schedule_for(tab, b, e, minute)
<1>0. result = tblDeleteLines(longer, {line})
  BY DEF clear_schedule_for
<1>1. OnHoldAt(tab) = {}
  <2>1. \A i \in ClientsAt(tab) : tab[i].key.do # "unhold"
    BY SendsClear
  <2> QED BY <2>1, NoUnholdNoneOnHold
<1>2. /\ \A k \in hold : k \in DOMAIN jobs /\ jobs[k] \in ActiveAt(tab) /\ ~IsClient(tab[jobs[k]])
      /\ \A k \in hold : sums[k] = tab[jobs[k]].key
      /\ hold \in SUBSET (DOMAIN sums) /\ sums \in Seq(Key)
  <2>1. \A k \in hold : k \in DOMAIN jobs /\ jobs[k] \in ActiveAt(tab) /\ ~IsClient(tab[jobs[k]])
    BY <1>1, HoldScripts
  <2>2. DOMAIN sums = DOMAIN jobs /\ \A k \in DOMAIN jobs : sums[k] = tab[jobs[k]].key
    BY <1>1, ArraysAgree
  <2>3. sums \in Seq(Key)
    BY ParallelArrays
  <2> HIDE DEF hold, sums, jobs
  <2> QED BY <2>1, <2>2, <2>3
<1> HIDE DEF hold, sums, jobs
<1>3. /\ held \in Seq(Key)
      /\ \A k \in hold : sums[k] \in ToSet(held)
      /\ \A k, l \in hold : k # l /\ sums[k] = sums[l] => Twice(held, sums[k])
  BY <1>2, KeepAtLines, ListHasAll
<1> HIDE DEF held
<1>4. lines \in SUBSET ActiveAt(tab) /\ <<b, e>> \in Instigator
  BY <1>2, OnceKeys DEF Instigator
<1>5. SameButMarks(tab, new)
  <2> HIDE DEF lines
  <2> QED BY <1>4, HoldSame
<1>6. unhold \in Line
  BY <1>3, ScheduleEndType, WrittenLines
<1>7. /\ IsClient(unhold) /\ ~OnHold(unhold) /\ ~unhold.tmp /\ ~unhold.onhold
      /\ unhold.key.do = "unhold" /\ unhold.key.b = b /\ unhold.key.e = e
      /\ unhold.held = held
  BY DEF ClientLine, IsClient, OnHold, IsEntry
<1> HIDE DEF unhold
<1>8. /\ Len(tab) \in Nat /\ DOMAIN tab = 1 .. Len(tab)
      /\ DOMAIN new = 1 .. Len(tab) /\ new \in Seq(Line) /\ Len(new) = Len(tab)
  BY <1>5, LenProperties DEF SameButMarks
<1>9. \A i \in DOMAIN tab : IF i \in lines THEN new[i] = PutOnHold(tab[i], <<b, e>>)
                                           ELSE new[i] = tab[i]
  BY DEF hold_lines
<1> HIDE DEF new
<1>10. /\ longer \in Seq(Line) /\ DOMAIN longer = 1 .. n
       /\ \A i \in 1 .. Len(tab) : longer[i] = new[i]
       /\ longer[n] = unhold
  BY <1>6, <1>8, AppendProperties, LenProperties
<1>11. \A i \in 1 .. n : i = n \/ i \in 1 .. Len(tab)
  BY <1>8
<1> HIDE DEF longer
<1>12. ASSUME NEW i \in lines
       PROVE  /\ i \in 1 .. Len(tab) /\ ~IsClient(longer[i])
              /\ longer[i].by = <<b, e>> /\ longer[i].key = tab[i].key
  <2>1. i \in DOMAIN tab /\ IsEntry(tab[i]) /\ ~IsClient(tab[i])
    BY <1>2, <1>4 DEF ActiveAt, Active
  <2>2. tab[i] \in Entry
    BY <1>8, <2>1, ElementOfSeq, EntryOfLine
  <2>3. longer[i] = PutOnHold(tab[i], <<b, e>>)
    BY <1>8, <1>9, <1>10, <2>1
  <2>4. longer[i].by = <<b, e>> /\ longer[i].key = tab[i].key
    BY <2>2, <2>3 DEF PutOnHold, Entry
  <2> QED BY <1>8, <2>1, <2>4 DEF IsClient
<1>13. ASSUME NEW i \in OnHoldAt(longer)
       PROVE  i \in lines
  <2>1. i # n /\ i \in 1 .. n
    BY <1>7, <1>10 DEF OnHoldAt
  <2>2. i \in DOMAIN tab /\ longer[i] = new[i]
    BY <1>8, <1>10, <1>11, <2>1
  <2>3. new[i] # tab[i]
    BY <1>1, <2>2 DEF OnHoldAt
  <2> QED BY <1>9, <2>2, <2>3
<1>14. ASSUME NEW i \in ClientsAt(longer), i # n
       PROVE  i \in ClientsAt(tab)
  <2>1. i \in DOMAIN tab /\ longer[i] = new[i] /\ i \notin lines
    BY <1>8, <1>10, <1>11, <1>12, <1>14 DEF ClientsAt
  <2>2. longer[i] = tab[i]
    BY <1>9, <2>1
  <2> QED BY <2>1, <2>2 DEF ClientsAt
<1>15. \A i \in ClientsAt(tab) : i = line
  <2> SUFFICES ASSUME NEW i \in ClientsAt(tab) PROVE i = line
    OBVIOUS
  <2>1. i \in C
    <3>1. i \in ActiveAt(tab)
      BY DEF Tidy, OneClient, ClientsAt, ActiveAt, Active, IsClient
    <3>2. tab[i].key.do = "clear" /\ tab[i].key.b = b
      BY SendsClear
    <3> QED BY <3>1, <3>2
  <2>2. C \in SUBSET (1 .. Len(tab)) /\ line = FirstOf(C)
    BY <1>8 DEF ActiveAt, linenum_of_clear_schedule
  <2>3. line \in C
    <3> HIDE DEF C, line
    <3> QED BY <1>8, <2>1, <2>2, FirstLast
  <2>4. line \in ClientsAt(tab)
    BY <2>3 DEF ClientsAt, ActiveAt, Active, IsClient
  <2> QED BY <2>4 DEF Tidy, OneClient
<1>16. line # n
  <2>1. C \in SUBSET (1 .. Len(tab)) /\ line = FirstOf(C)
    BY <1>8 DEF ActiveAt, linenum_of_clear_schedule
  <2>2. line \in C \cup {0}
    <3> HIDE DEF C, line
    <3> QED BY <1>8, <2>1, FirstLast
  <2>3. line \in 0 .. Len(tab)
    <3> HIDE DEF C, line
    <3> QED BY <1>8, <2>1, <2>2
  <2> QED BY <1>8, <2>3
<1> HIDE DEF line, result
<1>17. From(longer, (DOMAIN longer) \ {line}, result)
  BY <1>10, <1>0, DeleteFrom
<1>18. PICK f \in Injection(DOMAIN result, (DOMAIN longer) \ {line}) :
         \A k \in DOMAIN result : result[k] = longer[f[k]]
  BY <1>17 DEF From
<1>19. /\ \A k \in DOMAIN result : f[k] \in DOMAIN longer /\ f[k] # line
       /\ \A k, l \in DOMAIN result : k # l => f[k] # f[l]
  BY <1>18 DEF Injection, IsInjective
<1>20. \A k \in ClientsAt(result) : f[k] = n /\ result[k] = unhold
  <2> SUFFICES ASSUME NEW k \in ClientsAt(result) PROVE f[k] = n /\ result[k] = unhold
    OBVIOUS
  <2>1. f[k] \in ClientsAt(longer) /\ f[k] # line
    BY <1>18, <1>19 DEF ClientsAt
  <2>2. f[k] = n
    BY <1>14, <1>15, <2>1
  <2> QED BY <1>10, <1>18, <2>2 DEF ClientsAt
<1>21. \A k \in OnHoldAt(result) : f[k] \in lines /\ result[k] = longer[f[k]]
  BY <1>13, <1>18, <1>19 DEF OnHoldAt
<1>22. PICK u \in DOMAIN result : result[u] = unhold
  <2>1. n \in (DOMAIN longer) \ {line}
    BY <1>8, <1>10, <1>16
  <2>2. \E k \in DOMAIN tblDeleteLines(longer, {line}) :
          tblDeleteLines(longer, {line})[k] = longer[n]
    <3> HIDE DEF n, lines, C
    <3> DEFINE gone == {line}
    <3>1. longer \in Seq(Line) /\ n \in (DOMAIN longer) \ gone
      BY <1>10, <2>1
    <3> HIDE DEF gone
    <3>2. \E k \in DOMAIN tblDeleteLines(longer, gone) :
            tblDeleteLines(longer, gone)[k] = longer[n]
      BY <3>1, DeleteFrom
    <3> QED BY <3>2 DEF gone
  <2> QED BY <1>10, <1>0, <2>2
<1>23. u \in ClientsAt(result)
  BY <1>7, <1>22 DEF ClientsAt
<1>24. OneClient(result)
  <2>1. \A k, l \in ClientsAt(result) : k = l
    BY <1>19, <1>20 DEF ClientsAt
  <2> QED BY <1>7, <1>20, <2>1 DEF OneClient
<1>25. \A i \in lines : \E k \in hold : i = jobs[k] /\ sums[k] = tab[i].key
  BY <1>2
<1>26. Listed(result)
  <2> SUFFICES ASSUME NEW k \in OnHoldAt(result)
               PROVE  <<b, e>> = result[k].by /\ result[k].key \in ToSet(held)
    BY <1>7, <1>22, <1>23 DEF Listed
  <2>1. /\ f[k] \in lines /\ result[k].by = <<b, e>>
        /\ result[k].key = tab[f[k]].key
    BY <1>12, <1>21
  <2> QED BY <1>3, <1>25, <2>1
<1>27. Counted(result)
  <2> SUFFICES ASSUME NEW k \in OnHoldAt(result), NEW l \in OnHoldAt(result), k # l,
                      result[k].key = result[l].key
               PROVE  Twice(held, result[k].key)
    BY <1>7, <1>20 DEF Counted
  <2>1. /\ f[k] \in lines /\ result[k].key = tab[f[k]].key
        /\ f[l] \in lines /\ result[l].key = tab[f[l]].key
        /\ f[k] # f[l]
    BY <1>12, <1>19, <1>21 DEF OnHoldAt
  <2>2. PICK p \in hold : f[k] = jobs[p] /\ sums[p] = tab[f[k]].key
    BY <1>25, <2>1
  <2>3. PICK q \in hold : f[l] = jobs[q] /\ sums[q] = tab[f[l]].key
    BY <1>25, <2>1
  <2>4. p # q /\ sums[p] = sums[q] /\ sums[p] = result[k].key
    BY <2>1, <2>2, <2>3
  <2> QED BY <1>3, <2>4
<1> QED BY <1>24, <1>26, <1>27 DEF Tidy, result

\* unhold_jobs_delete_jobs() releases whatever is on hold: all of it is in the
\* list, and of two lines with one md5sum the list would end the server.
LEMMA UnholdTidy ==
  ASSUME NEW tab \in Seq(Line), Tidy(tab), NEW b \in OnceKey, NEW e \in OnceKey,
         NEW held \in Seq(Key),
         Sends(tab, [kind |-> "unhold", b |-> b, e |-> e, held |-> held]),
         ~unhold_fails(tab, held, b, e)
  PROVE  /\ Tidy(unhold_jobs_delete_jobs(tab, held, b, e))
         /\ OnHoldAt(unhold_jobs_delete_jobs(tab, held, b, e)) = {}
         /\ NoClients(tab) => NoClients(unhold_jobs_delete_jobs(tab, held, b, e))
<1> DEFINE words == ToSet(unhold_words(held, b, e))
           lines == {onholdjob_linenum(tab, w) : w \in words}
           new == unhold_lines(tab, lines)
           D == {md5sumhexa_to_linenum(tab, b), md5sumhexa_to_linenum(tab, e),
                 linenum_of_unhold_delete(tab, held, b, e)}
           result == unhold_jobs_delete_jobs(tab, held, b, e)
<1>1. result = tblDeleteLines(new, D)
  BY DEF unhold_jobs_delete_jobs
<1> HIDE DEF D, result
<1>2. Len(tab) \in Nat /\ DOMAIN tab = 1 .. Len(tab)
  BY LenProperties
<1>3. \A w : LET I == {i \in OnHoldAt(tab) : tab[i].key = w}
             IN  /\ onholdjob_linenum(tab, w) \in I \cup {0}
                 /\ I # {} => onholdjob_linenum(tab, w) \in I
  BY OnHoldLookup
<1>4. lines \in SUBSET (OnHoldAt(tab) \cup {0})
  BY <1>3
<1>5. SameButMarks(tab, new)
  <2> HIDE DEF lines
  <2> QED BY <1>4, UnholdSame
<1>6. ASSUME NEW i \in OnHoldAt(tab)
      PROVE  i \in lines
  <2> DEFINE w == tab[i].key
             l == onholdjob_linenum(tab, w)
  <2>1. PICK u \in ClientsAt(tab) : w \in ToSet(tab[u].held)
    BY DEF Tidy, Listed
  <2>2. tab[u].held = held
    BY SendsUnhold
  <2>3. w \in ToSet(held) /\ held # << >>
    BY <2>1, <2>2 DEF ToSet
  <2>4. unhold_words(held, b, e) = held
    BY <2>3 DEF unhold_words
  <2>5. w \in words
    BY <2>3, <2>4
  <2>6. l \in OnHoldAt(tab) /\ tab[l].key = w /\ l \in lines
    BY <1>3, <2>5
  <2>7. CASE l = i
    BY <2>6, <2>7
  <2>8. CASE l # i
    <3> HIDE DEF l
    <3>1. Twice(held, w)
      BY <2>2, <2>6, <2>8 DEF Tidy, Counted
    <3>2. PICK p \in DOMAIN held, q \in DOMAIN held : p # q /\ held[p] = w /\ held[q] = w
      BY <3>1 DEF Twice
    <3>3. l # 0
      BY <1>2, <2>6 DEF OnHoldAt
    <3>4. onholdjob_linenum(tab, held[p]) # 0
      BY <3>2, <3>3 DEF l
    <3>5. unhold_fails(tab, held, b, e)
      BY <2>4, <3>2, <3>4 DEF unhold_fails
    <3> QED BY <3>5
  <2> QED BY <2>7, <2>8
<1>7. ASSUME NEW i \in OnHoldAt(tab)
      PROVE  ~new[i].onhold
  <2>1. i \in DOMAIN tab /\ IsEntry(tab[i])
    BY DEF OnHoldAt, OnHold
  <2>2. tab[i] \in Entry
    BY <1>2, <2>1, ElementOfSeq, EntryOfLine
  <2>3. new[i] = TakeOffHold(tab[i])
    BY <1>6, <2>1 DEF unhold_lines
  <2> QED BY <2>2, <2>3 DEF TakeOffHold, Entry
<1>8. \A i \in DOMAIN tab : i \notin OnHoldAt(tab) => new[i] = tab[i]
  <2> SUFFICES ASSUME NEW i \in DOMAIN tab, i \notin OnHoldAt(tab) PROVE new[i] = tab[i]
    OBVIOUS
  <2>1. i \notin lines
    BY <1>2, <1>4
  <2> HIDE DEF lines
  <2> QED BY <2>1 DEF unhold_lines
<1> HIDE DEF new
<1>9. /\ new \in Seq(Line) /\ DOMAIN new = DOMAIN tab
      /\ \A i \in DOMAIN tab : IsEntry(new[i]) <=> IsEntry(tab[i])
      /\ ClientsAt(new) = ClientsAt(tab)
  BY <1>5 DEF SameButMarks, ClientsAt, IsClient
<1>10. OnHoldAt(new) = {}
  BY <1>7, <1>8, <1>9 DEF OnHoldAt, OnHold
<1>11. OneClient(new)
  <2>1. \A i \in ClientsAt(tab) : i \in DOMAIN tab /\ i \notin OnHoldAt(tab)
    BY DEF Tidy, OneClient, ClientsAt, OnHoldAt, OnHold
  <2> QED BY <1>8, <1>9, <2>1 DEF Tidy, OneClient
<1>12. result \in Seq(Line) /\ Part(new, result)
  BY <1>1, <1>9, DeleteFrom
<1>13. /\ OneClient(result) /\ OnHoldAt(result) = {}
       /\ NoClients(new) => NoClients(result)
  BY <1>9, <1>10, <1>11, <1>12, PartTidy
<1>14. NoClients(tab) => NoClients(result)
  BY <1>9, <1>13 DEF NoClients
<1>15. Tidy(result)
  BY <1>13, NoneOnHold
<1> QED BY <1>13, <1>14, <1>15 DEF result

-----------------------------------------------------------------------------
(* Every step keeps it *)

\* Where a handler is, the command is one, and no client waits behind it.
LEMMA InHand ==
  ASSUME TypeOK, CurrentClient, pc \notin {"accept", "dead", "off"}
  PROVE  /\ req \in Received /\ req \in Message /\ req # NoReq
         /\ \A n \in DOMAIN inbox : inbox[n].kind \notin {"clear", "unhold"}
<1>1. req # NoReq /\ req \in Received
  BY DEF TypeOK
<1> QED BY <1>1, ReceivedAreMessages DEF CurrentClient

\* An empty table is tidy.
LEMMA EmptyTidy == << >> \in Seq(Line) /\ Tidy(<< >>) /\ NoClients(<< >>)
BY EmptySeq DEF Tidy, OneClient, Listed, Counted, NoClients, ClientsAt, OnHoldAt

\* The crontab that a command or a start of the program finds is tidy, and the
\* history holds tidy tables.
LEMMA HistoryTidy ==
  ASSUME TypeOK, HeldInv
  PROVE  /\ cron_all(crontab) \in TidyTables
         /\ Push(history, cron_all(crontab)) \in Seq(TidyTables)
         /\ Push(<< >>, cron_all(crontab)) \in Seq(TidyTables)
         /\ Pop(history) \in Seq(TidyTables) /\ Pop(Pop(history)) \in Seq(TidyTables)
         /\ Pop(history) # << >> => Last(Pop(history)) \in TidyTables
<1>1. cron_all(crontab) \in TidyTables
  BY CronAllTidy DEF TypeOK, HeldInv, TidyTables
<1>2. history \in Seq(TidyTables) /\ << >> \in Seq(TidyTables)
  BY EmptySeq DEF HeldInv
<1>3. Pop(history) \in Seq(TidyTables)
  BY <1>2, StackType
<1>4. Pop(Pop(history)) \in Seq(TidyTables) /\ (Pop(history) # << >> => Last(Pop(history)) \in TidyTables)
  BY <1>3, StackType
<1>5. /\ Push(history, cron_all(crontab)) \in Seq(TidyTables)
      /\ Push(<< >>, cron_all(crontab)) \in Seq(TidyTables)
  BY <1>1, <1>2, StackType
<1> QED BY <1>1, <1>3, <1>4, <1>5

\* The program starts with nothing of its own in the crontab, nothing on hold.
LEMMA InitHeld == OneByOne /\ Init => HeldInv
<1> SUFFICES ASSUME OneByOne, Init PROVE HeldInv
  OBVIOUS
<1>1. NoClients(crontab) /\ OnHoldAt(crontab) = {}
  BY NoClientLinesAssumption DEF Init, OneByOne, NoClients, ClientsAt
<1>2. Tidy(crontab)
  BY <1>1, NoneOnHold DEF OneClient, NoClients
<1>3. crontab \in Seq(Line)
  BY Crontab0Assumption DEF Init
<1>4. cron_all(crontab) \in TidyTables
  BY <1>2, <1>3, CronAllTidy DEF TidyTables
<1>5. history \in Seq(TidyTables)
  BY <1>4, EmptySeq, StackType DEF Init
<1>6. inbox = << >> /\ DOMAIN inbox = {} /\ req.kind = "none" /\ pc = "accept" /\ work = << >>
  BY DEF Init, NoReq
<1>7. CurrentClient /\ AloneInInbox /\ AloneInHand /\ WorkFromCrontab
  BY <1>6 DEF CurrentClient, AloneInInbox, AloneInHand, WorkFromCrontab
<1> QED BY <1>2, <1>5, <1>6, <1>7, EmptyTidy DEF HeldInv

\* The end of the process: what is left is the crontab.
LEMMA LostHeld ==
  ASSUME HeldInv, Lost, pc' \in {"dead", "off"}
  PROVE  HeldInv'
<1>1. /\ inbox' = << >> /\ DOMAIN inbox' = {} /\ req' = NoReq /\ req'.kind = "none"
      /\ work' = << >> /\ history' = << >> /\ crontab' = crontab
  BY DEF Lost, NoReq
<1>2. history' \in Seq(TidyTables) /\ Tidy(work') /\ Tidy(crontab')
  BY <1>1, EmptySeq, EmptyTidy DEF HeldInv
<1>3. CurrentClient' /\ AloneInInbox' /\ AloneInHand' /\ WorkFromCrontab'
  BY <1>1 DEF CurrentClient, AloneInInbox, AloneInHand, WorkFromCrontab
<1> QED BY <1>2, <1>3 DEF HeldInv

\* Crond runs the one client line there may be; nothing waited before it.
LEMMA TickHeld ==
  ASSUME OneByOne, TypeOK, HeldInv, Tick
  PROVE  HeldInv'
<1> DEFINE fired == IF pc = "off" THEN {} ELSE FiredAt(crontab, now')
           clients == {i \in fired : IsClient(crontab[i])}
           messages == {MessageOf(crontab[i]) : i \in clients}
<1>1. /\ pc \in {"accept", "dead", "off"} /\ inbox = << >> /\ req = NoReq /\ req.kind = "none"
  BY DEF OneByOne, Tick, Idle, TypeOK, NoReq
<1>2. UNCHANGED <<crontab, pc, req, work, history>>
  BY DEF Tick
<1>3. CASE inbox' = inbox
  BY <1>1, <1>2, <1>3
     DEF HeldInv, CurrentClient, AloneInInbox, AloneInHand, WorkFromCrontab
<1>4. CASE \E arrivals \in SetToSeqs(messages) : inbox' = inbox \o arrivals
  <2>1. PICK arrivals \in SetToSeqs(messages) : inbox' = inbox \o arrivals
    BY <1>4
  <2>2. clients \subseteq ClientsAt(crontab) /\ clients \in SUBSET (DOMAIN crontab)
    BY DEF FiredAt, ActiveAt, ClientsAt
  <2>3. arrivals \in Seq(Received)
    BY <2>2, ArrivalsType DEF TypeOK, ClientsAt
  <2>4. inbox' = arrivals
    BY <1>1, <2>1, <2>3
  <2>5. /\ \A n \in DOMAIN arrivals : arrivals[n] \in messages
        /\ \A n, k \in DOMAIN arrivals : arrivals[n] = arrivals[k] => n = k
    BY DEF SetToSeqs, IsInjective
  <2>6. \A m \in messages : Sends(crontab, m) /\ m.kind \in {"clear", "unhold"}
    BY <2>2 DEF HeldInv, Tidy, OneClient, Sends, MessageOf
  <2>7. \A m, k \in messages : m = k
    BY <2>2 DEF HeldInv, Tidy, OneClient
  <2> HIDE DEF messages
  <2>8. \A n \in DOMAIN arrivals : n = 1
    <3> SUFFICES ASSUME NEW n \in DOMAIN arrivals PROVE n = 1
      OBVIOUS
    <3>1. 1 \in DOMAIN arrivals
      BY <2>3, LenProperties
    <3> QED BY <2>5, <2>7, <3>1
  <2>9. \A n \in DOMAIN inbox' :
          /\ n = 1 /\ Sends(crontab, inbox'[n]) /\ inbox'[n].kind # "two"
    BY <2>4, <2>5, <2>6, <2>8
  <2>10. CurrentClient' /\ AloneInInbox'
    BY <1>1, <1>2, <2>9 DEF CurrentClient, AloneInInbox
  <2>11. AloneInHand' /\ WorkFromCrontab'
    BY <1>1, <1>2 DEF HeldInv, AloneInHand, WorkFromCrontab
  <2> QED BY <1>2, <2>10, <2>11 DEF HeldInv
<1> QED BY <1>3, <1>4 DEF Tick

\* A user's connection is the last; a two-part command comes when there is no
\* other, nor a "cancel last" before it.
LEMMA UserSendsHeld ==
  ASSUME OneByOne, TypeOK, HeldInv, Orderly', NEW c \in UserCommands, UserSends(c)
  PROVE  HeldInv'
<1>1. UNCHANGED <<crontab, now, device, pc, req, work, history, own>>
  BY DEF UserSends
<1>2. /\ Len(inbox) \in Nat /\ DOMAIN inbox = 1 .. Len(inbox)
      /\ DOMAIN inbox' = 1 .. Len(inbox) + 1
      /\ \A n \in 1 .. Len(inbox) : inbox'[n] = inbox[n]
      /\ inbox'[Len(inbox) + 1] = c
  <2>1. c \in Received /\ inbox \in Seq(Received) /\ inbox' = Append(inbox, c)
    BY DEF TypeOK, UserSends, Received
  <2> QED BY <2>1, AppendProperties, LenProperties
<1>3. c \in Message /\ c.kind \notin {"clear", "unhold"}
  BY UserCommandsAssumption DEF Command, Message, Failing
<1>4. \A n \in DOMAIN inbox' : n = Len(inbox) + 1 \/ n \in DOMAIN inbox
  BY <1>2
<1>5. CurrentClient'
  BY <1>1, <1>2, <1>3, <1>4 DEF HeldInv, CurrentClient
<1>6. ASSUME c.kind = "two"
      PROVE  /\ NoClients(crontab) /\ req.kind \notin TwoKinds
             /\ \A n \in DOMAIN inbox : inbox[n].kind \notin TwoKinds
  <2>1. ~Pending
    BY <1>6 DEF OneByOne, UserSends
  <2>2. \A n \in DOMAIN inbox : inbox[n] \in ToSet(inbox)
    BY DEF ToSet
  <2> QED BY <2>1, <2>2 DEF Pending, NoClients, ClientsAt, TwoKinds
<1>7. ASSUME c.kind = "two"
      PROVE  NoClients(work)
  <2>1. req.kind # "cancel_last"
    BY <1>1, <1>2, <1>7 DEF Orderly
  <2>2. CASE pc = "submit"
    BY <1>6, <1>7, <2>1, <2>2 DEF HeldInv, WorkFromCrontab, TwoKinds
  <2>3. CASE pc # "submit"
    <3>1. pc # "resubmit"
      BY <1>6, <1>7 DEF TypeOK, TwoKinds
    <3> QED BY <2>3, <3>1, EmptyTidy DEF HeldInv, WorkFromCrontab
  <2> QED BY <2>2, <2>3
<1>8. AloneInInbox'
  <2> SUFFICES ASSUME NEW n \in DOMAIN inbox', inbox'[n].kind = "two"
               PROVE  /\ NoClients(crontab) /\ NoClients(work)
                      /\ req.kind \notin TwoKinds
                      /\ \A m \in 1 .. n - 1 : inbox'[m].kind \notin TwoKinds
    BY <1>1 DEF AloneInInbox
  <2>1. CASE n \in DOMAIN inbox
    <3>1. \A m \in 1 .. n - 1 : inbox'[m] = inbox[m]
      BY <1>2, <2>1
    <3> QED BY <1>2, <2>1, <3>1 DEF HeldInv, AloneInInbox
  <2>2. CASE n = Len(inbox) + 1
    <3>1. c.kind = "two" /\ \A m \in 1 .. n - 1 : m \in DOMAIN inbox /\ inbox'[m] = inbox[m]
      BY <1>2, <2>2
    <3> QED BY <1>6, <1>7, <3>1
  <2> QED BY <1>4, <2>1, <2>2
<1>9. AloneInHand' /\ WorkFromCrontab'
  BY <1>1 DEF HeldInv, AloneInHand, WorkFromCrontab, ClearOf, KeyBegin, KeyEnd
<1> QED BY <1>1, <1>5, <1>8, <1>9 DEF HeldInv

\* The owner waits until no two-part command is pending.
LEMMA OwnerAddsHeld ==
  ASSUME OneByOne, TypeOK, HeldInv, NEW x \in OwnerLines, OwnerAdds(x)
  PROVE  HeldInv'
<1>1. crontab' = Append(crontab, x) /\ UNCHANGED <<now, device, inbox, pc, req, work, history>>
  BY DEF OwnerAdds
<1>2. x \in Line /\ ~IsClient(x) /\ ~OnHold(x)
  BY OwnerLinesAssumption, DeviceLineIsNone
<1>3. ~Pending
  BY DEF OneByOne, OwnerAdds
<1>4. NoClients(crontab) /\ req.kind \notin TwoKinds
  BY <1>3 DEF Pending, NoClients, ClientsAt, TwoKinds
<1>5. \A n \in DOMAIN inbox : inbox[n].kind \notin TwoKinds
  <2>1. \A n \in DOMAIN inbox : inbox[n] \in ToSet(inbox)
    BY DEF ToSet
  <2> QED BY <1>3, <2>1 DEF Pending, TwoKinds
<1>6. Tidy(crontab')
  BY <1>1, <1>2, AppendTidy DEF TypeOK, HeldInv
<1>7. CurrentClient' /\ AloneInInbox' /\ AloneInHand'
  BY <1>1, <1>4, <1>5 DEF CurrentClient, AloneInInbox, AloneInHand, TwoKinds
<1>8. WorkFromCrontab'
  BY <1>1, <1>4 DEF HeldInv, WorkFromCrontab
<1> QED BY <1>1, <1>6, <1>7, <1>8 DEF HeldInv

\* The first connection becomes the command in hand.
LEMMA AcceptHeld ==
  ASSUME TypeOK, HeldInv, Accept
  PROVE  HeldInv'
<1>1. /\ pc = "accept" /\ pc' = "dispatch" /\ inbox # << >>
      /\ req' = Head(inbox) /\ inbox' = Tail(inbox)
      /\ history' = Push(history, cron_all(crontab))
      /\ crontab' = crontab /\ work' = work
  BY DEF Accept
<1>2. /\ Len(inbox) \in Nat /\ DOMAIN inbox = 1 .. Len(inbox) /\ 1 \in DOMAIN inbox
      /\ req' = inbox[1]
      /\ DOMAIN inbox' = 1 .. Len(inbox) - 1
      /\ \A n \in DOMAIN inbox' : inbox'[n] = inbox[n + 1]
  BY <1>1, LenProperties, HeadTailProperties DEF TypeOK
<1>3. \A n \in DOMAIN inbox' :
        /\ n + 1 \in DOMAIN inbox /\ n + 1 # 1 /\ 1 \in 1 .. (n + 1) - 1
        /\ \A m \in 1 .. n - 1 : m + 1 \in 1 .. (n + 1) - 1 /\ inbox'[m] = inbox[m + 1]
  BY <1>2
<1>4. CurrentClient'
  BY <1>1, <1>2, <1>3 DEF HeldInv, CurrentClient
<1>5. AloneInInbox'
  <2> SUFFICES ASSUME NEW n \in DOMAIN inbox', inbox'[n].kind = "two"
               PROVE  /\ NoClients(crontab) /\ NoClients(work)
                      /\ req'.kind \notin TwoKinds
                      /\ \A m \in 1 .. n - 1 : inbox'[m].kind \notin TwoKinds
    BY <1>1 DEF AloneInInbox
  <2>1. n + 1 \in DOMAIN inbox /\ inbox[n + 1].kind = "two"
    BY <1>2, <1>3
  <2>2. /\ NoClients(crontab) /\ NoClients(work)
        /\ \A m \in 1 .. (n + 1) - 1 : inbox[m].kind \notin TwoKinds
    BY <2>1 DEF HeldInv, AloneInInbox
  <2> QED BY <1>2, <1>3, <2>2
<1>6. AloneInHand'
  BY <1>1, <1>2 DEF HeldInv, AloneInInbox, AloneInHand
<1>7. WorkFromCrontab'
  BY <1>1 DEF HeldInv, WorkFromCrontab
<1>8. history' \in Seq(TidyTables)
  BY <1>1, HistoryTidy
<1> QED BY <1>1, <1>4, <1>5, <1>6, <1>7, <1>8 DEF HeldInv

\* A handler that is done.
LEMMA FinishHeld ==
  ASSUME TypeOK, HeldInv, pc \notin {"accept", "dead", "off"}, Finish,
         UNCHANGED <<crontab, inbox>>, history' \in Seq(TidyTables)
  PROVE  HeldInv'
<1>1. pc' = "accept" /\ req' = NoReq /\ req'.kind = "none" /\ work' = << >>
  BY DEF Finish, NoReq
<1>2. CurrentClient'
  BY <1>1, InHand DEF HeldInv, CurrentClient
<1>3. AloneInInbox'
  BY <1>1, EmptyTidy DEF HeldInv, AloneInInbox, TwoKinds
<1>4. AloneInHand' /\ WorkFromCrontab'
  BY <1>1 DEF AloneInHand, WorkFromCrontab
<1> QED BY <1>1, <1>2, <1>3, <1>4, EmptyTidy DEF HeldInv

\* A handler that goes on to write an array.
LEMMA GoSubmitHeld ==
  ASSUME TypeOK, HeldInv, Orderly, pc = "dispatch", NEW array, GoSubmit(array),
         Tidy(array),
         req.kind \notin {"two", "clear", "cancel_last"} /\ NoClients(crontab) =>
           NoClients(array),
         req.kind = "two" => Sends(array, ClearOf(req)),
         UNCHANGED <<crontab, inbox>>, history' \in Seq(TidyTables)
  PROVE  HeldInv'
<1>1. pc' = "submit" /\ work' = array /\ req' = req
  BY DEF GoSubmit
<1>2. CurrentClient'
  BY <1>1, InHand DEF HeldInv, CurrentClient
<1>3. AloneInInbox'
  <2> SUFFICES ASSUME NEW n \in DOMAIN inbox, inbox[n].kind = "two"
               PROVE  /\ NoClients(crontab) /\ NoClients(array)
                      /\ req.kind \notin TwoKinds
                      /\ \A m \in 1 .. n - 1 : inbox[m].kind \notin TwoKinds
    BY <1>1 DEF AloneInInbox
  <2>1. /\ NoClients(crontab) /\ req.kind \notin TwoKinds
        /\ \A m \in 1 .. n - 1 : inbox[m].kind \notin TwoKinds
    BY DEF HeldInv, AloneInInbox
  <2>2. req.kind # "cancel_last"
    BY DEF Orderly
  <2> QED BY <2>1, <2>2 DEF TwoKinds
<1>4. AloneInHand' /\ WorkFromCrontab'
  BY <1>1 DEF AloneInHand, WorkFromCrontab, ClearOf, KeyBegin, KeyEnd
<1> QED BY <1>1, <1>2, <1>3, <1>4 DEF HeldInv

\* The handlers that only report, run a disposition or fail.
LEMMA PlainHandlersHeld ==
  ASSUME TypeOK, HeldInv, HandleList \/ HandleLast \/ HandleFailing \/ HandleDo
  PROVE  HeldInv'
<1>1. CASE HandleFailing
  BY <1>1, LostHeld DEF HandleFailing, Die
<1>2. CASE HandleList \/ HandleLast \/ HandleDo
  <2>1. /\ pc = "dispatch" /\ Finish /\ UNCHANGED <<crontab, inbox>>
        /\ history' \in {history, Pop(history)}
    BY <1>2 DEF HandleList, HandleLast, HandleDo, Dispatch
  <2>2. history' \in Seq(TidyTables)
    BY <2>1, HistoryTidy DEF HeldInv
  <2> QED BY <2>1, <2>2, FinishHeld
<1> QED BY <1>1, <1>2

\* The handlers that edit the crontab they read, the two-part commands' own
\* excepted.
LEMMA EditHandlersHeld ==
  ASSUME OneByOne, TypeOK, HeldInv, Orderly,
         HandleDeleteOld \/ HandleHoldAll \/ HandleUnholdAll \/ HandleOnePart
  PROVE  HeldInv'
<1> DEFINE tab == cron_all(crontab)
<1>1. /\ pc = "dispatch" /\ req \in Message /\ req \in Received
  <2>1. pc = "dispatch"
    BY DEF HandleDeleteOld, HandleHoldAll, HandleUnholdAll, HandleOnePart, Dispatch
  <2> QED BY <2>1, InHand DEF HeldInv
<1>2. /\ tab \in Seq(Line) /\ Tidy(tab)
      /\ NoClients(crontab) => NoClients(tab)
  BY CronAllTidy DEF TypeOK, HeldInv
<1>3. history \in Seq(TidyTables)
  BY DEF HeldInv
<1>4. CASE HandleDeleteOld
  <2>1. CASE Die
    BY <2>1, LostHeld DEF Die
  <2>2. CASE GoSubmit(delete_old_cron_jobs(tab, now)) /\ UNCHANGED <<crontab, inbox, history>>
    <3> HIDE DEF tab
    <3>1. /\ Tidy(delete_old_cron_jobs(tab, now))
          /\ NoClients(crontab) => NoClients(delete_old_cron_jobs(tab, now))
      BY <1>2, DeleteOldTidy
    <3>2. req.kind = "delete_old"
      BY <1>4 DEF HandleDeleteOld, Dispatch
    <3> QED BY <1>1, <1>3, <2>2, <3>1, <3>2, GoSubmitHeld
  <2> QED BY <1>4, <2>1, <2>2 DEF HandleDeleteOld
<1>5. ~HandleHoldAll
  <2>1. \A m \in Received : m.kind # "hold_all"
    BY DEF OneByOne, Received, CronMessage
  <2> QED BY <1>1, <2>1 DEF HandleHoldAll, Dispatch
<1>6. CASE HandleUnholdAll
  <2>1. UNCHANGED <<crontab, inbox, history>> /\ req.kind = "unhold_all"
    BY <1>6 DEF HandleUnholdAll, Dispatch
  <2>2. CASE Finish
    BY <1>1, <1>3, <2>1, <2>2, FinishHeld
  <2>3. CASE GoSubmit(unhold_all_jobs(tab))
    <3> HIDE DEF tab
    <3>1. /\ Tidy(unhold_all_jobs(tab))
          /\ NoClients(crontab) => NoClients(unhold_all_jobs(tab))
      BY <1>2, UnholdAllTidy
    <3> QED BY <1>1, <1>3, <2>1, <2>3, <3>1, GoSubmitHeld
  <2> QED BY <1>6, <2>2, <2>3 DEF HandleUnholdAll
<1>7. CASE HandleOnePart
  <2>1. /\ UNCHANGED <<crontab, inbox, history>> /\ req.kind = "one"
        /\ GoSubmit(add_begin(tab, KeyBegin(req)))
    BY <1>7 DEF HandleOnePart, Dispatch
  <2>2. KeyBegin(req) \in DeviceKey
    BY <1>1, <2>1, KeyTypes
  <2> HIDE DEF tab
  <2>3. /\ Tidy(add_begin(tab, KeyBegin(req)))
        /\ NoClients(crontab) => NoClients(add_begin(tab, KeyBegin(req)))
    BY <1>2, <2>2, AddBeginTidy
  <2> QED BY <1>1, <1>3, <2>1, <2>3, GoSubmitHeld
<1> QED BY <1>4, <1>5, <1>6, <1>7

\* "cancel last" writes a crontab that a command has found.
LEMMA CancelLastHeld ==
  ASSUME TypeOK, HeldInv, Orderly, HandleCancelLast
  PROVE  HeldInv'
<1>1. /\ pc = "dispatch" /\ req.kind = "cancel_last" /\ UNCHANGED <<crontab, inbox>>
      /\ history' = Pop(Pop(history))
      /\ IF Pop(history) = << >> THEN Finish ELSE GoSubmit(Last(Pop(history)))
  BY DEF HandleCancelLast, Dispatch
<1>2. /\ history' \in Seq(TidyTables)
      /\ Pop(history) # << >> => Tidy(Last(Pop(history)))
  BY <1>1, HistoryTidy DEF TidyTables
<1>3. CASE Finish
  BY <1>1, <1>2, <1>3, FinishHeld
<1>4. CASE Pop(history) # << >> /\ GoSubmit(Last(Pop(history)))
  BY <1>1, <1>2, <1>4, GoSubmitHeld
<1> QED BY <1>1, <1>3, <1>4

\* A two-part command adds its lines to a crontab that has no others.
LEMMA TwoPartHeld ==
  ASSUME TypeOK, HeldInv, Orderly, HandleTwoPart
  PROVE  HeldInv'
<1> DEFINE tab == cron_all(crontab)
           b == KeyBegin(req)
           e == KeyEnd(req)
           array == add_begin_end(tab, b, e, req.year, now)
<1>1. /\ pc = "dispatch" /\ req.kind = "two" /\ UNCHANGED <<crontab, inbox, history>>
      /\ GoSubmit(array)
  BY DEF HandleTwoPart, Dispatch
<1>2. /\ b \in DeviceKey /\ e \in DeviceKey /\ b.sched.rec = e.sched.rec
  BY <1>1, InHand, KeyTypes DEF HeldInv
<1>3. /\ tab \in Seq(Line) /\ Tidy(tab) /\ NoClients(tab)
  BY <1>1, CronAllTidy DEF TypeOK, HeldInv, AloneInHand
<1>4. Tidy(array) /\ Sends(array, [kind |-> "clear", b |-> b, e |-> e])
  <2> HIDE DEF tab, b, e
  <2> QED BY <1>2, <1>3, AddBeginEndTidy
<1>5. history' \in Seq(TidyTables)
  BY <1>1 DEF HeldInv
<1> HIDE DEF array
<1> QED BY <1>1, <1>4, <1>5, GoSubmitHeld DEF ClearOf

\* "clear schedule for" comes from the only client line.
LEMMA ClearHeld ==
  ASSUME TypeOK, HeldInv, Orderly, HandleClear
  PROVE  HeldInv'
<1> DEFINE tab == cron_all(crontab)
           b == req.b
           e == req.e
           array == clear_schedule_for(tab, b, e, now)
<1>1. pc = "dispatch" /\ req.kind = "clear" /\ ClearScheduleFor(b, e)
  BY DEF HandleClear, Dispatch
<1>2. b \in OnceKey /\ e \in OnceKey /\ req \in Message
  BY <1>1, InHand, MessageKinds DEF HeldInv
<1>3. req = [kind |-> "clear", b |-> b, e |-> e]
  <2>1. req \in [kind : {"clear"}, b : OnceKey, e : OnceKey]
    BY <1>1, <1>2, UserCommandsAssumption DEF Message, Command, CronMessage, Failing
  <2> QED BY <2>1
<1>4. /\ tab \in Seq(Line) /\ Tidy(tab)
      /\ Sends(tab, [kind |-> "clear", b |-> b, e |-> e])
  <2>1. Sends(crontab, req)
    BY <1>1 DEF HeldInv, CurrentClient
  <2> QED BY <1>3, <2>1, CronAllTidy DEF TypeOK, HeldInv
<1>5. CASE Die
  BY <1>5, LostHeld DEF Die
<1>6. CASE Finish /\ UNCHANGED <<crontab, inbox, history>>
  BY <1>1, <1>6, FinishHeld DEF HeldInv
<1>7. CASE /\ ~clear_fails(tab, b, e) /\ ~clear_returns(tab, b, e)
           /\ GoSubmit(array) /\ UNCHANGED <<crontab, inbox, history>>
  <2>1. Tidy(array)
    <3> HIDE DEF tab, b, e
    <3> QED BY <1>2, <1>4, <1>7, ClearTidy
  <2> HIDE DEF array
  <2> QED BY <1>1, <1>7, <2>1, GoSubmitHeld DEF HeldInv
<1> QED BY <1>1, <1>5, <1>6, <1>7 DEF ClearScheduleFor

\* "unhold" comes from the only client line.
LEMMA UnholdHeld ==
  ASSUME TypeOK, HeldInv, Orderly, HandleUnhold
  PROVE  HeldInv'
<1> DEFINE tab == cron_all(crontab)
           b == req.b
           e == req.e
           held == req.held
           array == unhold_jobs_delete_jobs(tab, held, b, e)
<1>1. pc = "dispatch" /\ req.kind = "unhold"
  BY DEF HandleUnhold, Dispatch
<1>2. b \in OnceKey /\ e \in OnceKey /\ held \in Seq(Key)
      /\ req = [kind |-> "unhold", b |-> b, e |-> e, held |-> held]
  <2>1. req \in Message
    BY <1>1, InHand DEF HeldInv
  <2>2. req \in [kind : {"unhold"}, b : OnceKey, e : OnceKey, held : Seq(Key)]
    BY <1>1, <2>1, UserCommandsAssumption DEF Message, Command, CronMessage, Failing
  <2> QED BY <2>2
<1>3. /\ tab \in Seq(Line) /\ Tidy(tab)
      /\ NoClients(crontab) => NoClients(tab)
      /\ Sends(tab, [kind |-> "unhold", b |-> b, e |-> e, held |-> held])
  <2>1. Sends(crontab, req)
    BY <1>1 DEF HeldInv, CurrentClient
  <2> QED BY <1>2, <2>1, CronAllTidy DEF TypeOK, HeldInv
<1>4. CASE Die
  BY <1>4, LostHeld DEF Die
<1>5. CASE /\ ~unhold_fails(tab, held, b, e)
           /\ GoSubmit(array) /\ UNCHANGED <<crontab, inbox, history>>
  <2>1. Tidy(array) /\ (NoClients(crontab) => NoClients(array))
    <3> HIDE DEF tab, b, e, held
    <3> QED BY <1>2, <1>3, <1>5, UnholdTidy
  <2> HIDE DEF array
  <2> QED BY <1>1, <1>5, <2>1, GoSubmitHeld DEF HeldInv
<1> QED BY <1>4, <1>5 DEF HandleUnhold

\* The write: the crontab has what the array had.
LEMMA WriteHeld ==
  ASSUME TypeOK, HeldInv, pc \in {"submit", "resubmit"},
         crontab' = submit_crontab(work), Finish, UNCHANGED <<inbox, history>>
  PROVE  HeldInv'
<1>1. Tidy(crontab') /\ (NoClients(work) => NoClients(crontab'))
  BY SubmitTidy DEF TypeOK, HeldInv
<1>2. pc' = "accept" /\ req' = NoReq /\ req'.kind = "none" /\ work' = << >>
  BY DEF Finish, NoReq
<1>3. CurrentClient'
  BY <1>2, InHand DEF HeldInv, CurrentClient
<1>4. AloneInInbox'
  BY <1>1, <1>2, EmptyTidy DEF HeldInv, AloneInInbox, TwoKinds
<1>5. AloneInHand' /\ WorkFromCrontab'
  BY <1>2 DEF AloneInHand, WorkFromCrontab
<1> QED BY <1>1, <1>2, <1>3, <1>4, <1>5, EmptyTidy DEF HeldInv

\* The write of a two-part command that begins now: what it wrote is its own.
LEMMA SubmitHeld ==
  ASSUME TypeOK, HeldInv, Submit
  PROVE  HeldInv'
<1>1. pc = "submit" /\ crontab' = submit_crontab(work) /\ UNCHANGED <<inbox, history>>
  BY DEF Submit
<1>2. CASE Finish
  BY <1>1, <1>2, WriteHeld
<1>3. CASE req.kind = "two" /\ pc' = "clear_now" /\ work' = << >> /\ UNCHANGED req
  <2>1. Tidy(crontab') /\ Sends(crontab', ClearOf(req))
    BY <1>1, <1>3, SubmitTidy DEF TypeOK, HeldInv, AloneInHand
  <2>2. CurrentClient'
    BY <1>1, <1>3, InHand DEF HeldInv, CurrentClient
  <2>3. AloneInInbox'
    BY <1>1, <1>3 DEF HeldInv, AloneInInbox, TwoKinds
  <2>4. AloneInHand' /\ WorkFromCrontab'
    BY <1>3, <2>1 DEF AloneInHand, WorkFromCrontab, ClearOf, KeyBegin, KeyEnd
  <2> QED BY <1>1, <1>3, <2>1, <2>2, <2>3, <2>4, EmptyTidy DEF HeldInv
<1> QED BY <1>2, <1>3 DEF Submit

\* The clear_schedule_for() of a two-part command that begins now.
LEMMA ClearNowHeld ==
  ASSUME TypeOK, HeldInv, ClearNow
  PROVE  HeldInv'
<1> DEFINE tab == cron_all(crontab)
           b == KeyBegin(req)
           e == KeyEnd(req)
           array == clear_schedule_for(tab, b, e, now)
<1>1. pc = "clear_now" /\ req.kind = "two" /\ ~req.at.rec
  BY DEF ClearNow, TypeOK
<1>2. b \in OnceKey /\ e \in OnceKey
  BY <1>1, InHand, KeyTypes DEF HeldInv
<1>3. /\ tab \in Seq(Line) /\ Tidy(tab)
      /\ Sends(tab, [kind |-> "clear", b |-> b, e |-> e])
  <2>1. Sends(crontab, [kind |-> "clear", b |-> b, e |-> e])
    BY <1>1 DEF HeldInv, AloneInHand, ClearOf
  <2> QED BY <2>1, CronAllTidy DEF TypeOK, HeldInv
<1>4. CASE Die
  BY <1>4, LostHeld DEF Die
<1>5. CASE Finish /\ UNCHANGED <<crontab, inbox, history>>
  BY <1>1, <1>5, FinishHeld DEF HeldInv
<1>6. CASE /\ ~clear_fails(tab, b, e) /\ ~clear_returns(tab, b, e)
           /\ pc' = "resubmit" /\ work' = array /\ UNCHANGED <<crontab, inbox, history, req>>
  <2>1. Tidy(array)
    <3> HIDE DEF tab, b, e
    <3> QED BY <1>2, <1>3, <1>6, ClearTidy
  <2> HIDE DEF array
  <2>2. CurrentClient' /\ AloneInHand' /\ WorkFromCrontab'
    BY <1>1, <1>6, InHand DEF HeldInv, CurrentClient, AloneInHand, WorkFromCrontab
  <2>3. AloneInInbox'
    BY <1>1, <1>6 DEF HeldInv, AloneInInbox, TwoKinds
  <2> QED BY <1>6, <2>1, <2>2, <2>3 DEF HeldInv
<1> QED BY <1>4, <1>5, <1>6 DEF ClearNow

\* The start of the program: nothing is left but the crontab.
LEMMA BootHeld ==
  ASSUME TypeOK, HeldInv, Boot
  PROVE  HeldInv'
<1>1. /\ pc = "off" /\ pc' = "accept" /\ UNCHANGED <<crontab, inbox, req, work>>
      /\ history' = Push(<< >>, cron_all(crontab))
  BY DEF Boot
<1>2. history' \in Seq(TidyTables)
  BY <1>1, HistoryTidy
<1>3. CurrentClient' /\ AloneInInbox' /\ AloneInHand' /\ WorkFromCrontab'
  BY <1>1 DEF HeldInv, CurrentClient, AloneInInbox, AloneInHand, WorkFromCrontab
<1> QED BY <1>1, <1>2, <1>3 DEF HeldInv

\* What is listed is named.
LEMMA TidyNamed ==
  ASSUME HeldInv
  PROVE  HeldIsNamed
<1>1. ASSUME NEW tab, Tidy(tab)
      PROVE  HoldersNamed(tab)
  BY <1>1 DEF Tidy, Listed, HoldersNamed, ClientsAt
<1>2. \A n \in DOMAIN history : Tidy(history[n])
  BY LenProperties, ElementOfSeq DEF HeldInv, TidyTables
<1> QED BY <1>1, <1>2 DEF HeldInv, HeldIsNamed

\* Every step of the system keeps the invariant.
LEMMA NextHeld ==
  ASSUME OneByOne, TypeOK, Orderly, Orderly', HeldInv, [Next]_vars
  PROVE  HeldInv'
<1>1. CASE Tick
  BY <1>1, TickHeld
<1>2. CASE \E c \in UserCommands : UserSends(c)
  BY <1>2, UserSendsHeld
<1>3. CASE \E x \in OwnerLines : OwnerAdds(x)
  BY <1>3, OwnerAddsHeld
<1>4. CASE PowerFail
  BY <1>4, LostHeld DEF PowerFail
<1>5. CASE Boot
  BY <1>5, BootHeld
<1>6. CASE Accept
  BY <1>6, AcceptHeld
<1>7. CASE AcceptSilent
  BY <1>7, LostHeld DEF AcceptSilent, Die
<1>8. CASE Handler
  BY <1>8, PlainHandlersHeld, EditHandlersHeld, CancelLastHeld, TwoPartHeld, ClearHeld,
     UnholdHeld DEF Handler
<1>9. CASE Submit
  BY <1>9, SubmitHeld
<1>10. CASE ClearNow
  BY <1>10, ClearNowHeld
<1>11. CASE Resubmit
  BY <1>11, WriteHeld DEF Resubmit
<1>12. CASE UNCHANGED vars
  BY <1>12 DEF vars, HeldInv, CurrentClient, AloneInInbox, AloneInHand, WorkFromCrontab,
     ClearOf, KeyBegin, KeyEnd
<1> QED
  BY <1>1, <1>2, <1>3, <1>4, <1>5, <1>6, <1>7, <1>8, <1>9, <1>10, <1>11, <1>12
     DEF Next, Server

\* A two-part command comes when no "cancel last" is about, and what waits is
\* taken in order.
LEMMA NextOrderly ==
  ASSUME OneByOne, TypeOK, Orderly, [Next]_vars
  PROVE  Orderly'
<1>0. /\ Len(inbox) \in Nat /\ DOMAIN inbox = 1 .. Len(inbox) /\ inbox \in Seq(Received)
      /\ NoReq.kind # "cancel_last"
  BY LenProperties DEF TypeOK, NoReq
\* What is done with the command at hand leaves the inbox alone, or ends it.
<1>1. CASE inbox' = inbox /\ req' \in {req, NoReq}
  BY <1>0, <1>1 DEF Orderly
<1>2. CASE Lost
  <2>1. DOMAIN inbox' = {}
    BY <1>2 DEF Lost
  <2> QED BY <2>1 DEF Orderly
<1>3. CASE Tick
  <2>1. inbox = << >> /\ UNCHANGED <<crontab, req>> /\ crontab \in Seq(Line)
    BY <1>3 DEF OneByOne, Tick, Idle, TypeOK
  <2>2. CASE inbox' = inbox
    BY <1>1, <2>1, <2>2
  <2>3. CASE inbox' # inbox
    <3> DEFINE fired == IF pc = "off" THEN {} ELSE FiredAt(crontab, now')
               clients == {i \in fired : IsClient(crontab[i])}
               messages == {MessageOf(crontab[i]) : i \in clients}
    <3>1. PICK arrivals \in SetToSeqs(messages) : inbox' = inbox \o arrivals
      BY <1>3, <2>3 DEF Tick
    <3>2. clients \in SUBSET (DOMAIN crontab)
      BY DEF FiredAt, ActiveAt
    <3>3. arrivals \in Seq(Received)
      BY <2>1, <3>2, ArrivalsType
    <3>4. inbox' = arrivals
      BY <2>1, <3>1, <3>3
    <3>5. \A m \in messages : m.kind # "two"
      BY DEF MessageOf
    <3> HIDE DEF messages
    <3>6. \A n \in DOMAIN arrivals : arrivals[n] \in messages
      BY DEF SetToSeqs
    <3> QED BY <3>4, <3>5, <3>6 DEF Orderly
  <2> QED BY <2>2, <2>3
<1>4. CASE \E c \in UserCommands : UserSends(c)
  <2>1. PICK c \in UserCommands : UserSends(c)
    BY <1>4
  <2>2. c \in Received /\ inbox' = Append(inbox, c) /\ req' = req
    BY <2>1 DEF UserSends, Received
  <2>3. /\ DOMAIN inbox' = 1 .. Len(inbox) + 1
        /\ \A n \in 1 .. Len(inbox) : inbox'[n] = inbox[n]
        /\ inbox'[Len(inbox) + 1] = c
    BY <1>0, <2>2, AppendProperties
  <2> SUFFICES ASSUME NEW n \in DOMAIN inbox', inbox'[n].kind = "two"
               PROVE  /\ req.kind # "cancel_last"
                      /\ \A m \in 1 .. n - 1 : inbox'[m].kind # "cancel_last"
    BY <2>2 DEF Orderly
  <2>4. \A m \in 1 .. n - 1 : m \in DOMAIN inbox /\ inbox'[m] = inbox[m]
    BY <1>0, <2>3
  <2>5. CASE n \in DOMAIN inbox
    BY <1>0, <2>3, <2>4, <2>5 DEF Orderly
  <2>6. CASE n = Len(inbox) + 1
    <3>1. ~Undoing
      BY <2>1, <2>3, <2>6 DEF OneByOne, UserSends
    <3>2. \A m \in DOMAIN inbox : inbox[m] \in ToSet(inbox)
      BY DEF ToSet
    <3> QED BY <2>4, <3>1, <3>2 DEF Undoing
  <2> QED BY <1>0, <2>3, <2>5, <2>6
<1>5. CASE Accept
  <2>1. inbox # << >> /\ req' = Head(inbox) /\ inbox' = Tail(inbox)
    BY <1>5 DEF Accept
  <2>2. /\ req' = inbox[1] /\ DOMAIN inbox' = 1 .. Len(inbox) - 1
        /\ \A n \in DOMAIN inbox' : inbox'[n] = inbox[n + 1]
    BY <1>0, <2>1, HeadTailProperties
  <2> SUFFICES ASSUME NEW n \in DOMAIN inbox', inbox'[n].kind = "two"
               PROVE  /\ req'.kind # "cancel_last"
                      /\ \A m \in 1 .. n - 1 : inbox'[m].kind # "cancel_last"
    BY DEF Orderly
  <2>3. /\ n + 1 \in DOMAIN inbox /\ inbox[n + 1].kind = "two"
        /\ 1 \in 1 .. (n + 1) - 1
        /\ \A m \in 1 .. n - 1 : m + 1 \in 1 .. (n + 1) - 1 /\ inbox'[m] = inbox[m + 1]
    BY <1>0, <2>2
  <2>4. \A m \in 1 .. (n + 1) - 1 : inbox[m].kind # "cancel_last"
    BY <2>3 DEF Orderly
  <2> QED BY <2>2, <2>3, <2>4
<1>6. CASE Handler
  <2>1. Outcome
    BY <1>6, HandlerOutcome
  <2> QED BY <1>1, <1>2, <2>1 DEF Outcome, Die, Finish, GoSubmit
<1>7. CASE Submit \/ ClearNow \/ Resubmit
  BY <1>1, <1>2, <1>7 DEF Submit, ClearNow, Resubmit, Die, Finish
<1>8. CASE AcceptSilent \/ PowerFail
  BY <1>2, <1>8 DEF AcceptSilent, Die, PowerFail
<1>9. CASE Boot \/ (\E x \in OwnerLines : OwnerAdds(x)) \/ UNCHANGED vars
  BY <1>1, <1>9 DEF Boot, OwnerAdds, vars
<1> QED
  BY <1>3, <1>4, <1>5, <1>6, <1>7, <1>8, <1>9 DEF Next, Server

\* Nothing waits at the start.
LEMMA InitOrderly == Init => Orderly
BY DEF Init, Orderly

\* While two-part commands come one at a time, every line that one of them puts
\* on hold is named by its unhold line, in the crontab, in the array about to be
\* written and in all that "cancel last" may restore (clear_schedule_for,
\* unhold_jobs_delete_jobs).
THEOREM HeldNamed == OneByOne => (Spec => []HeldIsNamed)
<1> SUFFICES ASSUME OneByOne PROVE Spec => []HeldIsNamed
  OBVIOUS
<1>1. Init => HeldInv /\ Orderly
  BY InitHeld, InitOrderly
<1>2. TypeOK /\ Orderly /\ [Next]_vars => Orderly'
  BY NextOrderly
<1>3. TypeOK /\ Orderly /\ Orderly' /\ HeldInv /\ [Next]_vars => HeldInv'
  BY NextHeld
<1>4. HeldInv => HeldIsNamed
  BY TidyNamed
<1> QED BY <1>1, <1>2, <1>3, <1>4, TypeCorrect, PTL DEF Spec

-----------------------------------------------------------------------------
(* No command ends the server *)

\* The md5sums of lines that are marked #TMP, and of lines that are not.
LinesOf(tab, tmp) == {tab[i].key : i \in {j \in DOMAIN tab : IsEntry(tab[j]) /\ tab[j].tmp = tmp}}
TmpKeys ==
  LinesOf(Crontab0, TRUE)
    \cup {KeyBegin(c) : c \in {m \in UserCommands : m.kind \in {"one", "two"}}}
    \cup {KeyEnd(c) : c \in {m \in UserCommands : m.kind = "two"}}
OwnKeys == LinesOf(Crontab0, FALSE) \cup {x.key : x \in OwnerLines}

\* No command fails by itself; no line the server writes has the md5sum of one
\* of the user's; where "delete old" is used, every #TMP line has an epoch; and
\* the user's lines carry none of the server's lists.
Wholesome ==
  /\ \A c \in UserCommands : c.kind \notin Failing \cup {"silent"}
  /\ TmpKeys \cap OwnKeys = {}
  /\ (\E c \in UserCommands : c.kind = "delete_old") => \A k \in TmpKeys : ~k.sched.rec
  /\ \A i \in DOMAIN Crontab0 : IsEntry(Crontab0[i]) =>
       Crontab0[i].held = << >> /\ Crontab0[i].by = << >>

NoRepeats(s) == \A p, q \in DOMAIN s : s[p] = s[q] => p = q

\* Lines with the same md5sum differ in the #ONHOLD mark only, and the lists of
\* client lines have every md5sum once.
Known(x) ==
  IsEntry(x) =>
    IF IsClient(x)
    THEN x.key.b # x.key.e /\ NoRepeats(x.held)
    ELSE /\ x.held = << >>
         /\ ~x.onhold => x.by = << >>
         /\ IF x.tmp THEN x.key \in TmpKeys ELSE x.key \in OwnKeys
KnownLine == {x \in Line : Known(x)}

KnownMessage(m) ==
  /\ m.kind \in {"clear", "unhold"} => m.b # m.e
  /\ m.kind = "unhold" => NoRepeats(m.held)

\* No active line is there twice.
Distinct(tab) == \A i, j \in ActiveAt(tab) : tab[i] = tab[j] => i = j

\* While a two-part command is about to look for lines to hold, the crontab is
\* as submit_crontab() wrote it.
DistinctBefore ==
  \/ Distinct(crontab)
  \/ /\ NoClients(crontab)
     /\ \A n \in DOMAIN inbox : inbox[n].kind # "clear"
     /\ req.kind # "clear" /\ pc # "clear_now"

AliveInv ==
  /\ ServerAlive
  /\ crontab \in Seq(KnownLine)
  /\ work \in Seq(KnownLine)
  /\ history \in Seq(Seq(KnownLine))
  /\ \A n \in DOMAIN inbox : KnownMessage(inbox[n])
  /\ KnownMessage(req)
  /\ DistinctBefore

\* A table of such lines, line by line.
LEMMA KnownTable ==
  ASSUME NEW tab \in Seq(Line)
  PROVE  tab \in Seq(KnownLine) <=> \A i \in DOMAIN tab : Known(tab[i])
<1>1. Len(tab) \in Nat /\ DOMAIN tab = 1 .. Len(tab) /\ tab \in [1 .. Len(tab) -> Line]
  BY LenProperties
<1>2. ASSUME \A i \in DOMAIN tab : Known(tab[i])
      PROVE  tab \in Seq(KnownLine)
  <2>1. tab \in [1 .. Len(tab) -> KnownLine]
    BY <1>1, <1>2 DEF KnownLine
  <2> QED BY <1>1, <2>1, SeqDef
<1>3. ASSUME tab \in Seq(KnownLine), NEW i \in DOMAIN tab
      PROVE  Known(tab[i])
  BY <1>1, <1>3, ElementOfSeq DEF KnownLine
<1> QED BY <1>2, <1>3

\* It is a table of lines.
LEMMA KnownIsTable ==
  /\ KnownLine \subseteq Line
  /\ \A tab \in Seq(KnownLine) : tab \in Seq(Line)
  /\ Seq(Seq(KnownLine)) \subseteq Seq(Seq(Line))
<1>1. KnownLine \subseteq Line
  BY DEF KnownLine
<1>2. Seq(KnownLine) \subseteq Seq(Line)
  BY <1>1, SeqMonotonic
<1> QED BY <1>1, <1>2, SeqMonotonic

\* What is made of known lines is one.
LEMMA KnownPart ==
  ASSUME NEW tab \in Seq(KnownLine), NEW new \in Seq(Line), Part(tab, new)
  PROVE  new \in Seq(KnownLine)
<1>1. \A i \in DOMAIN tab : Known(tab[i])
  BY KnownIsTable, KnownTable
<1>2. PICK f \in Injection(DOMAIN new, DOMAIN tab) : \A k \in DOMAIN new : new[k] = tab[f[k]]
  BY DEF Part, From
<1>3. \A k \in DOMAIN new : f[k] \in DOMAIN tab
  BY <1>2 DEF Injection
<1>4. \A k \in DOMAIN new : Known(new[k])
  BY <1>1, <1>2, <1>3
<1> QED BY <1>4, KnownTable

\* submit_crontab() writes each active line once.
LEMMA SubmitDistinct ==
  ASSUME NEW tab \in Seq(KnownLine)
  PROVE  submit_crontab(tab) \in Seq(KnownLine) /\ Distinct(submit_crontab(tab))
<1> DEFINE I == {i \in DOMAIN tab :
                   Active(tab[i]) => \A j \in 1 .. i - 1 : tab[j] # tab[i]}
           mid == RemoveDuplicates(tab)
           new == submit_crontab(tab)
<1>1. tab \in Seq(Line) /\ new \in Seq(Line) /\ Part(tab, new)
  BY KnownIsTable, SubmitLines
<1>2. mid \in Seq(Line) /\ From(tab, I, mid)
  <2>1. I \in SUBSET (DOMAIN tab) /\ mid = KeepAt(tab, I)
    BY DEF RemoveDuplicates
  <2> HIDE DEF I, mid
  <2> QED BY <1>1, <2>1, KeepAtLines, KeepAtFrom
<1>3. Part(mid, new)
  <2> DEFINE J == {i \in DOMAIN mid : i < 3 \/ \E j \in i - 2 .. i : mid[j] # Blank}
  <2>1. new = KeepAt(mid, J) /\ J \in SUBSET (DOMAIN mid)
    BY DEF submit_crontab, AllowTwoBlankLines
  <2> HIDE DEF J, mid, new
  <2> QED BY <1>2, <2>1, KeepAtFrom
<1>4. PICK f \in Injection(DOMAIN mid, I) : \A k \in DOMAIN mid : mid[k] = tab[f[k]]
  BY <1>2 DEF From
<1>5. PICK g \in Injection(DOMAIN new, DOMAIN mid) : \A k \in DOMAIN new : new[k] = mid[g[k]]
  BY <1>3 DEF Part, From
<1>6. /\ \A k \in DOMAIN mid : f[k] \in I
      /\ \A k, l \in DOMAIN mid : f[k] = f[l] => k = l
      /\ \A k \in DOMAIN new : g[k] \in DOMAIN mid
      /\ \A k, l \in DOMAIN new : g[k] = g[l] => k = l
  BY <1>4, <1>5 DEF Injection, IsInjective
<1>7. Len(tab) \in Nat /\ DOMAIN tab = 1 .. Len(tab)
  BY <1>1, LenProperties
<1>8. \A i, j \in I : Active(tab[i]) /\ tab[i] = tab[j] => i = j
  <2> SUFFICES ASSUME NEW i \in I, NEW j \in I, Active(tab[i]), tab[i] = tab[j] PROVE i = j
    OBVIOUS
  <2>1. i \in 1 .. Len(tab) /\ j \in 1 .. Len(tab) /\ Active(tab[j])
    BY <1>7
  <2>2. ~(j < i)
    BY <2>1
  <2>3. ~(i < j)
    BY <2>1
  <2> QED BY <2>1, <2>2, <2>3
<1> HIDE DEF I, mid, new
<1>9. Distinct(new)
  <2> SUFFICES ASSUME NEW k \in ActiveAt(new), NEW l \in ActiveAt(new), new[k] = new[l]
               PROVE  k = l
    BY DEF Distinct
  <2>1. k \in DOMAIN new /\ l \in DOMAIN new /\ Active(new[k])
    BY DEF ActiveAt
  <2>2. new[k] = tab[f[g[k]]] /\ new[l] = tab[f[g[l]]]
    BY <1>4, <1>5, <1>6, <2>1
  <2>3. f[g[k]] = f[g[l]]
    BY <1>6, <1>8, <2>1, <2>2
  <2> QED BY <1>6, <2>1, <2>3
<1>10. new \in Seq(KnownLine)
  BY <1>1, KnownPart DEF new
<1> QED BY <1>9, <1>10 DEF new

\* Putting lines on hold and releasing lines on hold make known lines.
LEMMA KnownMarks ==
  ASSUME NEW tab \in Seq(KnownLine)
  PROVE  /\ \A by \in Instigator, I \in SUBSET ActiveAt(tab) :
              (\A i \in I : ~IsClient(tab[i])) => hold_lines(tab, I, by) \in Seq(KnownLine)
         /\ \A I \in SUBSET (OnHoldAt(tab) \cup {0}) : unhold_lines(tab, I) \in Seq(KnownLine)
<1>1. tab \in Seq(Line) /\ DOMAIN tab = 1 .. Len(tab) /\ \A i \in DOMAIN tab : Known(tab[i])
  BY KnownIsTable, KnownTable, LenProperties
<1>2. ASSUME NEW by \in Instigator, NEW I \in SUBSET ActiveAt(tab),
             \A i \in I : ~IsClient(tab[i])
      PROVE  hold_lines(tab, I, by) \in Seq(KnownLine)
  <2> DEFINE new == hold_lines(tab, I, by)
  <2>1. new \in Seq(Line) /\ DOMAIN new = DOMAIN tab
    BY <1>1, HoldSame DEF SameButMarks
  <2>2. ASSUME NEW i \in DOMAIN tab
        PROVE  Known(new[i])
    <3>1. CASE i \in I
      <4>1. new[i] = PutOnHold(tab[i], by) /\ IsEntry(tab[i]) /\ tab[i] \in Line
        BY <1>1, <3>1, ElementOfSeq DEF hold_lines, ActiveAt, Active
      <4>2. tab[i] \in Entry
        BY <4>1, EntryOfLine
      <4>3. new[i].kind = tab[i].kind /\ new[i].key = tab[i].key /\ new[i].held = tab[i].held
            /\ new[i].tmp = tab[i].tmp /\ new[i].onhold
        BY <4>1, <4>2 DEF PutOnHold, Entry
      <4>4. Known(tab[i]) /\ ~IsClient(tab[i])
        BY <1>1, <1>2, <3>1
      <4> HIDE DEF new
      <4> QED BY <4>3, <4>4 DEF Known, IsEntry, IsClient
    <3>2. CASE i \notin I
      BY <1>1, <3>2 DEF hold_lines
    <3> QED BY <3>1, <3>2
  <2> HIDE DEF new
  <2> QED BY <2>1, <2>2, KnownTable DEF new
<1>3. ASSUME NEW I \in SUBSET (OnHoldAt(tab) \cup {0})
      PROVE  unhold_lines(tab, I) \in Seq(KnownLine)
  <2> DEFINE new == unhold_lines(tab, I)
  <2>1. new \in Seq(Line) /\ DOMAIN new = DOMAIN tab
    BY <1>1, UnholdSame DEF SameButMarks
  <2>2. ASSUME NEW i \in DOMAIN tab
        PROVE  Known(new[i])
    <3>1. CASE i \in I
      <4>0. i # 0
        BY <1>1
      <4>1. new[i] = TakeOffHold(tab[i]) /\ IsEntry(tab[i]) /\ tab[i] \in Line
        BY <1>1, <3>1, <4>0, ElementOfSeq DEF unhold_lines, OnHoldAt, OnHold
      <4>2. tab[i] \in Entry
        BY <4>1, EntryOfLine
      <4>3. new[i].kind = tab[i].kind /\ new[i].key = tab[i].key /\ new[i].held = tab[i].held
            /\ new[i].tmp = tab[i].tmp /\ new[i].by = << >>
        BY <4>1, <4>2 DEF TakeOffHold, Entry
      <4>4. Known(tab[i])
        BY <1>1
      <4> HIDE DEF new
      <4> QED BY <4>3, <4>4 DEF Known, IsEntry, IsClient
    <3>2. CASE i \notin I
      BY <1>1, <3>2 DEF unhold_lines
    <3> QED BY <3>1, <3>2
  <2> HIDE DEF new
  <2> QED BY <2>1, <2>2, KnownTable DEF new
<1> QED BY <1>2, <1>3

\* A known line is added; so is the empty line at the end of what is read.
LEMMA KnownAppend ==
  ASSUME NEW tab \in Seq(KnownLine)
  PROVE  /\ \A x \in KnownLine : Append(tab, x) \in Seq(KnownLine)
         /\ cron_all(tab) \in Seq(KnownLine)
         /\ Distinct(tab) => Distinct(cron_all(tab))
<1>1. \A x \in KnownLine : Append(tab, x) \in Seq(KnownLine)
  BY AppendProperties
<1>2. Blank \in KnownLine /\ ~Active(Blank)
  BY DEF KnownLine, Known, Line, Blank, IsEntry, Active
<1>3. ASSUME Distinct(tab)
      PROVE  Distinct(Append(tab, Blank))
  <2> DEFINE new == Append(tab, Blank)
  <2>1. /\ Len(tab) \in Nat /\ DOMAIN tab = 1 .. Len(tab)
        /\ DOMAIN new = 1 .. Len(tab) + 1
        /\ \A i \in 1 .. Len(tab) : new[i] = tab[i]
        /\ new[Len(tab) + 1] = Blank
    BY <1>1, <1>2, AppendProperties, LenProperties
  <2> HIDE DEF new
  <2>2. \A i \in ActiveAt(new) : i \in ActiveAt(tab) /\ new[i] = tab[i]
    <3> SUFFICES ASSUME NEW i \in ActiveAt(new) PROVE i \in ActiveAt(tab) /\ new[i] = tab[i]
      OBVIOUS
    <3>1. i \in 1 .. Len(tab) + 1 /\ i # Len(tab) + 1
      BY <1>2, <2>1 DEF ActiveAt
    <3>2. i \in 1 .. Len(tab)
      BY <2>1, <3>1
    <3> QED BY <2>1, <3>2 DEF ActiveAt
  <2>3. Distinct(new)
    BY <1>3, <2>2 DEF Distinct
  <2> QED BY <2>3 DEF new
<1> QED BY <1>1, <1>2, <1>3 DEF cron_all

\* The lines of a variant command are marked #TMP.
LEMMA KnownAdded ==
  ASSUME NEW tab \in Seq(KnownLine), NEW k \in DeviceKey \cap TmpKeys
  PROVE  DeviceLine(k, TRUE) \in KnownLine /\ add_begin(tab, k) \in Seq(KnownLine)
<1>1. DeviceLine(k, TRUE) \in Line /\ ~IsClient(DeviceLine(k, TRUE))
  BY DeviceLineIsNone
<1>2. /\ DeviceLine(k, TRUE).held = << >> /\ DeviceLine(k, TRUE).by = << >>
      /\ DeviceLine(k, TRUE).tmp /\ DeviceLine(k, TRUE).key = k
  BY DEF DeviceLine
<1>3. Known(DeviceLine(k, TRUE))
  BY <1>1, <1>2 DEF Known
<1> QED BY <1>1, <1>3, KnownAppend DEF KnownLine, add_begin

\* The clear line of a two-part command is about two different lines.
LEMMA KnownTwoPart ==
  ASSUME NEW tab \in Seq(KnownLine), NEW b \in DeviceKey \cap TmpKeys,
         NEW e \in DeviceKey \cap TmpKeys, b.sched.rec = e.sched.rec, b # e,
         NEW year, NEW minute
  PROVE  add_begin_end(tab, b, e, year, minute) \in Seq(KnownLine)
<1> DEFINE one == add_begin(tab, b)
           both == one \o <<DeviceLine(e, TRUE)>>
           x == ClientLine(clear_tbl(b, year, minute), "clear", b, e, << >>)
           new == add_begin_end(tab, b, e, year, minute)
<1>1. one \in Seq(KnownLine) /\ DeviceLine(e, TRUE) \in KnownLine
  BY KnownAdded
<1>2. both = Append(one, DeviceLine(e, TRUE)) /\ both \in Seq(KnownLine)
  <2> HIDE DEF one
  <2>1. both = Append(one, DeviceLine(e, TRUE))
    BY <1>1, AppendIsConcat
  <2> QED BY <1>1, <2>1, KnownAppend
<1> HIDE DEF both
<1>3. CASE b.sched.rec \/ tbl_is_now_p(b.sched, minute)
  BY <1>2, <1>3 DEF add_begin_end, both
<1>4. CASE ~(b.sched.rec \/ tbl_is_now_p(b.sched, minute))
  <2>1. new = Append(both, x)
    BY <1>4 DEF add_begin_end, both
  <2>2. b \in OnceKey /\ e \in OnceKey
    BY <1>4, OnceDevice
  <2>3. x \in Line
    BY <2>2, ClearLineType
  <2>4. IsClient(x) /\ x.key.b = b /\ x.key.e = e /\ x.held = << >>
    BY DEF ClientLine, IsClient, IsEntry
  <2> HIDE DEF x
  <2>5. Known(x)
    BY <2>4 DEF Known, NoRepeats
  <2>6. x \in KnownLine
    BY <2>3, <2>5 DEF KnownLine
  <2> QED BY <1>2, <2>1, <2>6, KnownAppend
<1> QED BY <1>3, <1>4

\* With nothing on hold clear_schedule_for() finds the epochs it looks up.
LEMMA ClearSucceeds ==
  ASSUME NEW tab \in Seq(Line), OnHoldAt(tab) = {}, NEW b \in OnceKey, NEW e \in OnceKey
  PROVE  ~clear_fails(tab, b, e)
<1> DEFINE jobs == cronjob_line_numbers(tab)
           sums == cronjob_md5sumhexa(tab)
<1>1. ASSUME NEW k \in OnceKey, md5sumhexa_to_jobnum(tab, k) # 0
      PROVE  HasJobEpoch(tab, md5sumhexa_to_jobnum(tab, k))
  <2> DEFINE I == {i \in DOMAIN sums : sums[i] = k}
             n == md5sumhexa_to_jobnum(tab, k)
  <2>1. sums \in Seq(Key) /\ n = LastOf(I)
    BY ParallelArrays DEF md5sumhexa_to_jobnum
  <2>2. I \in SUBSET (1 .. Len(sums)) /\ Len(sums) \in Nat
    BY <2>1, LenProperties
  <2>3. n \in I
    <3> HIDE DEF I
    <3> QED BY <1>1, <2>1, <2>2, FirstLast
  <2>4. n \in DOMAIN jobs /\ tab[jobs[n]].key = k
    BY <2>3, ArraysAgree
  <2>5. ~k.sched.rec
    BY OnceKeys
  <2> HIDE DEF n
  <2>6. HasJobEpoch(tab, n)
    BY <2>4, <2>5 DEF HasJobEpoch, HasEpoch
  <2> QED BY <2>6 DEF n
<1> QED BY <1>1 DEF clear_fails

\* What is to be held are lines of different md5sums: the list has no repeats.
LEMMA ClearLists ==
  ASSUME NEW tab \in Seq(KnownLine), Distinct(tab), OnHoldAt(tab) = {},
         TmpKeys \cap OwnKeys = {},
         NEW b \in OnceKey, NEW e \in OnceKey, NEW minute,
         ~clear_fails(tab, b, e), ~clear_returns(tab, b, e)
  PROVE  NoRepeats(KeepAt(cronjob_md5sumhexa(tab), jobs_to_hold(tab, b, e, minute)))
<1> DEFINE jobs == cronjob_line_numbers(tab)
           sums == cronjob_md5sumhexa(tab)
           hold == jobs_to_hold(tab, b, e, minute)
           A == ActiveAt(tab)
<1>1. /\ tab \in Seq(Line) /\ \A i \in DOMAIN tab : Known(tab[i])
      /\ Len(tab) \in Nat /\ DOMAIN tab = 1 .. Len(tab)
  BY KnownIsTable, KnownTable, LenProperties
<1>2. /\ \A k \in hold : k \in DOMAIN jobs /\ jobs[k] \in A /\ ~IsClient(tab[jobs[k]])
      /\ \A k \in hold : sums[k] = tab[jobs[k]].key
      /\ hold \in SUBSET (DOMAIN sums) /\ sums \in Seq(Key)
  <2>1. \A k \in hold : k \in DOMAIN jobs /\ jobs[k] \in A /\ ~IsClient(tab[jobs[k]])
    BY <1>1, HoldScripts
  <2>2. DOMAIN sums = DOMAIN jobs /\ \A k \in DOMAIN jobs : sums[k] = tab[jobs[k]].key
    BY <1>1, ArraysAgree
  <2>3. sums \in Seq(Key)
    BY <1>1, ParallelArrays
  <2> HIDE DEF hold, sums, jobs
  <2> QED BY <2>1, <2>2, <2>3
<1>3. \A k, l \in DOMAIN jobs : jobs[k] = jobs[l] => k = l
  <2>1. A \in SUBSET (1 .. Len(tab)) /\ jobs = Ascending(A)
    BY <1>1 DEF ActiveAt, cronjob_line_numbers
  <2>2. DOMAIN jobs = 1 .. Cardinality(A)
    BY <1>1, ParallelArrays
  <2> HIDE DEF A, jobs
  <2>3. \A k \in 1 .. Cardinality(A) : Rank(A, jobs[k]) = k
    BY <1>1, <2>1, AscendingOnto
  <2> QED BY <2>2, <2>3
<1>4. ASSUME NEW i \in A, NEW j \in A, ~IsClient(tab[i]), ~IsClient(tab[j]),
             tab[i].key = tab[j].key
      PROVE  i = j
  <2> DEFINE x == tab[i]
             y == tab[j]
  <2>1. /\ x \in Line /\ y \in Line /\ Known(x) /\ Known(y)
        /\ IsEntry(x) /\ IsEntry(y) /\ ~x.onhold /\ ~y.onhold
    BY <1>1, ElementOfSeq DEF ActiveAt, Active
  <2>2. x \in Entry /\ y \in Entry
    BY <2>1, EntryOfLine
  <2> HIDE DEF x, y
  <2>3. x.held = << >> /\ y.held = << >> /\ x.by = << >> /\ y.by = << >>
    BY <1>4, <2>1 DEF Known, x, y
  <2>4. /\ x.tmp \in BOOLEAN /\ y.tmp \in BOOLEAN
        /\ x.tmp => x.key \in TmpKeys
        /\ ~x.tmp => x.key \in OwnKeys
        /\ y.tmp => y.key \in TmpKeys
        /\ ~y.tmp => y.key \in OwnKeys
    BY <1>4, <2>1, <2>2 DEF Known, Entry, x, y
  <2>5. x.key = y.key
    BY <1>4 DEF x, y
  <2>6. x.tmp <=> y.tmp
    BY <2>4, <2>5
  <2>7. x.tmp = y.tmp /\ x.onhold = y.onhold /\ x.kind = y.kind
    BY <2>1, <2>2, <2>6 DEF Entry
  <2>8. x = y
    BY <2>2, <2>3, <2>5, <2>7 DEF Entry
  <2> QED BY <2>8 DEF Distinct, x, y
<1> HIDE DEF jobs, sums, hold, A
<1>5. \A k, l \in hold : sums[k] = sums[l] => k = l
  BY <1>2, <1>3, <1>4
<1>6. DOMAIN sums = 1 .. Len(sums) /\ Len(sums) \in Nat
  BY <1>2, LenProperties
<1>7. \A k \in 1 .. Cardinality(hold) :
        Ascending(hold)[k] \in hold /\ Rank(hold, Ascending(hold)[k]) = k
  BY <1>2, <1>6, AscendingOnto
<1>8. /\ DOMAIN KeepAt(sums, hold) = 1 .. Cardinality(hold)
      /\ \A k \in 1 .. Cardinality(hold) : KeepAt(sums, hold)[k] = sums[Ascending(hold)[k]]
  BY DEF KeepAt
<1>9. ASSUME NEW p \in DOMAIN KeepAt(sums, hold), NEW q \in DOMAIN KeepAt(sums, hold),
             KeepAt(sums, hold)[p] = KeepAt(sums, hold)[q]
      PROVE  p = q
  <2>1. Ascending(hold)[p] = Ascending(hold)[q]
    BY <1>5, <1>7, <1>8, <1>9
  <2> QED BY <1>7, <1>8, <2>1
<1>10. NoRepeats(KeepAt(sums, hold))
  BY <1>9 DEF NoRepeats
<1> QED BY <1>10 DEF sums, hold

\* So clear_schedule_for() makes known lines.
LEMMA KnownCleared ==
  ASSUME NEW tab \in Seq(KnownLine), Distinct(tab), OnHoldAt(tab) = {},
         TmpKeys \cap OwnKeys = {},
         NEW b \in OnceKey, NEW e \in OnceKey, b # e, NEW minute,
         ~clear_fails(tab, b, e), ~clear_returns(tab, b, e)
  PROVE  clear_schedule_for(tab, b, e, minute) \in Seq(KnownLine)
<1> DEFINE jobs == cronjob_line_numbers(tab)
           hold == jobs_to_hold(tab, b, e, minute)
           sums == cronjob_md5sumhexa(tab)
           held == KeepAt(sums, hold)
           lines == {jobs[k] : k \in hold}
           new == hold_lines(tab, lines, <<b, e>>)
           unhold == ClientLine(schedule_end(tab, e), "unhold", b, e, held)
           longer == Append(new, unhold)
           line == linenum_of_clear_schedule(tab, b, e)
<1>1. clear_schedule_for(tab, b, e, minute) = tblDeleteLines(longer, {line})
  BY DEF clear_schedule_for
<1>2. tab \in Seq(Line)
  BY KnownIsTable
<1>3. \A k \in hold : k \in DOMAIN jobs /\ jobs[k] \in ActiveAt(tab) /\ ~IsClient(tab[jobs[k]])
  BY <1>2, HoldScripts
<1>4. held \in Seq(Key) /\ NoRepeats(held)
  <2>1. sums \in Seq(Key) /\ hold \in SUBSET (DOMAIN sums)
    BY <1>2, <1>3, ParallelArrays
  <2>2. NoRepeats(held)
    BY ClearLists
  <2> HIDE DEF sums, hold
  <2> QED BY <2>1, <2>2, KeepAtLines
<1> HIDE DEF held
<1>5. new \in Seq(KnownLine)
  <2>1. /\ lines \in SUBSET ActiveAt(tab) /\ \A i \in lines : ~IsClient(tab[i])
        /\ <<b, e>> \in Instigator
    BY <1>3, OnceKeys DEF Instigator
  <2> HIDE DEF lines
  <2> QED BY <2>1, KnownMarks
<1>6. unhold \in KnownLine
  <2>1. unhold \in Line
    BY <1>2, <1>4, ScheduleEndType, WrittenLines
  <2>2. IsClient(unhold) /\ unhold.key.b = b /\ unhold.key.e = e /\ unhold.held = held
    BY DEF ClientLine, IsClient, IsEntry
  <2> HIDE DEF unhold
  <2>3. Known(unhold)
    BY <1>4, <2>2 DEF Known
  <2> QED BY <2>1, <2>3 DEF KnownLine
<1> HIDE DEF new, unhold
<1>7. longer \in Seq(KnownLine) /\ longer \in Seq(Line)
  BY <1>5, <1>6, KnownAppend, KnownIsTable
<1> HIDE DEF longer
<1>8. tblDeleteLines(longer, {line}) \in Seq(KnownLine)
  BY <1>7, DeleteFrom, KnownPart
<1> QED BY <1>1, <1>8

\* The list of an unhold line has no repeats: unhold_jobs_delete_jobs() does not
\* look for a mark it has taken.
LEMMA UnholdSucceeds ==
  ASSUME NEW tab, NEW held, NoRepeats(held), NEW b, NEW e, b # e
  PROVE  ~unhold_fails(tab, held, b, e)
<1>1. CASE held = << >>
  BY <1>1 DEF unhold_fails, unhold_words
<1>2. CASE held # << >>
  BY <1>2 DEF unhold_fails, unhold_words, NoRepeats
<1> QED BY <1>1, <1>2

\* The edits that mark or delete make known lines.
LEMMA KnownEdited ==
  ASSUME NEW tab \in Seq(KnownLine)
  PROVE  /\ \A held, b, e : unhold_jobs_delete_jobs(tab, held, b, e) \in Seq(KnownLine)
         /\ unhold_all_jobs(tab) \in Seq(KnownLine)
         /\ \A minute : delete_old_cron_jobs(tab, minute) \in Seq(KnownLine)
<1>1. tab \in Seq(Line) /\ Len(tab) \in Nat /\ DOMAIN tab = 1 .. Len(tab)
  BY KnownIsTable, LenProperties
<1>2. ASSUME NEW new \in Seq(KnownLine), NEW D
      PROVE  tblDeleteLines(new, D) \in Seq(KnownLine)
  BY KnownIsTable, DeleteFrom, KnownPart
<1>3. ASSUME NEW held, NEW b, NEW e
      PROVE  unhold_jobs_delete_jobs(tab, held, b, e) \in Seq(KnownLine)
  <2> DEFINE words == ToSet(unhold_words(held, b, e))
             lines == {onholdjob_linenum(tab, w) : w \in words}
  <2>1. ASSUME NEW w \in words
        PROVE  onholdjob_linenum(tab, w) \in OnHoldAt(tab) \cup {0}
    BY <1>1, OnHoldLookup
  <2>2. lines \in SUBSET (OnHoldAt(tab) \cup {0})
    BY <2>1
  <2>3. unhold_lines(tab, lines) \in Seq(KnownLine)
    <3> HIDE DEF lines
    <3> QED BY <2>2, KnownMarks
  <2> QED BY <1>2, <2>3 DEF unhold_jobs_delete_jobs
<1>4. unhold_all_jobs(tab) \in Seq(KnownLine)
  BY KnownMarks DEF unhold_all_jobs
<1>5. \A minute : delete_old_cron_jobs(tab, minute) \in Seq(KnownLine)
  BY <1>2 DEF delete_old_cron_jobs
<1> QED BY <1>3, <1>4, <1>5

\* Where "delete old" is used every #TMP line has an epoch.
LEMMA DeleteOldSucceeds ==
  ASSUME NEW tab \in Seq(KnownLine), Tidy(tab), \A k \in TmpKeys : ~k.sched.rec
  PROVE  ~delete_old_fails(tab)
<1>1. \A i \in DOMAIN tab : Known(tab[i])
  BY KnownIsTable, KnownTable
<1>2. ASSUME NEW i \in tmp_line_numbers(tab)
      PROVE  HasEpoch(tab[i].key.sched)
  <2>1. i \in DOMAIN tab /\ IsEntry(tab[i]) /\ tab[i].tmp
    BY DEF tmp_line_numbers, ActiveAt, OnHoldAt, Active, OnHold
  <2>2. ~IsClient(tab[i])
    BY <2>1 DEF Tidy, OneClient, ClientsAt
  <2> QED BY <1>1, <2>1, <2>2 DEF Known, HasEpoch
<1> QED BY <1>2 DEF delete_old_fails

\* The crontab as a handler reads it.
LEMMA KnownRead ==
  ASSUME AliveInv
  PROVE  /\ cron_all(crontab) \in Seq(KnownLine)
         /\ Distinct(crontab) => Distinct(cron_all(crontab))
BY KnownAppend DEF AliveInv

\* The stack of known tables.
LEMMA KnownHistory ==
  ASSUME AliveInv
  PROVE  /\ Push(history, cron_all(crontab)) \in Seq(Seq(KnownLine))
         /\ Push(<< >>, cron_all(crontab)) \in Seq(Seq(KnownLine))
         /\ Pop(history) \in Seq(Seq(KnownLine))
         /\ Pop(Pop(history)) \in Seq(Seq(KnownLine))
         /\ Pop(history) # << >> => Last(Pop(history)) \in Seq(KnownLine)
<1>1. history \in Seq(Seq(KnownLine)) /\ << >> \in Seq(Seq(KnownLine))
  BY EmptySeq DEF AliveInv
<1>2. Pop(history) \in Seq(Seq(KnownLine))
  BY <1>1, StackType
<1>3. /\ Pop(Pop(history)) \in Seq(Seq(KnownLine))
      /\ Pop(history) # << >> => Last(Pop(history)) \in Seq(KnownLine)
  BY <1>2, StackType
<1>4. /\ Push(history, cron_all(crontab)) \in Seq(Seq(KnownLine))
      /\ Push(<< >>, cron_all(crontab)) \in Seq(Seq(KnownLine))
  BY <1>1, KnownRead, StackType
<1> QED BY <1>2, <1>3, <1>4

\* At the start every line is one of the user's.
LEMMA InitAlive == Wholesome /\ Init => AliveInv
<1> SUFFICES ASSUME Wholesome, Init PROVE AliveInv
  OBVIOUS
<1>1. crontab = Crontab0 /\ crontab \in Seq(Line)
  BY Crontab0Assumption DEF Init
<1>2. ASSUME NEW i \in DOMAIN crontab, IsEntry(crontab[i])
      PROVE  Known(crontab[i])
  <2>1. crontab[i] \in Entry
    BY <1>1, <1>2, LenProperties, ElementOfSeq, EntryOfLine
  <2>2. /\ ~IsClient(crontab[i]) /\ crontab[i].held = << >> /\ crontab[i].by = << >>
        /\ crontab[i].tmp \in BOOLEAN
    BY <1>1, <1>2, <2>1, NoClientLinesAssumption DEF Wholesome, Entry
  <2>3. CASE crontab[i].tmp = TRUE
    <3>1. crontab[i].key \in LinesOf(Crontab0, TRUE)
      BY <1>1, <1>2, <2>3 DEF LinesOf
    <3> QED BY <2>2, <2>3, <3>1 DEF Known, TmpKeys
  <2>4. CASE crontab[i].tmp = FALSE
    <3>1. crontab[i].key \in LinesOf(Crontab0, FALSE)
      BY <1>1, <1>2, <2>4 DEF LinesOf
    <3> QED BY <2>2, <2>4, <3>1 DEF Known, OwnKeys
  <2> QED BY <2>2, <2>3, <2>4
<1>3. \A i \in DOMAIN crontab : Known(crontab[i])
  BY <1>2 DEF Known
<1>4. crontab \in Seq(KnownLine)
  BY <1>1, <1>3, KnownTable
<1>5. cron_all(crontab) \in Seq(KnownLine)
  BY <1>4, KnownAppend
<1>6. history \in Seq(Seq(KnownLine)) /\ work \in Seq(KnownLine)
  BY <1>1, <1>5, EmptySeq, StackType DEF Init
<1>7. inbox = << >> /\ DOMAIN inbox = {} /\ req.kind = "none" /\ pc = "accept"
  BY DEF Init, NoReq
<1>8. NoClients(crontab)
  BY <1>1, NoClientLinesAssumption DEF NoClients, ClientsAt
<1>9. DistinctBefore
  BY <1>7, <1>8 DEF DistinctBefore
<1> QED BY <1>4, <1>6, <1>7, <1>9 DEF AliveInv, ServerAlive, KnownMessage

\* A step of the server that neither writes the crontab nor ends it.
LEMMA HandlerAlive ==
  ASSUME AliveInv, UNCHANGED <<crontab, inbox>>, req' \in {req, NoReq},
         pc' \in {"accept", "submit", "resubmit"}, work' \in Seq(KnownLine),
         history' \in Seq(Seq(KnownLine))
  PROVE  AliveInv'
<1>1. NoReq.kind = "none"
  BY DEF NoReq
<1>2. KnownMessage(req') /\ (req.kind # "clear" => req'.kind # "clear")
  BY <1>1 DEF AliveInv, KnownMessage
<1>3. DistinctBefore'
  BY <1>2 DEF AliveInv, DistinctBefore
<1> QED BY <1>2, <1>3 DEF AliveInv, ServerAlive

\* A loss of power, and the start after it.
LEMMA PowerAlive ==
  ASSUME AliveInv, PowerFail \/ Boot
  PROVE  AliveInv'
<1>1. CASE PowerFail
  <2>1. /\ inbox' = << >> /\ DOMAIN inbox' = {} /\ req'.kind = "none" /\ pc' = "off"
        /\ work' = << >> /\ history' = << >> /\ crontab' = crontab
    BY <1>1 DEF PowerFail, Lost, NoReq
  <2>2. DistinctBefore'
    BY <2>1 DEF AliveInv, DistinctBefore
  <2>3. work' \in Seq(KnownLine) /\ history' \in Seq(Seq(KnownLine))
    BY <2>1, EmptySeq
  <2> QED BY <2>1, <2>2, <2>3 DEF AliveInv, ServerAlive, KnownMessage
<1>2. CASE Boot
  BY <1>2, KnownHistory, HandlerAlive DEF Boot, AliveInv
<1> QED BY <1>1, <1>2

\* Client lines send messages about two lines, with lists that have no repeats.
LEMMA TickAlive ==
  ASSUME OneByOne, TypeOK, AliveInv, Tick
  PROVE  AliveInv'
<1> DEFINE fired == IF pc = "off" THEN {} ELSE FiredAt(crontab, now')
           clients == {i \in fired : IsClient(crontab[i])}
           messages == {MessageOf(crontab[i]) : i \in clients}
<1>1. UNCHANGED <<crontab, pc, req, work, history>> /\ inbox = << >>
  BY DEF OneByOne, Tick, Idle
<1>2. CASE inbox' = inbox
  BY <1>1, <1>2 DEF AliveInv, ServerAlive, DistinctBefore
<1>3. CASE \E arrivals \in SetToSeqs(messages) : inbox' = inbox \o arrivals
  <2>1. PICK arrivals \in SetToSeqs(messages) : inbox' = inbox \o arrivals
    BY <1>3
  <2>2. clients \subseteq ClientsAt(crontab) /\ clients \in SUBSET (DOMAIN crontab)
    BY DEF FiredAt, ActiveAt, ClientsAt
  <2>3. arrivals \in Seq(Received)
    BY <2>2, ArrivalsType DEF TypeOK, ClientsAt
  <2>4. inbox' = arrivals
    BY <1>1, <2>1, <2>3
  <2>5. \A n \in DOMAIN arrivals : arrivals[n] \in messages
    BY DEF SetToSeqs, IsInjective
  <2>6. \A i \in ClientsAt(crontab) : KnownMessage(MessageOf(crontab[i]))
    <3>1. \A i \in DOMAIN crontab : Known(crontab[i])
      BY KnownTable DEF TypeOK, AliveInv
    <3>2. \A i \in ClientsAt(crontab) :
            /\ IsEntry(crontab[i]) /\ IsClient(crontab[i]) /\ Known(crontab[i])
      BY <3>1 DEF ClientsAt, IsClient
    <3> QED BY <3>2 DEF Known, KnownMessage, MessageOf
  <2>7. \A n \in DOMAIN inbox' : KnownMessage(inbox'[n])
    BY <2>2, <2>4, <2>5, <2>6
  <2>8. (\E n : n \in DOMAIN arrivals) => ~NoClients(crontab)
    BY <2>2, <2>5 DEF NoClients
  <2>9. DistinctBefore'
    BY <1>1, <2>4, <2>8 DEF AliveInv, DistinctBefore
  <2> QED BY <1>1, <2>7, <2>9 DEF AliveInv, ServerAlive
<1> QED BY <1>2, <1>3 DEF Tick

\* Users send no client messages.
LEMMA UserSendsAlive ==
  ASSUME TypeOK, AliveInv, NEW c \in UserCommands, UserSends(c)
  PROVE  AliveInv'
<1>1. UNCHANGED <<crontab, pc, req, work, history>>
  BY DEF UserSends
<1>2. /\ Len(inbox) \in Nat /\ DOMAIN inbox = 1 .. Len(inbox)
      /\ DOMAIN inbox' = 1 .. Len(inbox) + 1
      /\ \A n \in 1 .. Len(inbox) : inbox'[n] = inbox[n]
      /\ inbox'[Len(inbox) + 1] = c
  <2>1. c \in Received /\ inbox \in Seq(Received) /\ inbox' = Append(inbox, c)
    BY DEF TypeOK, UserSends, Received
  <2> QED BY <2>1, AppendProperties, LenProperties
<1>3. c.kind \notin {"clear", "unhold"}
  BY UserCommandsAssumption DEF Command, Failing
<1>4. \A n \in DOMAIN inbox' : n = Len(inbox) + 1 \/ n \in DOMAIN inbox
  BY <1>2
<1>5. \A n \in DOMAIN inbox' : KnownMessage(inbox'[n])
  BY <1>2, <1>3, <1>4 DEF AliveInv, KnownMessage
<1>6. DistinctBefore'
  BY <1>1, <1>2, <1>3, <1>4 DEF AliveInv, DistinctBefore
<1> QED BY <1>1, <1>5, <1>6 DEF AliveInv, ServerAlive

\* The owner's lines are not the server's.
LEMMA OwnerAddsAlive ==
  ASSUME OneByOne, TypeOK, AliveInv, NEW x \in OwnerLines, OwnerAdds(x)
  PROVE  AliveInv'
<1>1. crontab' = Append(crontab, x) /\ UNCHANGED <<inbox, pc, req, work, history>>
  BY DEF OwnerAdds
<1>2. PICK k \in DeviceKey : x = DeviceLine(k, FALSE)
  BY OwnerLinesAssumption
<1>3. x \in Line /\ ~IsClient(x) /\ ~OnHold(x)
  BY <1>2, DeviceLineIsNone
<1>4. x \in KnownLine
  <2>1. x.held = << >> /\ x.by = << >> /\ x.tmp = FALSE /\ x.key \in OwnKeys
    BY <1>2 DEF DeviceLine, OwnKeys
  <2> QED BY <1>3, <2>1 DEF KnownLine, Known
<1>5. crontab' \in Seq(KnownLine)
  BY <1>1, <1>4, KnownAppend DEF AliveInv
<1>6. ~Pending
  BY DEF OneByOne, OwnerAdds
<1>7. NoClients(crontab) /\ req.kind \notin TwoKinds
  BY <1>6 DEF Pending, NoClients, ClientsAt, TwoKinds
<1>8. \A n \in DOMAIN inbox : inbox[n].kind \notin TwoKinds
  <2>1. \A n \in DOMAIN inbox : inbox[n] \in ToSet(inbox)
    BY DEF ToSet
  <2> QED BY <1>6, <2>1 DEF Pending, TwoKinds
<1>9. NoClients(crontab') /\ pc # "clear_now"
  BY <1>1, <1>3, <1>7, AppendTidy DEF TypeOK, TwoKinds
<1>10. DistinctBefore'
  BY <1>1, <1>7, <1>8, <1>9 DEF DistinctBefore, TwoKinds
<1> QED BY <1>1, <1>5, <1>10 DEF AliveInv, ServerAlive

\* A connection is accepted; none is silent.
LEMMA AcceptAlive ==
  ASSUME TypeOK, AliveInv, Accept
  PROVE  AliveInv'
<1>1. /\ pc' = "dispatch" /\ inbox # << >>
      /\ req' = Head(inbox) /\ inbox' = Tail(inbox)
      /\ history' = Push(history, cron_all(crontab))
      /\ crontab' = crontab /\ work' = work
  BY DEF Accept
<1>2. /\ 1 \in DOMAIN inbox /\ req' = inbox[1]
      /\ \A n \in DOMAIN inbox' : n + 1 \in DOMAIN inbox /\ inbox'[n] = inbox[n + 1]
  <2>1. /\ DOMAIN inbox = 1 .. Len(inbox) /\ Len(inbox) \in Nat
        /\ DOMAIN inbox' = 1 .. Len(inbox) - 1 /\ req' = inbox[1]
        /\ \A n \in DOMAIN inbox' : inbox'[n] = inbox[n + 1]
    BY <1>1, LenProperties, HeadTailProperties DEF TypeOK
  <2>2. Len(inbox) # 0
    BY <1>1, EmptySeq, LenProperties DEF TypeOK
  <2> QED BY <2>1, <2>2
<1>3. KnownMessage(req') /\ \A n \in DOMAIN inbox' : KnownMessage(inbox'[n])
  BY <1>2 DEF AliveInv
<1>4. DistinctBefore'
  BY <1>1, <1>2 DEF AliveInv, DistinctBefore
<1>5. history' \in Seq(Seq(KnownLine))
  BY <1>1, KnownHistory
<1> QED BY <1>1, <1>3, <1>4, <1>5 DEF AliveInv, ServerAlive

\* clear_schedule_for(), called by a client line or by a two-part command that
\* begins now, finds what it looks up and makes a table of known lines.
LEMMA ClearAlive ==
  ASSUME TypeOK, HeldInv, AliveInv, Wholesome, NEW b \in OnceKey, NEW e \in OnceKey, b # e,
         Sends(crontab, [kind |-> "clear", b |-> b, e |-> e]), Distinct(crontab)
  PROVE  LET tab == cron_all(crontab)
         IN  /\ ~clear_fails(tab, b, e)
             /\ ~clear_returns(tab, b, e) => clear_schedule_for(tab, b, e, now) \in Seq(KnownLine)
<1> DEFINE tab == cron_all(crontab)
<1>1. /\ tab \in Seq(Line) /\ Tidy(tab)
      /\ Sends(tab, [kind |-> "clear", b |-> b, e |-> e])
  BY CronAllTidy DEF TypeOK, HeldInv
<1>2. tab \in Seq(KnownLine) /\ Distinct(tab)
  BY KnownRead
<1> HIDE DEF tab
<1>3. OnHoldAt(tab) = {}
  <2>1. \A i \in ClientsAt(tab) : tab[i].key.do # "unhold"
    BY <1>1, SendsClear
  <2> QED BY <1>1, <2>1, NoUnholdNoneOnHold
<1>4. ~clear_fails(tab, b, e)
  BY <1>1, <1>3, ClearSucceeds
<1>5. ~clear_returns(tab, b, e) => clear_schedule_for(tab, b, e, now) \in Seq(KnownLine)
  BY <1>2, <1>3, <1>4, KnownCleared DEF Wholesome
<1> QED BY <1>4, <1>5 DEF tab

\* The command in hand is one that users send here, or a client's.
LEMMA KindsInHand ==
  ASSUME Wholesome, TypeOK, pc = "dispatch"
  PROVE  /\ req.kind \notin Failing /\ req \in Message
         /\ req.kind = "delete_old" => \A k \in TmpKeys : ~k.sched.rec
         /\ req.kind = "one" => KeyBegin(req) \in DeviceKey \cap TmpKeys
         /\ req.kind = "two" => /\ KeyBegin(req) \in DeviceKey \cap TmpKeys
                                /\ KeyEnd(req) \in DeviceKey \cap TmpKeys
                                /\ KeyBegin(req).sched.rec = KeyEnd(req).sched.rec
                                /\ KeyBegin(req) # KeyEnd(req)
<1>1. req \in Received /\ req \in Message
  BY ReceivedAreMessages DEF TypeOK
<1>2. req \in UserCommands \/ req.kind \in {"clear", "unhold"}
  BY <1>1 DEF Received, CronMessage
<1>3. req.kind \notin Failing /\ (req.kind = "delete_old" => \A k \in TmpKeys : ~k.sched.rec)
  BY <1>2 DEF Wholesome, Failing
<1>4. req.kind \in {"one", "two"} => KeyBegin(req) \in TmpKeys
  BY <1>2 DEF TmpKeys
<1>5. req.kind = "two" => KeyEnd(req) \in TmpKeys
  BY <1>2 DEF TmpKeys
<1>6. KeyBegin(req) # KeyEnd(req)
  <2>1. KeyBegin(req).do = req.do /\ KeyEnd(req).do = EndDisposition(req.do)
    BY DEF KeyBegin, KeyEnd
  <2>2. EndDisposition(req.do) # req.do
    BY DEF EndDisposition
  <2> QED BY <2>1, <2>2
<1> QED BY <1>1, <1>3, <1>4, <1>5, <1>6, KeyTypes

\* Every handler of the main loop gets to its end.
LEMMA HandlersAlive ==
  ASSUME OneByOne, Wholesome, TypeOK, HeldInv, AliveInv, Handler
  PROVE  AliveInv'
<1> DEFINE tab == cron_all(crontab)
<1>1. pc = "dispatch" /\ NoReq \in {req, NoReq} /\ req \in {req, NoReq}
  BY DEF Handler, HandleList, HandleLast, HandleFailing, HandleDo, HandleDeleteOld,
         HandleCancelLast, HandleHoldAll, HandleUnholdAll, HandleClear, HandleUnhold,
         HandleOnePart, HandleTwoPart, Dispatch
<1>2. tab \in Seq(KnownLine) /\ << >> \in Seq(KnownLine)
  BY KnownRead, EmptySeq
<1>3. tab \in Seq(Line) /\ Tidy(tab)
  BY CronAllTidy DEF TypeOK, HeldInv
<1>4. history \in Seq(Seq(KnownLine)) /\ Pop(history) \in Seq(Seq(KnownLine))
  BY KnownHistory DEF AliveInv
<1>5. ASSUME Finish, UNCHANGED <<crontab, inbox>>, history' \in Seq(Seq(KnownLine))
      PROVE  AliveInv'
  BY <1>2, <1>5, HandlerAlive DEF Finish
<1>6. ASSUME NEW array \in Seq(KnownLine), GoSubmit(array), UNCHANGED <<crontab, inbox>>,
             history' \in Seq(Seq(KnownLine))
      PROVE  AliveInv'
  BY <1>6, HandlerAlive DEF GoSubmit
<1> HIDE DEF tab
<1>7. CASE HandleList \/ HandleLast \/ HandleDo
  <2>1. Finish /\ UNCHANGED <<crontab, inbox>> /\ history' \in {history, Pop(history)}
    BY <1>7 DEF HandleList, HandleLast, HandleDo
  <2> QED BY <1>4, <1>5, <2>1
<1>8. ~HandleFailing
  BY <1>1, KindsInHand DEF HandleFailing
<1>9. CASE HandleDeleteOld
  <2>1. ~delete_old_fails(tab)
    BY <1>1, <1>2, <1>3, <1>9, KindsInHand, DeleteOldSucceeds DEF HandleDeleteOld, Dispatch
  <2>2. GoSubmit(delete_old_cron_jobs(tab, now)) /\ UNCHANGED <<crontab, inbox, history>>
    BY <1>9, <2>1 DEF HandleDeleteOld, tab
  <2>3. delete_old_cron_jobs(tab, now) \in Seq(KnownLine)
    BY <1>2, KnownEdited
  <2> QED BY <1>4, <1>6, <2>2, <2>3
<1>10. CASE HandleCancelLast
  <2>1. /\ UNCHANGED <<crontab, inbox>> /\ history' = Pop(Pop(history))
        /\ IF Pop(history) = << >> THEN Finish ELSE GoSubmit(Last(Pop(history)))
    BY <1>10 DEF HandleCancelLast
  <2> QED BY <1>5, <1>6, <2>1, KnownHistory
<1>11. ~HandleHoldAll
  <2>1. \A m \in Received : m.kind # "hold_all"
    BY DEF OneByOne, Received, CronMessage
  <2> QED BY <1>1, <2>1, InHand DEF HeldInv, HandleHoldAll, Dispatch
<1>12. CASE HandleUnholdAll
  <2>1. /\ UNCHANGED <<crontab, inbox, history>>
        /\ Finish \/ GoSubmit(unhold_all_jobs(tab))
    BY <1>12 DEF HandleUnholdAll, tab
  <2>2. unhold_all_jobs(tab) \in Seq(KnownLine)
    BY <1>2, KnownEdited
  <2> QED BY <1>4, <1>5, <1>6, <2>1, <2>2
<1>13. CASE HandleClear
  <2>1. req.kind = "clear" /\ ClearScheduleFor(req.b, req.e)
    BY <1>13 DEF HandleClear, Dispatch
  <2>2. req.b \in OnceKey /\ req.e \in OnceKey /\ req.b # req.e /\ Distinct(crontab)
    BY <1>1, <2>1, InHand, MessageKinds
       DEF HeldInv, AliveInv, KnownMessage, DistinctBefore
  <2>3. Sends(crontab, [kind |-> "clear", b |-> req.b, e |-> req.e])
    <3>1. req \in [kind : {"clear"}, b : OnceKey, e : OnceKey]
      BY <1>1, <2>1, InHand, UserCommandsAssumption
         DEF HeldInv, Message, Command, CronMessage, Failing
    <3>2. req = [kind |-> "clear", b |-> req.b, e |-> req.e]
      BY <3>1
    <3>3. Sends(crontab, req)
      BY <2>1 DEF HeldInv, CurrentClient
    <3> QED BY <3>2, <3>3
  <2>4. /\ ~clear_fails(tab, req.b, req.e)
        /\ ~clear_returns(tab, req.b, req.e) =>
             clear_schedule_for(tab, req.b, req.e, now) \in Seq(KnownLine)
    BY <2>2, <2>3, ClearAlive DEF tab
  <2>5. /\ UNCHANGED <<crontab, inbox, history>>
        /\ IF clear_returns(tab, req.b, req.e) THEN Finish
           ELSE GoSubmit(clear_schedule_for(tab, req.b, req.e, now))
    BY <2>1, <2>4 DEF ClearScheduleFor, tab
  <2> QED BY <1>4, <1>5, <1>6, <2>4, <2>5
<1>14. CASE HandleUnhold
  <2>1. req.kind = "unhold"
    BY <1>14 DEF HandleUnhold, Dispatch
  <2>2. req.b # req.e /\ NoRepeats(req.held)
    BY <2>1 DEF AliveInv, KnownMessage
  <2>3. ~unhold_fails(tab, req.held, req.b, req.e)
    BY <2>2, UnholdSucceeds
  <2>4. /\ GoSubmit(unhold_jobs_delete_jobs(tab, req.held, req.b, req.e))
        /\ UNCHANGED <<crontab, inbox, history>>
    BY <1>14, <2>3 DEF HandleUnhold, tab
  <2>5. unhold_jobs_delete_jobs(tab, req.held, req.b, req.e) \in Seq(KnownLine)
    BY <1>2, KnownEdited
  <2> QED BY <1>4, <1>6, <2>4, <2>5
<1>15. CASE HandleOnePart
  <2>1. /\ UNCHANGED <<crontab, inbox, history>> /\ req.kind = "one"
        /\ GoSubmit(add_begin(tab, KeyBegin(req)))
    BY <1>15 DEF HandleOnePart, Dispatch, tab
  <2>2. add_begin(tab, KeyBegin(req)) \in Seq(KnownLine)
    BY <1>1, <1>2, <2>1, KindsInHand, KnownAdded
  <2> QED BY <1>4, <1>6, <2>1, <2>2
<1>16. CASE HandleTwoPart
  <2>1. /\ UNCHANGED <<crontab, inbox, history>> /\ req.kind = "two"
        /\ GoSubmit(add_begin_end(tab, KeyBegin(req), KeyEnd(req), req.year, now))
    BY <1>16 DEF HandleTwoPart, Dispatch, tab
  <2>2. add_begin_end(tab, KeyBegin(req), KeyEnd(req), req.year, now) \in Seq(KnownLine)
    BY <1>1, <1>2, <2>1, KindsInHand, KnownTwoPart
  <2> QED BY <1>4, <1>6, <2>1, <2>2
<1> QED
  BY <1>7, <1>8, <1>9, <1>10, <1>11, <1>12, <1>13, <1>14, <1>15, <1>16 DEF Handler

\* The write, and a two-part command that goes on.
LEMMA WriteAlive ==
  ASSUME AliveInv, Submit \/ Resubmit
  PROVE  AliveInv'
<1>1. /\ crontab' = submit_crontab(work) /\ UNCHANGED <<inbox, history>>
      /\ work' = << >> /\ pc' \in {"accept", "clear_now"} /\ req' \in {req, NoReq}
  BY DEF Submit, Resubmit, Finish
<1>2. crontab' \in Seq(KnownLine) /\ Distinct(crontab')
  BY <1>1, SubmitDistinct DEF AliveInv
<1>3. KnownMessage(req') /\ work' \in Seq(KnownLine)
  BY <1>1, EmptySeq DEF AliveInv, KnownMessage, NoReq
<1>4. DistinctBefore'
  BY <1>2 DEF DistinctBefore
<1> QED BY <1>1, <1>2, <1>3, <1>4 DEF AliveInv, ServerAlive

\* The clear_schedule_for() of a two-part command that begins now.
LEMMA ClearNowAlive ==
  ASSUME Wholesome, TypeOK, HeldInv, AliveInv, ClearNow
  PROVE  AliveInv'
<1> DEFINE tab == cron_all(crontab)
           b == KeyBegin(req)
           e == KeyEnd(req)
           array == clear_schedule_for(tab, b, e, now)
<1>1. pc = "clear_now" /\ req.kind = "two" /\ ~req.at.rec
  BY DEF ClearNow, TypeOK
<1>2. b \in OnceKey /\ e \in OnceKey /\ b # e
  <2>1. b \in OnceKey /\ e \in OnceKey
    BY <1>1, InHand, KeyTypes DEF HeldInv
  <2>2. b.do = req.do /\ e.do = EndDisposition(req.do)
    BY DEF KeyBegin, KeyEnd
  <2>3. EndDisposition(req.do) # req.do
    BY DEF EndDisposition
  <2> QED BY <2>1, <2>2, <2>3
<1>3. Distinct(crontab) /\ Sends(crontab, [kind |-> "clear", b |-> b, e |-> e])
  BY <1>1 DEF HeldInv, AloneInHand, ClearOf, AliveInv, DistinctBefore
<1>4. ~clear_fails(tab, b, e) /\ (~clear_returns(tab, b, e) => array \in Seq(KnownLine))
  BY <1>2, <1>3, ClearAlive
<1>5. history' = history /\ history' \in Seq(Seq(KnownLine)) /\ UNCHANGED <<crontab, inbox>>
  BY <1>4 DEF ClearNow, AliveInv
<1>6. CASE clear_returns(tab, b, e)
  <2>1. Finish
    BY <1>4, <1>6 DEF ClearNow
  <2> QED BY <1>5, <2>1, HandlerAlive, EmptySeq DEF Finish
<1>7. CASE ~clear_returns(tab, b, e)
  <2>1. pc' = "resubmit" /\ work' = array /\ req' = req
    BY <1>4, <1>7 DEF ClearNow
  <2> QED BY <1>4, <1>5, <1>7, <2>1, HandlerAlive
<1> QED BY <1>6, <1>7

\* Every step keeps it, and none is the end of the server.
LEMMA NextAlive ==
  ASSUME OneByOne, Wholesome, TypeOK, HeldInv, AliveInv, [Next]_vars
  PROVE  AliveInv'
<1>1. CASE Tick
  BY <1>1, TickAlive
<1>2. CASE \E c \in UserCommands : UserSends(c)
  BY <1>2, UserSendsAlive
<1>3. CASE \E x \in OwnerLines : OwnerAdds(x)
  BY <1>3, OwnerAddsAlive
<1>4. CASE PowerFail \/ Boot
  BY <1>4, PowerAlive
<1>5. CASE Accept
  BY <1>5, AcceptAlive
<1>6. ~AcceptSilent
  <2>1. \A m \in Received : m.kind # "silent"
    BY DEF Wholesome, Received, CronMessage
  <2>2. inbox # << >> => Head(inbox) \in Received
    BY HeadTailProperties DEF TypeOK
  <2> QED BY <2>1, <2>2 DEF AcceptSilent
<1>7. CASE Handler
  BY <1>7, HandlersAlive
<1>8. CASE Submit \/ Resubmit
  BY <1>8, WriteAlive
<1>9. CASE ClearNow
  BY <1>9, ClearNowAlive
<1>10. CASE UNCHANGED vars
  BY <1>10 DEF vars, AliveInv, ServerAlive, DistinctBefore
<1> QED
  BY <1>1, <1>2, <1>3, <1>4, <1>5, <1>6, <1>7, <1>8, <1>9, <1>10 DEF Next, Server

\* While two-part commands come one at a time and no command fails by itself,
\* neither a command nor a line that the server wrote itself ends the server
\* (clear_schedule_for, unhold_jobs_delete_jobs, delete_old_cron_jobs).
THEOREM StaysAlive == OneByOne /\ Wholesome => (Spec => []ServerAlive)
<1> SUFFICES ASSUME OneByOne, Wholesome PROVE Spec => []ServerAlive
  OBVIOUS
<1>1. Init => Orderly /\ HeldInv /\ AliveInv
  BY InitOrderly, InitHeld, InitAlive
<1>2. TypeOK /\ Orderly /\ [Next]_vars => Orderly'
  BY NextOrderly
<1>3. TypeOK /\ Orderly /\ Orderly' /\ HeldInv /\ [Next]_vars => HeldInv'
  BY NextHeld
<1>4. TypeOK /\ HeldInv /\ AliveInv /\ [Next]_vars => AliveInv'
  BY NextAlive
<1>5. AliveInv => ServerAlive
  BY DEF AliveInv
<1> QED BY <1>1, <1>2, <1>3, <1>4, <1>5, TypeCorrect, PTL DEF Spec

=============================================================================
