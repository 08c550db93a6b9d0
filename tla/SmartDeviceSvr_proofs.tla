------------------------ MODULE SmartDeviceSvr_proofs ------------------------
(***************************************************************************)
(* Theorems about the server of module SmartDeviceSvr, for every crontab,  *)
(* every set of commands, every length of the year and every bound.        *)
(***************************************************************************)
EXTENDS SmartDeviceSvr, CrontabTheorems

-----------------------------------------------------------------------------
(* What is sent, what is kept *)

\* The kind of a message says which fields it has.
LEMMA MessageKinds ==
  /\ NoReq \notin Message
  /\ \A m \in Message :
       /\ m.kind = "do" => m.do \in {"off", "on"}
       /\ m.kind = "one" => m.do \in Action /\ m.at \in Schedule
       /\ m.kind = "two" => /\ m.do \in Action
                            /\ m.at \in Schedule /\ m.until \in Schedule
                            /\ m.at.rec = m.until.rec
       /\ m.kind = "clear" => m.b \in OnceKey /\ m.e \in OnceKey
       /\ m.kind = "unhold" => /\ m.b \in OnceKey /\ m.e \in OnceKey
                               /\ m.held \in Seq(Key)
BY DEF NoReq, Message, Command, CronMessage, Failing

\* What is received is a message.
LEMMA ReceivedAreMessages == Received \subseteq Message /\ NoReq \notin Received
BY UserCommandsAssumption, MessageKinds DEF Received, Message

\* The lines a variant command makes.
LEMMA KeyTypes ==
  ASSUME NEW m \in Message, m.kind \in {"one", "two"}
  PROVE  /\ KeyBegin(m) \in DeviceKey
         /\ m.kind = "two" => /\ KeyEnd(m) \in DeviceKey
                              /\ KeyBegin(m).sched.rec = KeyEnd(m).sched.rec
                              /\ ~m.at.rec => KeyBegin(m) \in OnceKey /\ KeyEnd(m) \in OnceKey
<1>1. m.do \in Action /\ m.at \in Schedule
  BY MessageKinds
<1>2. EndDisposition(m.do) \in Action
  BY DEF EndDisposition, Action
<1>3. KeyBegin(m) \in DeviceKey
  BY <1>1 DEF KeyBegin, DeviceKey
<1>4. ASSUME m.kind = "two"
      PROVE  KeyEnd(m) \in DeviceKey /\ KeyBegin(m).sched.rec = KeyEnd(m).sched.rec
  BY <1>2, <1>4, MessageKinds DEF KeyBegin, KeyEnd, DeviceKey
<1>5. ASSUME m.kind = "two", ~m.at.rec
      PROVE  KeyBegin(m) \in OnceKey /\ KeyEnd(m) \in OnceKey
  <2>1. m.until \in Schedule /\ ~m.until.rec
    BY <1>5, MessageKinds
  <2>2. m.at \in {Once(t) : t \in Slot} /\ m.until \in {Once(t) : t \in Slot}
    BY <1>1, <1>5, <2>1, OnceKeys
  <2> QED BY <1>1, <1>2, <2>2 DEF KeyBegin, KeyEnd, OnceKey
<1> QED BY <1>3, <1>4, <1>5

\* What the shell client sends for a line of the crontab is a message.
LEMMA MessageOfType ==
  ASSUME NEW x \in Line, IsClient(x)
  PROVE  MessageOf(x) \in Received
<1>1. /\ x.key \in ClientKey /\ x.held \in Seq(Key)
      /\ x.key.do \in {"clear", "unhold"}
  BY EntryOfLine DEF IsClient
<1>2. x.key.b \in OnceKey /\ x.key.e \in OnceKey
  BY <1>1 DEF ClientKey
<1> QED BY <1>1, <1>2 DEF MessageOf, Received, CronMessage

\* The history stack holds what was pushed, for frames of any type.
LEMMA StackType ==
  ASSUME NEW S, NEW stack \in Seq(S)
  PROVE  /\ \A x \in S : Push(stack, x) \in Seq(S)
         /\ Pop(stack) \in Seq(S)
         /\ stack # << >> => Last(stack) \in S
<1>1. ASSUME NEW x \in S PROVE Push(stack, x) \in Seq(S)
  <2>1. Append(stack, x) \in Seq(S) /\ Append(stack, x) # << >>
    BY AppendProperties
  <2>2. Tail(Append(stack, x)) \in Seq(S)
    BY <2>1, HeadTailProperties
  <2> QED BY <2>1, <2>2 DEF Push
<1>2. ASSUME stack # << >> PROVE Front(stack) \in Seq(S) /\ Last(stack) \in S
  <2>1. Len(stack) \in Nat \ {0}
    BY <1>2, EmptySeq
  <2>2. \A i \in 1 .. Len(stack) - 1 : stack[i] \in S
    BY <2>1, ElementOfSeq
  <2>3. SubSeq(stack, 1, Len(stack) - 1) \in Seq(S)
    BY <2>1, <2>2, SubSeqProperties
  <2> QED BY <2>1, <2>3, ElementOfSeq DEF Front, Last
<1>3. Pop(stack) \in Seq(S)
  BY <1>2 DEF Pop
<1> QED BY <1>1, <1>2, <1>3

\* The connections that crond's minute brings are messages, in some order.
LEMMA ArrivalsType ==
  ASSUME NEW tab \in Seq(Line), NEW clients \in SUBSET (DOMAIN tab),
         \A i \in clients : IsClient(tab[i]),
         NEW arrivals \in SetToSeqs({MessageOf(tab[i]) : i \in clients})
  PROVE  arrivals \in Seq(Received)
<1> DEFINE messages == {MessageOf(tab[i]) : i \in clients}
           f == [i \in clients |-> MessageOf(tab[i])]
<1>1. Len(tab) \in Nat /\ DOMAIN tab = 1 .. Len(tab)
  BY LenProperties
<1>2. messages \subseteq Received
  BY <1>1, ElementOfSeq, MessageOfType
<1>3. IsFiniteSet(clients)
  BY <1>1, RankInjective
<1>4. f \in Surjection(clients, messages)
  BY DEF Surjection
<1>5. Cardinality(messages) \in Nat
  <2> HIDE DEF f, messages
  <2> QED BY <1>3, <1>4, FS_Surjection, FS_CardinalityType
<1>6. arrivals \in [1 .. Cardinality(messages) -> messages]
  BY DEF SetToSeqs
<1>7. arrivals \in [1 .. Cardinality(messages) -> Received]
  <2> HIDE DEF messages
  <2> QED BY <1>2, <1>6
<1> HIDE DEF messages
<1> QED BY <1>5, <1>7, SeqDef

-----------------------------------------------------------------------------
(* Type correctness *)

\* Of the crontab as read, whatever the handlers make of it is a crontab.
LEMMA CronAllType ==
  ASSUME crontab \in Seq(Line)
  PROVE  cron_all(crontab) \in Seq(Line) /\ Keeps(crontab, cron_all(crontab))
BY CronAllKeeps DEF Keeps

\* The state in which the program starts has its type.
LEMMA InitType == Init => TypeOK
<1> SUFFICES ASSUME Init PROVE TypeOK
  OBVIOUS
<1>1. crontab \in Seq(Line) /\ cron_all(crontab) \in Seq(Line)
  BY Crontab0Assumption, CronAllType DEF Init
<1>2. history \in Seq(Seq(Line))
  BY <1>1, StackType, EmptySeq DEF Init
<1>3. /\ inbox \in Seq(Received) /\ work \in Seq(Line)
  BY EmptySeq DEF Init
<1>4. sent \in 0 .. MaxCmds
  BY BoundsAssumption DEF Init
<1>5. /\ pc \in ProgramCounter /\ req = NoReq
  BY DEF Init, ProgramCounter
<1>6. own = {}
  BY DEF Init
<1> QED BY <1>1, <1>2, <1>3, <1>4, <1>5, <1>6 DEF Init, TypeOK

\* A minute of crond leaves every variable in its type: what the lines of the
\* crontab send are messages the server knows.
LEMMA TickType == TypeOK /\ Tick => TypeOK'
<1> SUFFICES ASSUME TypeOK, Tick PROVE TypeOK'
  OBVIOUS
<1> DEFINE fired == IF pc = "off" THEN {} ELSE FiredAt(crontab, now')
           clients == {i \in fired : IsClient(crontab[i])}
           states == {Effect(crontab[i].key.do) : i \in fired \ clients}
           messages == {MessageOf(crontab[i]) : i \in clients}
<1>1. now' \in Slot
  <2>1. now + 1 \in Int
    BY DEF TypeOK, Slot
  <2> QED BY <2>1, SlotMod DEF Tick
<1>2. device' \in {"off", "on"}
  <2>1. device' \in IF states = {} THEN {device} ELSE states
    BY DEF Tick
  <2>2. states \subseteq {"off", "on"}
    BY DEF Effect
  <2> HIDE DEF states
  <2> QED BY <2>1, <2>2 DEF TypeOK
<1>3. inbox' \in Seq(Received)
  <2>1. CASE pc = "dead"
    BY <2>1 DEF Tick, TypeOK
  <2>2. CASE pc # "dead"
    <3>1. PICK arrivals \in SetToSeqs(messages) : inbox' = inbox \o arrivals
      BY <2>2 DEF Tick
    <3>2. clients \in SUBSET (DOMAIN crontab) /\ \A i \in clients : IsClient(crontab[i])
      BY DEF FiredAt, ActiveAt
    <3>3. arrivals \in Seq(Received)
      <4> HIDE DEF clients
      <4> QED BY <3>1, <3>2, ArrivalsType DEF TypeOK
    <3> QED BY <3>1, <3>3, ConcatProperties DEF TypeOK
  <2> QED BY <2>1, <2>2
<1>4. UNCHANGED <<crontab, pc, req, work, history, sent, own>>
  BY DEF Tick
<1> QED BY <1>1, <1>2, <1>3, <1>4 DEF TypeOK

\* A connection of a user leaves every variable in its type.
LEMMA UserSendsType ==
  ASSUME NEW c \in UserCommands, TypeOK, UserSends(c)
  PROVE  TypeOK'
<1>1. c \in Received
  BY DEF Received
<1>2. inbox' \in Seq(Received)
  BY <1>1, AppendProperties DEF UserSends, TypeOK
<1>3. sent' \in 0 .. MaxCmds
  BY BoundsAssumption DEF UserSends, TypeOK
<1> QED BY <1>2, <1>3 DEF UserSends, TypeOK

\* A command that is done with leaves nothing behind, whatever the main loop
\* was at.
LEMMA FinishType ==
  ASSUME TypeOK, Finish, crontab' \in Seq(Line), device' \in {"off", "on"},
         history' \in Seq(Seq(Line)), UNCHANGED <<now, inbox, sent, own>>
  PROVE  TypeOK'
<1>1. pc' \in ProgramCounter /\ work' \in Seq(Line)
  BY EmptySeq DEF Finish, ProgramCounter
<1> QED BY <1>1 DEF Finish, TypeOK

\* The end of the process leaves the crontab as it is.
LEMMA LostType ==
  ASSUME TypeOK, Lost, pc' \in {"dead", "off"}, sent' \in 0 .. MaxCmds
  PROVE  TypeOK'
<1>1. /\ pc' \in ProgramCounter /\ work' \in Seq(Line)
      /\ inbox' \in Seq(Received) /\ history' \in Seq(Seq(Line))
  BY EmptySeq DEF Lost, ProgramCounter
<1> QED BY <1>1 DEF Lost, TypeOK

\* An error ends the server.
LEMMA DieType ==
  ASSUME TypeOK, Die
  PROVE  TypeOK'
BY LostType DEF Die, TypeOK

\* The power fails, and comes back.
LEMMA PowerType == TypeOK /\ (PowerFail \/ Boot) => TypeOK'
<1> SUFFICES ASSUME TypeOK, PowerFail \/ Boot PROVE TypeOK'
  OBVIOUS
<1>1. CASE PowerFail
  <2>1. sent' \in 0 .. MaxCmds
    BY <1>1, BoundsAssumption DEF PowerFail, TypeOK
  <2> QED BY <1>1, <2>1, LostType DEF PowerFail
<1>2. CASE Boot
  <2>1. cron_all(crontab) \in Seq(Line)
    BY CronAllType DEF TypeOK
  <2>2. history' \in Seq(Seq(Line))
    BY <1>2, <2>1, StackType, EmptySeq DEF Boot
  <2> QED BY <1>2, <2>2 DEF Boot, TypeOK, ProgramCounter
<1> QED BY <1>1, <1>2

\* A line that the owner adds is a line.
LEMMA OwnerLineType ==
  ASSUME NEW x \in OwnerLines
  PROVE  /\ x \in Line /\ IsEntry(x) /\ ~x.tmp
         /\ x.key \in RecurringKey
<1>1. PICK k \in DeviceKey : k.sched.rec /\ x = DeviceLine(k, FALSE)
  BY OwnerLinesAssumption
<1>2. x \in Entry
  BY <1>1, EmptySeq DEF DeviceLine, Entry, Key, Instigator
<1> QED BY <1>1, <1>2 DEF DeviceLine, Line, IsEntry, RecurringKey

\* "crontab -e" leaves every variable in its type.
LEMMA OwnerAddsType ==
  ASSUME NEW x \in OwnerLines, TypeOK, OwnerAdds(x)
  PROVE  TypeOK'
<1>1. crontab' \in Seq(Line)
  BY OwnerLineType, AppendProperties DEF OwnerAdds, TypeOK
<1>2. sent' \in 0 .. MaxCmds
  BY BoundsAssumption DEF OwnerAdds, TypeOK
<1>3. own' \subseteq {y.key : y \in OwnerLines}
  BY DEF OwnerAdds, TypeOK
<1> QED BY <1>1, <1>2, <1>3 DEF OwnerAdds, TypeOK

\* A handler goes on to the write with an array that is a crontab.
LEMMA GoSubmitType ==
  ASSUME TypeOK, pc = "dispatch", NEW array \in Seq(Line), GoSubmit(array),
         device' \in {"off", "on"}, history' \in Seq(Seq(Line)),
         UNCHANGED <<crontab, now, inbox, sent, own>>
  PROVE  TypeOK'
BY DEF GoSubmit, TypeOK, ProgramCounter

-----------------------------------------------------------------------------
(* What a handler may do *)

\* An array to be written: it has every recurring line of the crontab, or it
\* is the array "cancel last" takes from the history.
Writable(array) ==
  /\ array \in Seq(Line)
  /\ \/ Keeps(crontab, array)
     \/ /\ req.kind = "cancel_last"
        /\ Pop(history) # << >> /\ array = Last(Pop(history))

\* A handler dies, is done, or goes on to write an array.
Outcome ==
  \/ Die
  \/ /\ \/ Finish
        \/ pc = "dispatch" /\ \E array : Writable(array) /\ GoSubmit(array)
     /\ device' \in {"off", "on"}
     /\ history' \in {history, Pop(history), Pop(Pop(history))}
     /\ UNCHANGED <<crontab, now, inbox, sent, own>>

\* clear_schedule_for(): what it makes of the crontab it reads.
LEMMA ClearScheduleForWritable ==
  ASSUME crontab \in Seq(Line), NEW b \in OnceKey, NEW e \in OnceKey,
         LET tab == cron_all(crontab)
         IN  ~clear_fails(tab, b, e) /\ ~clear_returns(tab, b, e)
  PROVE  LET array == clear_schedule_for(cron_all(crontab), b, e, now)
         IN  array \in Seq(Line) /\ Keeps(crontab, array)
<1> DEFINE tab == cron_all(crontab)
<1>1. tab \in Seq(Line) /\ Keeps(crontab, tab)
  BY CronAllType
<1> HIDE DEF tab
<1>2. Keeps(tab, clear_schedule_for(tab, b, e, now))
  BY <1>1, ClearKeeps DEF tab
<1>3. Keeps(crontab, clear_schedule_for(tab, b, e, now))
  BY <1>1, <1>2, KeepsTransitive
<1> QED BY <1>2, <1>3 DEF Keeps, tab

\* What any handler of the main loop comes to: it ends the server, is done, or
\* goes on to submit_crontab() with an array that is a crontab.
LEMMA HandlerOutcome ==
  ASSUME TypeOK, Handler
  PROVE  Outcome
<1> DEFINE tab == cron_all(crontab)
<1>0. /\ crontab \in Seq(Line) /\ device \in {"off", "on"}
      /\ req \in Message \cup {NoReq}
  BY ReceivedAreMessages DEF TypeOK
<1>1. tab \in Seq(Line) /\ Keeps(crontab, tab)
  BY <1>0, CronAllType
<1> HIDE DEF tab
\* An array made of the crontab as read is made of the crontab.
<1>2. ASSUME NEW array, Keeps(tab, array)
      PROVE  Writable(array)
  BY <1>1, <1>2, KeepsTransitive DEF Writable, Keeps
<1>3. CASE HandleList
  BY <1>0, <1>3 DEF HandleList, Outcome
<1>4. CASE HandleLast
  BY <1>0, <1>4 DEF HandleLast, Outcome
<1>5. CASE HandleFailing
  BY <1>5 DEF HandleFailing, Outcome
<1>6. CASE HandleDo
  BY <1>6 DEF HandleDo, Effect, Outcome
<1>7. CASE HandleDeleteOld
  <2>1. CASE Die
    BY <2>1 DEF Outcome
  <2>2. CASE ~Die
    <3>1. /\ pc = "dispatch" /\ GoSubmit(delete_old_cron_jobs(tab, now))
          /\ UNCHANGED <<crontab, now, device, inbox, history, sent, own>>
      BY <1>7, <2>2 DEF HandleDeleteOld, Dispatch, tab
    <3>2. Writable(delete_old_cron_jobs(tab, now))
      BY <1>1, <1>2, DeleteOldKeeps
    <3> QED BY <1>0, <3>1, <3>2 DEF Outcome
  <2> QED BY <2>1, <2>2
<1>8. CASE HandleCancelLast
  <2>1. /\ UNCHANGED <<crontab, now, device, inbox, sent, own>>
        /\ history' = Pop(Pop(history)) /\ pc = "dispatch" /\ req.kind = "cancel_last"
    BY <1>8 DEF HandleCancelLast, Dispatch
  <2>2. CASE Pop(history) = << >>
    BY <1>0, <1>8, <2>1, <2>2 DEF HandleCancelLast, Outcome
  <2>3. CASE Pop(history) # << >>
    <3>1. GoSubmit(Last(Pop(history)))
      BY <1>8, <2>3 DEF HandleCancelLast
    <3>2. Last(Pop(history)) \in Seq(Line)
      <4>1. Pop(history) \in Seq(Seq(Line))
        BY StackType DEF TypeOK
      <4> QED BY <2>3, <4>1, StackType
    <3>3. Writable(Last(Pop(history)))
      BY <2>1, <2>3, <3>2 DEF Writable
    <3> QED BY <1>0, <2>1, <3>1, <3>3 DEF Outcome
  <2> QED BY <2>2, <2>3
<1>9. CASE HandleHoldAll
  <2>1. /\ pc = "dispatch" /\ GoSubmit(hold_all(tab))
        /\ UNCHANGED <<crontab, now, device, inbox, history, sent, own>>
    BY <1>9 DEF HandleHoldAll, Dispatch, tab
  <2>2. Writable(hold_all(tab))
    BY <1>1, <1>2, HoldAllKeeps
  <2> QED BY <1>0, <2>1, <2>2 DEF Outcome
<1>10. CASE HandleUnholdAll
  <2>1. /\ pc = "dispatch" /\ (Finish \/ GoSubmit(unhold_all_jobs(tab)))
        /\ UNCHANGED <<crontab, now, device, inbox, history, sent, own>>
    BY <1>10 DEF HandleUnholdAll, Dispatch, tab
  <2>2. Writable(unhold_all_jobs(tab))
    BY <1>1, <1>2, HoldAllKeeps
  <2> QED BY <1>0, <2>1, <2>2 DEF Outcome
<1>11. CASE HandleClear
  <2>1. req.b \in OnceKey /\ req.e \in OnceKey /\ pc = "dispatch"
    BY <1>0, <1>11, MessageKinds DEF HandleClear, Dispatch, NoReq
  <2>2. CASE clear_fails(tab, req.b, req.e)
    <3>1. Die
      BY <1>11, <2>2 DEF HandleClear, ClearScheduleFor, tab
    <3> QED BY <3>1 DEF Outcome
  <2>3. CASE ~clear_fails(tab, req.b, req.e) /\ clear_returns(tab, req.b, req.e)
    <3>1. Finish /\ UNCHANGED <<crontab, now, device, inbox, history, sent, own>>
      BY <1>11, <2>3 DEF HandleClear, ClearScheduleFor, tab
    <3> QED BY <1>0, <3>1 DEF Outcome
  <2>4. CASE ~clear_fails(tab, req.b, req.e) /\ ~clear_returns(tab, req.b, req.e)
    <3>1. /\ GoSubmit(clear_schedule_for(tab, req.b, req.e, now))
          /\ UNCHANGED <<crontab, now, device, inbox, history, sent, own>>
      BY <1>11, <2>4 DEF HandleClear, ClearScheduleFor, tab
    <3>2. Writable(clear_schedule_for(tab, req.b, req.e, now))
      BY <1>0, <2>1, <2>4, ClearScheduleForWritable DEF Writable, tab
    <3> QED BY <1>0, <2>1, <3>1, <3>2 DEF Outcome
  <2> QED BY <2>2, <2>3, <2>4
<1>12. CASE HandleUnhold
  <2>1. req.b \in OnceKey /\ req.e \in OnceKey /\ pc = "dispatch"
    BY <1>0, <1>12, MessageKinds DEF HandleUnhold, Dispatch, NoReq
  <2>2. CASE Die
    BY <2>2 DEF Outcome
  <2>3. CASE ~Die
    <3>1. /\ GoSubmit(unhold_jobs_delete_jobs(tab, req.held, req.b, req.e))
          /\ UNCHANGED <<crontab, now, device, inbox, history, sent, own>>
      BY <1>12, <2>3 DEF HandleUnhold, tab
    <3>2. Writable(unhold_jobs_delete_jobs(tab, req.held, req.b, req.e))
      BY <1>1, <1>2, <2>1, UnholdKeeps
    <3> QED BY <1>0, <2>1, <3>1, <3>2 DEF Outcome
  <2> QED BY <2>2, <2>3
<1>13. CASE HandleOnePart
  <2>1. /\ pc = "dispatch" /\ GoSubmit(add_begin(tab, KeyBegin(req)))
        /\ ExecuteNow /\ UNCHANGED <<crontab, now, inbox, history, sent, own>>
    BY <1>13 DEF HandleOnePart, Dispatch, tab
  <2>2. KeyBegin(req) \in DeviceKey
    BY <1>0, <1>13, KeyTypes DEF HandleOnePart, Dispatch, NoReq
  <2>3. Writable(add_begin(tab, KeyBegin(req)))
    BY <1>1, <1>2, <2>2, AddBeginKeeps
  <2>4. device' \in {"off", "on"}
    BY <1>0, <2>1 DEF ExecuteNow, Effect
  <2> QED BY <2>1, <2>3, <2>4 DEF Outcome
<1>14. CASE HandleTwoPart
  <2> DEFINE array == add_begin_end(tab, KeyBegin(req), KeyEnd(req), req.year, now)
  <2>1. /\ pc = "dispatch" /\ GoSubmit(array)
        /\ ExecuteNow /\ UNCHANGED <<crontab, now, inbox, history, sent, own>>
    BY <1>14 DEF HandleTwoPart, Dispatch, tab
  <2>2. /\ KeyBegin(req) \in DeviceKey /\ KeyEnd(req) \in DeviceKey
        /\ KeyBegin(req).sched.rec = KeyEnd(req).sched.rec
    BY <1>0, <1>14, KeyTypes DEF HandleTwoPart, Dispatch, NoReq
  <2>3. Writable(array)
    BY <1>1, <1>2, <2>2, AddBeginEndKeeps
  <2>4. device' \in {"off", "on"}
    BY <1>0, <2>1 DEF ExecuteNow, Effect
  <2> QED BY <2>1, <2>3, <2>4 DEF Outcome
<1> QED
  BY <1>3, <1>4, <1>5, <1>6, <1>7, <1>8, <1>9, <1>10, <1>11, <1>12, <1>13, <1>14
     DEF Handler

\* What clear_now makes: the server ends, is done, or has an array to write.
LEMMA ClearNowOutcome ==
  ASSUME TypeOK, ClearNow
  PROVE  \/ Die
         \/ Finish /\ UNCHANGED <<crontab, now, device, inbox, history, sent, own>>
         \/ /\ pc' = "resubmit" /\ req.kind = "two" /\ ~req.at.rec
            /\ work' \in Seq(Line) /\ Keeps(crontab, work')
            /\ UNCHANGED <<crontab, now, device, inbox, history, sent, own, req>>
<1> DEFINE tab == cron_all(crontab)
           b == KeyBegin(req)
           e == KeyEnd(req)
<1>1. /\ pc = "clear_now" /\ req.kind = "two" /\ ~req.at.rec
      /\ crontab \in Seq(Line)
  BY DEF ClearNow, TypeOK
<1>2. b \in OnceKey /\ e \in OnceKey
  <2>1. req \in Message
    BY <1>1, ReceivedAreMessages DEF TypeOK, NoReq
  <2> QED BY <1>1, <2>1, KeyTypes
<1>3. CASE clear_fails(tab, b, e)
  BY <1>3 DEF ClearNow
<1>4. CASE ~clear_fails(tab, b, e) /\ clear_returns(tab, b, e)
  BY <1>4 DEF ClearNow
<1>5. CASE ~clear_fails(tab, b, e) /\ ~clear_returns(tab, b, e)
  <2>1. /\ pc' = "resubmit" /\ work' = clear_schedule_for(tab, b, e, now)
        /\ UNCHANGED <<crontab, now, device, inbox, history, sent, own, req>>
    BY <1>5 DEF ClearNow
  <2>2. work' \in Seq(Line) /\ Keeps(crontab, work')
    <3> HIDE DEF b, e
    <3> QED BY <1>1, <1>2, <1>5, <2>1, ClearScheduleForWritable
  <2> QED BY <1>1, <2>1, <2>2
<1> QED BY <1>3, <1>4, <1>5

\* Every handler leaves every variable in its type.
LEMMA HandlerType == TypeOK /\ Handler => TypeOK'
<1> SUFFICES ASSUME TypeOK, Handler PROVE TypeOK'
  OBVIOUS
<1>1. Outcome
  BY HandlerOutcome
<1>2. CASE Die
  BY <1>2, DieType
<1>3. CASE ~Die
  <2>1. /\ device' \in {"off", "on"}
        /\ UNCHANGED <<crontab, now, inbox, sent, own>>
    BY <1>1, <1>3 DEF Outcome
  <2>2. history' \in Seq(Seq(Line))
    <3>1. history \in Seq(Seq(Line))
      BY DEF TypeOK
    <3>2. Pop(history) \in Seq(Seq(Line))
      BY <3>1, StackType
    <3>3. Pop(Pop(history)) \in Seq(Seq(Line))
      BY <3>2, StackType
    <3> QED BY <1>1, <1>3, <3>1, <3>2, <3>3 DEF Outcome
  <2>3. CASE Finish
    BY <2>1, <2>2, <2>3, FinishType DEF TypeOK
  <2>4. CASE pc = "dispatch" /\ \E array : Writable(array) /\ GoSubmit(array)
    BY <2>1, <2>2, <2>4, GoSubmitType DEF Writable
  <2> QED BY <1>1, <1>3, <2>3, <2>4 DEF Outcome
<1> QED BY <1>2, <1>3

\* accept() and the push of the command's history frame leave every variable in
\* its type.
LEMMA AcceptType == TypeOK /\ Accept => TypeOK'
<1> SUFFICES ASSUME TypeOK, Accept PROVE TypeOK'
  OBVIOUS
<1>1. req' \in Received /\ inbox' \in Seq(Received)
  BY HeadTailProperties DEF Accept, TypeOK
<1>2. history' \in Seq(Seq(Line))
  <2>1. cron_all(crontab) \in Seq(Line)
    BY CronAllType DEF TypeOK
  <2> QED BY <2>1, StackType DEF Accept, TypeOK
<1>3. req' # NoReq
  BY <1>1, ReceivedAreMessages
<1> QED BY <1>1, <1>2, <1>3 DEF Accept, TypeOK, ProgramCounter

\* submit_crontab(), and the second look at the clock, leave every variable in
\* its type; only a one-shot two-part command goes on to clear_schedule_for().
LEMMA SubmitType == TypeOK /\ Submit => TypeOK'
<1> SUFFICES ASSUME TypeOK, Submit PROVE TypeOK'
  OBVIOUS
<1>1. crontab' \in Seq(Line)
  BY SubmitKeeps DEF Submit, TypeOK
<1>2. UNCHANGED <<now, device, inbox, history, sent, own>>
  BY DEF Submit
<1>3. CASE Finish
  BY <1>1, <1>2, <1>3, FinishType DEF TypeOK
<1>4. CASE ~Finish
  <2>1. /\ pc' = "clear_now" /\ work' = << >> /\ UNCHANGED req
        /\ req.kind = "two" /\ tbl_is_now_p(req.at, now)
    BY <1>4 DEF Submit
  <2>2. ~req.at.rec
    BY <2>1 DEF tbl_is_now_p
  <2>3. work' \in Seq(Line)
    BY <2>1, EmptySeq
  <2>4. req # NoReq
    BY DEF Submit, TypeOK
  <2> QED BY <1>1, <1>2, <2>1, <2>2, <2>3, <2>4 DEF TypeOK, ProgramCounter
<1> QED BY <1>3, <1>4

\* The clear_schedule_for() that add_new_schedule() calls leaves every variable
\* in its type.
LEMMA ClearNowType == TypeOK /\ ClearNow => TypeOK'
<1> SUFFICES ASSUME TypeOK, ClearNow PROVE TypeOK'
  OBVIOUS
<1>1. CASE Die
  BY <1>1, DieType
<1>2. CASE Finish /\ UNCHANGED <<crontab, now, device, inbox, history, sent, own>>
  BY <1>2, FinishType DEF TypeOK
<1>3. CASE /\ pc' = "resubmit" /\ req.kind = "two" /\ ~req.at.rec
           /\ work' \in Seq(Line)
           /\ UNCHANGED <<crontab, now, device, inbox, history, sent, own, req>>
  <2>1. req # NoReq
    BY DEF ClearNow, TypeOK
  <2> QED BY <1>3, <2>1 DEF TypeOK, ProgramCounter
<1> QED BY <1>1, <1>2, <1>3, ClearNowOutcome

\* The second submit_crontab() of a two-part command leaves every variable in
\* its type.
LEMMA ResubmitType == TypeOK /\ Resubmit => TypeOK'
BY SubmitKeeps, FinishType DEF Resubmit, TypeOK

\* Type correctness: the variables have their types and the command being
\* handled is one the main loop can be busy with where it is.
THEOREM TypeCorrect == Spec => []TypeOK
<1>1. Init => TypeOK
  BY InitType
<1>2. TypeOK /\ [Next]_vars => TypeOK'
  <2> SUFFICES ASSUME TypeOK, [Next]_vars PROVE TypeOK'
    OBVIOUS
  <2>1. CASE Tick
    BY <2>1, TickType
  <2>2. CASE \E c \in UserCommands : UserSends(c)
    BY <2>2, UserSendsType
  <2>3. CASE Accept
    BY <2>3, AcceptType
  <2>4. CASE AcceptSilent
    BY <2>4, DieType DEF AcceptSilent
  <2>5. CASE Handler
    BY <2>5, HandlerType
  <2>6. CASE Submit
    BY <2>6, SubmitType
  <2>7. CASE ClearNow
    BY <2>7, ClearNowType
  <2>8. CASE Resubmit
    BY <2>8, ResubmitType
  <2>9. CASE PowerFail \/ Boot
    BY <2>9, PowerType
  <2>10. CASE \E x \in OwnerLines : OwnerAdds(x)
    BY <2>10, OwnerAddsType
  <2>11. CASE UNCHANGED vars
    BY <2>11 DEF vars, TypeOK
  <2> QED
    BY <2>1, <2>2, <2>3, <2>4, <2>5, <2>6, <2>7, <2>8, <2>9, <2>10, <2>11
       DEF Next, Server
<1> QED BY <1>1, <1>2, PTL DEF Spec

-----------------------------------------------------------------------------
(* The user's own recurring lines are never lost *)

\* The crontabs that have them all.
Whole == {tab \in Seq(Line) : HasPermanent(tab)}

\* They are lines a client line or a one-shot line cannot be taken for.
LEMMA PermanentAreRecurring == PermanentKeys \subseteq RecurringKey
<1> SUFFICES ASSUME NEW i \in DOMAIN Crontab0, IsEntry(Crontab0[i]),
                    Crontab0[i].key.sched.rec
             PROVE  Crontab0[i].key \in RecurringKey
  BY DEF PermanentKeys
<1>1. Crontab0[i] \in Line
  BY Crontab0Assumption, LenProperties, ElementOfSeq
<1>2. Crontab0[i].key \in DeviceKey
  BY <1>1, NoClientLinesAssumption, EntryOfLine
<1> QED BY <1>2 DEF RecurringKey

\* A table function that keeps the recurring lines keeps any set of them: they
\* are all there afterwards if they were before.
LEMMA KeepsLines ==
  ASSUME NEW tab, NEW new, NEW keys \in SUBSET RecurringKey,
         Keeps(tab, new), HasLines(tab, keys)
  PROVE  HasLines(new, keys)
BY DEF HasLines, Keeps, Has

\* So it keeps those of the user's crontab.
LEMMA KeepsPermanent ==
  ASSUME NEW tab, NEW new, Keeps(tab, new), HasPermanent(tab)
  PROVE  HasPermanent(new)
BY PermanentAreRecurring, KeepsLines DEF HasPermanent

\* The history holds such crontabs only: PermanentKept's last conjunct, as
\* the type of the stack.
LEMMA WholeHistory ==
  ASSUME NEW stack \in Seq(Seq(Line))
  PROVE  (\A n \in DOMAIN stack : HasPermanent(stack[n])) <=> stack \in Seq(Whole)
<1>1. /\ Len(stack) \in Nat /\ DOMAIN stack = 1 .. Len(stack)
      /\ stack \in [1 .. Len(stack) -> Seq(Line)]
  BY LenProperties
<1>2. ASSUME \A n \in DOMAIN stack : HasPermanent(stack[n])
      PROVE  stack \in Seq(Whole)
  <2>1. \A n \in 1 .. Len(stack) : stack[n] \in Whole
    BY <1>1, <1>2 DEF Whole
  <2>2. stack \in [1 .. Len(stack) -> Whole]
    BY <1>1, <2>1
  <2>3. \E n \in Nat : stack \in [1 .. n -> Whole]
    BY <1>1, <2>2
  <2>4. Seq(Whole) = UNION {[1 .. n -> Whole] : n \in Nat}
    BY SeqDef
  <2> QED BY <2>3, <2>4
<1>3. ASSUME stack \in Seq(Whole), NEW n \in DOMAIN stack
      PROVE  HasPermanent(stack[n])
  BY <1>1, <1>3, ElementOfSeq DEF Whole
<1> QED BY <1>2, <1>3

\* At the start the crontab and the first history frame have all of the user's
\* recurring lines.
LEMMA InitKept == Init => PermanentKept
<1> SUFFICES ASSUME Init PROVE PermanentKept
  OBVIOUS
<1>1. HasPermanent(crontab)
  BY DEF Init, HasPermanent, HasLines, PermanentKeys
<1>2. cron_all(crontab) \in Whole
  <2>1. crontab \in Seq(Line)
    BY Crontab0Assumption DEF Init
  <2> QED BY <1>1, <2>1, CronAllType, KeepsPermanent DEF Whole
<1>3. history \in Seq(Whole)
  BY <1>2, StackType, EmptySeq DEF Init
<1>4. \A n \in DOMAIN history : HasPermanent(history[n])
  BY <1>3, WholeHistory, InitType DEF TypeOK
<1>5. pc = "accept"
  BY DEF Init
<1> QED BY <1>1, <1>4, <1>5 DEF PermanentKept

\* A handler writes what it made of the crontab, or a frame of the history.
LEMMA HandlerKept ==
  ASSUME TypeOK, PermanentKept, Handler
  PROVE  PermanentKept'
<1>1. Outcome
  BY HandlerOutcome
<1>2. history \in Seq(Seq(Line)) /\ history \in Seq(Whole)
  BY WholeHistory DEF TypeOK, PermanentKept
<1>3. HasPermanent(crontab)
  BY DEF PermanentKept
<1>4. crontab' = crontab /\ HasPermanent(crontab')
  BY <1>1, <1>3 DEF Outcome, Die, Lost
<1>5. \A n \in DOMAIN history' : HasPermanent(history'[n])
  <2>1. CASE history' = << >>
    BY <2>1
  <2>2. CASE history' \in {history, Pop(history), Pop(Pop(history))}
    <3>1. Pop(history) \in Seq(Whole)
      BY <1>2, StackType
    <3>2. Pop(Pop(history)) \in Seq(Whole)
      BY <3>1, StackType
    <3>3. history' \in Seq(Whole)
      BY <1>2, <2>2, <3>1, <3>2
    <3>4. history' \in Seq(Seq(Line))
      BY <3>3, SeqMonotonic DEF Whole
    <3> QED BY <3>3, <3>4, WholeHistory
  <2> QED BY <1>1, <2>1, <2>2 DEF Outcome, Die, Lost
<1>6. pc' \in {"submit", "resubmit"} => HasPermanent(work')
  <2>1. CASE pc' \in {"accept", "dead"}
    BY <2>1
  <2>2. CASE \E array : Writable(array) /\ GoSubmit(array)
    <3>1. PICK array : Writable(array) /\ GoSubmit(array)
      BY <2>2
    <3>2. CASE Keeps(crontab, array)
      BY <1>3, <3>1, <3>2, KeepsPermanent DEF GoSubmit
    <3>3. CASE Pop(history) # << >> /\ array = Last(Pop(history))
      <4>1. Pop(history) \in Seq(Whole)
        BY <1>2, StackType
      <4>2. array \in Whole
        BY <3>3, <4>1, StackType
      <4> QED BY <3>1, <4>2 DEF Whole, GoSubmit
    <3> QED BY <3>1, <3>2, <3>3 DEF Writable
  <2> QED BY <1>1, <2>1, <2>2 DEF Outcome, Die, Lost, Finish
<1> QED BY <1>4, <1>5, <1>6 DEF PermanentKept, HasPermanent, HasLines

\* The crontab that a command's history frame saves has all of the user's
\* recurring lines.
LEMMA AcceptKept ==
  ASSUME TypeOK, PermanentKept, Accept
  PROVE  PermanentKept'
<1>1. history \in Seq(Whole)
  BY WholeHistory DEF TypeOK, PermanentKept
<1>2. cron_all(crontab) \in Whole
  BY CronAllType, KeepsPermanent DEF TypeOK, PermanentKept, Whole
<1>3. history' \in Seq(Whole)
  BY <1>1, <1>2, StackType DEF Accept
<1>4. history' \in Seq(Seq(Line))
  BY <1>3, SeqMonotonic DEF Whole
<1>5. \A n \in DOMAIN history' : HasPermanent(history'[n])
  BY <1>3, <1>4, WholeHistory
<1> QED BY <1>5 DEF Accept, PermanentKept, HasPermanent, HasLines

\* The write keeps what was about to be written.
LEMMA WriteKept ==
  ASSUME TypeOK, PermanentKept, pc \in {"submit", "resubmit"},
         crontab' = submit_crontab(work), pc' \in {"accept", "clear_now"},
         UNCHANGED history
  PROVE  PermanentKept'
<1>1. HasPermanent(work) /\ work \in Seq(Line)
  BY DEF PermanentKept, TypeOK
<1>2. HasPermanent(submit_crontab(work))
  BY <1>1, SubmitCrontabKeeps, KeepsPermanent
<1> QED BY <1>2 DEF PermanentKept, HasPermanent, HasLines

\* The array that clear_schedule_for() is about to submit has all of the user's
\* recurring lines.
LEMMA ClearNowKept ==
  ASSUME TypeOK, PermanentKept, ClearNow
  PROVE  PermanentKept'
<1>1. CASE Die
  BY <1>1 DEF Die, Lost, PermanentKept, HasPermanent, HasLines
<1>2. CASE Finish /\ UNCHANGED <<crontab, history>>
  BY <1>2 DEF Finish, PermanentKept, HasPermanent, HasLines
<1>3. CASE pc' = "resubmit" /\ Keeps(crontab, work') /\ UNCHANGED <<crontab, history>>
  <2>1. HasPermanent(work')
    BY <1>3, KeepsPermanent DEF PermanentKept
  <2> QED BY <1>3, <2>1 DEF PermanentKept, HasPermanent, HasLines
<1> QED BY <1>1, <1>2, <1>3, ClearNowOutcome

\* A power failure leaves the crontab, and the program starts with it.
LEMMA PowerKept ==
  ASSUME TypeOK, PermanentKept, PowerFail \/ Boot
  PROVE  PermanentKept'
<1>1. CASE PowerFail
  BY <1>1 DEF PowerFail, Lost, PermanentKept, HasPermanent, HasLines
<1>2. CASE Boot
  <2>1. cron_all(crontab) \in Whole
    BY CronAllType, KeepsPermanent DEF TypeOK, PermanentKept, Whole
  <2>2. history' \in Seq(Whole) /\ history' \in Seq(Seq(Line))
    BY <1>2, <2>1, StackType, EmptySeq DEF Boot, Whole
  <2>3. \A n \in DOMAIN history' : HasPermanent(history'[n])
    BY <2>2, WholeHistory
  <2> QED BY <1>2, <2>3 DEF Boot, PermanentKept, HasPermanent, HasLines
<1> QED BY <1>1, <1>2

\* The owner only adds.
LEMMA OwnerAddsKept ==
  ASSUME TypeOK, PermanentKept, NEW x \in OwnerLines, OwnerAdds(x)
  PROVE  PermanentKept'
<1>1. Keeps(crontab, crontab')
  BY OwnerLineType, AppendKeeps DEF OwnerAdds, TypeOK
<1>2. HasPermanent(crontab')
  BY <1>1, KeepsPermanent DEF PermanentKept
<1> QED BY <1>2 DEF OwnerAdds, PermanentKept, HasPermanent, HasLines

\* No recurring line of the user's own is ever lost: it is in the crontab, in
\* the array about to be written and in all that "cancel last" may restore.
THEOREM PermanentLinesKept == Spec => []PermanentKept
<1>1. Init => PermanentKept
  BY InitKept
<1>2. TypeOK /\ PermanentKept /\ [Next]_vars => PermanentKept'
  <2> SUFFICES ASSUME TypeOK, PermanentKept, [Next]_vars PROVE PermanentKept'
    OBVIOUS
  <2>1. CASE Tick \/ \E c \in UserCommands : UserSends(c)
    BY <2>1 DEF Tick, UserSends, PermanentKept, HasPermanent, HasLines
  <2>2. CASE Accept
    BY <2>2, AcceptKept
  <2>3. CASE AcceptSilent
    BY <2>3 DEF AcceptSilent, Die, Lost, PermanentKept, HasPermanent, HasLines
  <2>4. CASE Handler
    BY <2>4, HandlerKept
  <2>5. CASE Submit
    BY <2>5, WriteKept DEF Submit, Finish
  <2>6. CASE ClearNow
    BY <2>6, ClearNowKept
  <2>7. CASE Resubmit
    BY <2>7, WriteKept DEF Resubmit, Finish
  <2>8. CASE PowerFail \/ Boot
    BY <2>8, PowerKept
  <2>9. CASE \E x \in OwnerLines : OwnerAdds(x)
    BY <2>9, OwnerAddsKept
  <2>10. CASE UNCHANGED vars
    BY <2>10 DEF vars, PermanentKept, HasPermanent, HasLines
  <2> QED
    BY <2>1, <2>2, <2>3, <2>4, <2>5, <2>6, <2>7, <2>8, <2>9, <2>10
       DEF Next, Server
<1> QED BY <1>1, <1>2, TypeCorrect, PTL DEF Spec

-----------------------------------------------------------------------------
(* Nor are the lines the owner adds between two commands *)

\* They recur, as those of the crontab.
LEMMA OwnAreRecurring == TypeOK => own \in SUBSET RecurringKey
BY OwnerLineType DEF TypeOK

\* The owner's line is in the crontab, and no array is being written.
LEMMA OwnerAddsOwn ==
  ASSUME TypeOK, OwnerKept, Polite, NEW x \in OwnerLines, OwnerAdds(x)
  PROVE  OwnerKept'
<1>1. crontab' = Append(crontab, x) /\ own' = own \cup {x.key}
      /\ crontab \in Seq(Line) /\ x \in Line
  BY OwnerLineType DEF OwnerAdds, TypeOK
<1>2. HasLines(crontab', own)
  BY <1>1, AppendKeeps, KeepsLines, OwnAreRecurring DEF OwnerKept
<1>3. HasLines(crontab', {x.key})
  <2>1. /\ Len(crontab) + 1 \in DOMAIN crontab'
        /\ crontab'[Len(crontab) + 1] = x
    BY <1>1, AppendProperties, LenProperties
  <2> QED BY <2>1, OwnerLineType DEF HasLines
<1>4. HasLines(crontab', own')
  BY <1>1, <1>2, <1>3 DEF HasLines
<1>5. pc' \notin {"submit", "resubmit"}
  BY DEF OwnerAdds
<1> QED BY <1>4, <1>5 DEF OwnerKept, HasLines

\* The server writes what it made of a crontab with all of them.
LEMMA ServerOwn ==
  ASSUME TypeOK, OwnerKept, \A c \in UserCommands : c.kind # "cancel_last", Server
  PROVE  OwnerKept'
<1>0. own \in SUBSET RecurringKey /\ HasLines(crontab, own)
  BY OwnAreRecurring DEF OwnerKept
<1>1. own' = own
  BY HandlerOutcome
     DEF Server, Accept, AcceptSilent, Die, Lost, Outcome, Submit, ClearNow, Resubmit
<1>2. ASSUME UNCHANGED crontab, pc' \in {"submit", "resubmit"} => HasLines(work', own)
      PROVE  OwnerKept'
  BY <1>0, <1>1, <1>2 DEF OwnerKept, HasLines
<1>3. CASE Accept \/ AcceptSilent
  BY <1>2, <1>3 DEF Accept, AcceptSilent, Die, Lost
<1>4. CASE Handler
  <2>1. Outcome
    BY <1>4, HandlerOutcome
  <2>2. CASE Die \/ Finish
    BY <1>2, <2>1, <2>2 DEF Outcome, Die, Lost, Finish
  <2>3. CASE \E array : Writable(array) /\ GoSubmit(array)
    <3>1. PICK array : Writable(array) /\ GoSubmit(array)
      BY <2>3
    <3>2. req.kind # "cancel_last"
      BY DEF TypeOK, Received, CronMessage, NoReq
    <3>3. HasLines(array, own)
      BY <1>0, <3>1, <3>2, KeepsLines DEF Writable
    <3>4. crontab' = crontab
      BY <2>1 DEF Outcome, Die, Lost
    <3> QED BY <1>2, <3>1, <3>3, <3>4 DEF GoSubmit
  <2> QED BY <2>1, <2>2, <2>3 DEF Outcome
<1>5. CASE Submit \/ Resubmit
  <2>1. /\ crontab' = submit_crontab(work) /\ work \in Seq(Line)
        /\ HasLines(work, own) /\ pc' \notin {"submit", "resubmit"}
    BY <1>5 DEF Submit, Resubmit, Finish, OwnerKept, TypeOK
  <2>2. HasLines(crontab', own)
    BY <1>0, <2>1, SubmitCrontabKeeps, KeepsLines
  <2> QED BY <1>1, <2>1, <2>2 DEF OwnerKept, HasLines
<1>6. CASE ClearNow
  <2>1. CASE Die
    BY <1>2, <2>1 DEF Die, Lost
  <2>2. CASE Finish /\ UNCHANGED <<crontab, now, device, inbox, history, sent, own>>
    BY <1>2, <2>2 DEF Finish
  <2>3. CASE /\ pc' = "resubmit" /\ Keeps(crontab, work')
             /\ UNCHANGED <<crontab, now, device, inbox, history, sent, own, req>>
    BY <1>0, <1>2, <2>3, KeepsLines
  <2> QED BY <1>6, <2>1, <2>2, <2>3, ClearNowOutcome
<1> QED BY <1>3, <1>4, <1>5, <1>6 DEF Server

\* No line is lost that the owner adds while no array is about to be written,
\* unless "cancel last" restores a crontab older than it.
THEOREM OwnerLinesKept ==
  Polite /\ (\A c \in UserCommands : c.kind # "cancel_last") => (Spec => []OwnerKept)
<1> SUFFICES ASSUME Polite, \A c \in UserCommands : c.kind # "cancel_last"
             PROVE  Spec => []OwnerKept
  OBVIOUS
<1>1. Init => OwnerKept
  BY DEF Init, OwnerKept, HasLines
<1>2. TypeOK /\ OwnerKept /\ [Next]_vars => OwnerKept'
  <2> SUFFICES ASSUME TypeOK, OwnerKept, [Next]_vars PROVE OwnerKept'
    OBVIOUS
  <2>1. CASE Tick \/ \E c \in UserCommands : UserSends(c)
    BY <2>1 DEF Tick, UserSends, OwnerKept, HasLines
  <2>2. CASE Server
    BY <2>2, ServerOwn
  <2>3. CASE \E x \in OwnerLines : OwnerAdds(x)
    BY <2>3, OwnerAddsOwn
  <2>4. CASE PowerFail \/ Boot
    BY <2>4 DEF PowerFail, Boot, Lost, OwnerKept, HasLines
  <2>5. CASE UNCHANGED vars
    BY <2>5 DEF vars, OwnerKept, HasLines
  <2> QED BY <2>1, <2>2, <2>3, <2>4, <2>5 DEF Next
<1> QED BY <1>1, <1>2, TypeCorrect, PTL DEF Spec

=============================================================================
