------------------------ MODULE CommandHistory_proofs ------------------------
(***************************************************************************)
(* The flat command history implements the stack of frames, for every set  *)
(* of commands, devices and crontabs and every length of the history - if  *)
(* getpeername() never fails.                                              *)
(***************************************************************************)
EXTENDS CommandHistory, SequenceTheorems, TLAPS

Value == Text \cup Peer \cup Device \cup Cron

\* A stack on which n frames lie, and what FrameStack sees of it.
Frame == [command : Text, peer : Peer, device : Device, cron : Cron]
FrameAt(stack, k) ==
  [command |-> stack[4 * k - 3], peer |-> stack[4 * k - 2],
   device |-> stack[4 * k - 1], cron |-> stack[4 * k]]
Framed(stack, n) == [k \in 1 .. n |-> FrameAt(stack, k)]
Stacked(stack, n) ==
  /\ stack \in Seq(Value)
  /\ Len(stack) = 4 * n
  /\ \A k \in 1 .. n : FrameAt(stack, k) \in Frame

-----------------------------------------------------------------------------
(* Stacks of frames *)

\* A frame is well-formed when its four values are of their sorts.
LEMMA FrameTypes ==
  ASSUME NEW stack, NEW k
  PROVE  FrameAt(stack, k) \in Frame <=>
           /\ stack[4 * k - 3] \in Text
           /\ stack[4 * k - 2] \in Peer
           /\ stack[4 * k - 1] \in Device
           /\ stack[4 * k] \in Cron
BY DEF FrameAt, Frame

\* Frames depend on the values below them only.
LEMMA FramedSame ==
  ASSUME NEW s, NEW t, NEW n \in Nat,
         \A i \in 1 .. 4 * n : s[i] = t[i]
  PROVE  /\ Framed(s, n) = Framed(t, n)
         /\ \A k \in 1 .. n : FrameAt(s, k) = FrameAt(t, k)
<1>1. ASSUME NEW k \in 1 .. n PROVE FrameAt(s, k) = FrameAt(t, k)
  <2>1. {4 * k - 3, 4 * k - 2, 4 * k - 1, 4 * k} \subseteq 1 .. 4 * n
    OBVIOUS
  <2> QED BY <2>1 DEF FrameAt
<1> QED BY <1>1 DEF Framed

\* The frames of a stack are a sequence of frames.
LEMMA FramedType ==
  ASSUME NEW stack, NEW n \in Nat, Stacked(stack, n)
  PROVE  Framed(stack, n) \in Seq(Frame) /\ Len(Framed(stack, n)) = n
<1>1. Framed(stack, n) \in [1 .. n -> Frame]
  BY DEF Framed, Stacked
<1> QED BY <1>1, SeqDef DEF Framed

\* One frame more is a frame appended, one fewer the last one gone.
LEMMA FramedAppend ==
  ASSUME NEW stack, NEW n \in Nat, Stacked(stack, n + 1)
  PROVE  /\ Framed(stack, n + 1) = Append(Framed(stack, n), FrameAt(stack, n + 1))
         /\ SubSeq(Framed(stack, n + 1), 1, n) = Framed(stack, n)
<1>1. Framed(stack, n) \in [1 .. n -> Frame]
  BY DEF Framed, Stacked
<1>2. Framed(stack, n + 1) \in Seq(Frame) /\ Len(Framed(stack, n + 1)) = n + 1
  BY FramedType
<1>3. Framed(stack, n) \in Seq(Frame) /\ Len(Framed(stack, n)) = n
  BY <1>1, SeqDef DEF Framed
<1>4. FrameAt(stack, n + 1) \in Frame
  BY DEF Stacked
<1>5. Append(Framed(stack, n), FrameAt(stack, n + 1)) \in Seq(Frame)
  BY <1>3, <1>4, AppendProperties
<1>6. Len(Append(Framed(stack, n), FrameAt(stack, n + 1))) = n + 1
  BY <1>3, <1>4, AppendProperties
<1>7. \A k \in 1 .. n + 1 :
        Framed(stack, n + 1)[k] = Append(Framed(stack, n), FrameAt(stack, n + 1))[k]
  BY <1>3, <1>4, AppendProperties DEF Framed
<1>8. Framed(stack, n + 1) = Append(Framed(stack, n), FrameAt(stack, n + 1))
  BY <1>2, <1>5, <1>6, <1>7, SeqEqual
<1>9. SubSeq(Framed(stack, n + 1), 1, n) = Framed(stack, n)
  BY <1>2, SubSeqProperties DEF Framed
<1> QED BY <1>8, <1>9

\* What is left when a frame is popped.
LEMMA PoppedFrame ==
  ASSUME NEW stack, NEW n \in Nat, Stacked(stack, n + 1)
  PROVE  /\ Stacked(popped(stack, FrameSize), n)
         /\ Framed(popped(stack, FrameSize), n) = Framed(stack, n)
<1> DEFINE rest == popped(stack, FrameSize)
<1>1. stack \in Seq(Value) /\ Len(stack) = 4 * n + 4
  BY DEF Stacked
<1>2. rest = SubSeq(stack, 1, 4 * n)
  BY <1>1 DEF popped, FrameSize
<1>3. /\ rest \in Seq(Value) /\ Len(rest) = 4 * n
      /\ \A i \in 1 .. 4 * n : rest[i] = stack[i]
  <2>1. \A i \in 1 .. 4 * n : stack[i] \in Value
    BY <1>1, ElementOfSeq
  <2> QED BY <1>1, <1>2, <2>1, SubSeqProperties
<1> HIDE DEF rest
<1>4. Framed(rest, n) = Framed(stack, n)
      /\ \A k \in 1 .. n : FrameAt(rest, k) = FrameAt(stack, k)
  BY <1>3, FramedSame
<1> QED BY <1>3, <1>4 DEF Stacked, rest

\* top() of 4 * m values: every fourth one is the command of a frame.
LEMMA TopCommands ==
  ASSUME NEW stack, NEW n \in Nat, Stacked(stack, n), NEW m \in Nat
  PROVE  LET values == top(stack, m * FrameSize)
             p == IF m < n THEN m ELSE n
         IN  /\ Len(values) = 4 * p
             /\ \A i \in 1 .. p : values[i * FrameSize] = FrameAt(stack, n + 1 - i).command
<1> DEFINE values == top(stack, m * FrameSize)
           p == IF m < n THEN m ELSE n
<1>1. Len(stack) = 4 * n
  BY DEF Stacked
<1>2. values = [i \in 1 .. 4 * p |-> stack[4 * n + 1 - i]]
  BY <1>1 DEF top, FrameSize
<1>3. Len(values) = 4 * p
  BY <1>2
<1>4. ASSUME NEW i \in 1 .. p
      PROVE  values[i * FrameSize] = FrameAt(stack, n + 1 - i).command
  <2>1. i * 4 \in 1 .. 4 * p
    OBVIOUS
  <2>2. values[i * 4] = stack[4 * n + 1 - i * 4]
    BY <1>2, <2>1
  <2>3. 4 * n + 1 - i * 4 = 4 * (n + 1 - i) - 3
    OBVIOUS
  <2> QED BY <2>2, <2>3 DEF FrameAt, FrameSize
<1> QED BY <1>3, <1>4

\* Four values on top of 4 * n.
LEMMA FourOnTop ==
  ASSUME NEW s \in Seq(Value), NEW t \in Seq(Value), NEW n \in Nat,
         Len(s) = 4 * n, Len(t) = 4
  PROVE  /\ s \o t \in Seq(Value) /\ Len(s \o t) = 4 * n + 4
         /\ \A i \in 1 .. 4 * n : (s \o t)[i] = s[i]
         /\ \A i \in 1 .. 4 : (s \o t)[4 * n + i] = t[i]
<1>1. /\ s \o t \in Seq(Value) /\ Len(s \o t) = Len(s) + Len(t)
      /\ \A i \in 1 .. Len(s) + Len(t) :
           (s \o t)[i] = IF i <= Len(s) THEN s[i] ELSE t[i - Len(s)]
  BY ConcatProperties
<1>2. ASSUME NEW i \in 1 .. 4 PROVE (s \o t)[4 * n + i] = t[i]
  <2>1. 4 * n + i \in 1 .. Len(s) + Len(t) /\ ~ (4 * n + i <= Len(s))
    OBVIOUS
  <2>2. (4 * n + i) - Len(s) = i
    OBVIOUS
  <2> QED BY <1>1, <2>1, <2>2
<1>3. ASSUME NEW i \in 1 .. 4 * n PROVE (s \o t)[i] = s[i]
  <2>1. i \in 1 .. Len(s) + Len(t) /\ i <= Len(s)
    OBVIOUS
  <2> QED BY <1>1, <2>1
<1> QED BY <1>1, <1>2, <1>3

\* A frame is pushed when the peer is there.
LEMMA PushedFrame ==
  ASSUME NEW stack, NEW n \in Nat, Stacked(stack, n), NEW text \in Text,
         NEW peer \in Peer, NEW device \in Device, NEW cron \in Cron
  PROVE  LET new == push(stack, text, peer, device, cron)
         IN  /\ Stacked(new, n + 1)
             /\ Framed(new, n) = Framed(stack, n)
             /\ FrameAt(new, n + 1) = [command |-> text, peer |-> peer,
                                       device |-> device, cron |-> cron]
<1> DEFINE four == <<text, peer, device, cron>>
           new == push(stack, text, peer, device, cron)
<1>1. stack \in Seq(Value) /\ Len(stack) = 4 * n
  BY DEF Stacked
<1>2. four \in Seq(Value) /\ Len(four) = 4
  BY DEF Value
<1>3. new = stack \o four
  BY PushedAssumption DEF push
<1>4. /\ new \in Seq(Value) /\ Len(new) = 4 * n + 4
      /\ \A i \in 1 .. 4 * n : new[i] = stack[i]
      /\ \A i \in 1 .. 4 : new[4 * n + i] = four[i]
  <2> HIDE DEF four, new
  <2> QED BY <1>1, <1>2, <1>3, FourOnTop
<1>5. /\ new[4 * n + 1] = text /\ new[4 * n + 2] = peer
      /\ new[4 * n + 3] = device /\ new[4 * n + 4] = cron
  <2>1. /\ new[4 * n + 1] = four[1] /\ new[4 * n + 2] = four[2]
        /\ new[4 * n + 3] = four[3] /\ new[4 * n + 4] = four[4]
    <3> HIDE DEF four, new
    <3> QED BY <1>4
  <2> HIDE DEF new
  <2> QED BY <2>1
<1> HIDE DEF new, four
<1>6. FrameAt(new, n + 1) = [command |-> text, peer |-> peer,
                             device |-> device, cron |-> cron]
  <2>1. /\ 4 * (n + 1) - 3 = 4 * n + 1 /\ 4 * (n + 1) - 2 = 4 * n + 2
        /\ 4 * (n + 1) - 1 = 4 * n + 3 /\ 4 * (n + 1) = 4 * n + 4
    OBVIOUS
  <2> QED BY <1>5, <2>1 DEF FrameAt
<1>7. FrameAt(new, n + 1) \in Frame
  BY <1>6 DEF Frame
<1>8. /\ Framed(new, n) = Framed(stack, n)
      /\ \A k \in 1 .. n : FrameAt(new, k) = FrameAt(stack, k)
  BY <1>4, FramedSame
<1>9. Stacked(new, n + 1)
  <2>1. ASSUME NEW k \in 1 .. n + 1 PROVE FrameAt(new, k) \in Frame
    <3>1. CASE k = n + 1
      BY <1>7, <3>1
    <3>2. CASE k \in 1 .. n
      <4>1. FrameAt(stack, k) \in Frame
        BY <3>2 DEF Stacked
      <4> QED BY <1>8, <3>2, <4>1
    <3> QED BY <3>1, <3>2
  <2>2. Len(new) = 4 * (n + 1)
    BY <1>4
  <2> QED BY <1>4, <2>1, <2>2 DEF Stacked
<1> QED BY <1>6, <1>8, <1>9 DEF new

\* supplant(2, device) changes the device of the topmost frame.
LEMMA SupplantedFrame ==
  ASSUME NEW stack, NEW n \in Nat, Stacked(stack, n + 1), NEW device \in Device
  PROVE  LET new == supplant(stack, 2, device)
         IN  /\ Stacked(new, n + 1)
             /\ Framed(new, n) = Framed(stack, n)
             /\ FrameAt(new, n + 1) =
                  [command |-> FrameAt(stack, n + 1).command,
                   peer |-> FrameAt(stack, n + 1).peer,
                   device |-> device, cron |-> FrameAt(stack, n + 1).cron]
<1> DEFINE new == supplant(stack, 2, device)
<1>1. stack \in Seq(Value) /\ Len(stack) = 4 * n + 4
  BY DEF Stacked
<1>2. DOMAIN stack = 1 .. 4 * n + 4 /\ \A i \in 1 .. 4 * n + 4 : stack[i] \in Value
  BY <1>1, ElementOfSeq, LenProperties
<1>3. new = [i \in 1 .. 4 * n + 4 |-> IF i = 4 * n + 3 THEN device ELSE stack[i]]
  BY <1>1, <1>2 DEF supplant
<1>4. /\ new \in Seq(Value) /\ Len(new) = 4 * n + 4
      /\ \A i \in 1 .. 4 * n + 4 : new[i] = IF i = 4 * n + 3 THEN device ELSE stack[i]
  <2>1. new \in [1 .. 4 * n + 4 -> Value]
    BY <1>2, <1>3 DEF Value
  <2> QED BY <1>3, <2>1, SeqDef
<1> HIDE DEF new
<1>5. FrameAt(new, n + 1) =
        [command |-> FrameAt(stack, n + 1).command,
         peer |-> FrameAt(stack, n + 1).peer,
         device |-> device, cron |-> FrameAt(stack, n + 1).cron]
  <2>1. /\ new[4 * (n + 1) - 3] = stack[4 * (n + 1) - 3]
        /\ new[4 * (n + 1) - 2] = stack[4 * (n + 1) - 2]
        /\ new[4 * (n + 1) - 1] = device
        /\ new[4 * (n + 1)] = stack[4 * (n + 1)]
    BY <1>4
  <2> QED BY <2>1 DEF FrameAt
<1>6. FrameAt(stack, n + 1) \in Frame
  BY DEF Stacked
<1>7. FrameAt(new, n + 1) \in Frame
  BY <1>5, <1>6 DEF Frame
<1>8. /\ Framed(new, n) = Framed(stack, n)
      /\ \A k \in 1 .. n : FrameAt(new, k) = FrameAt(stack, k)
  BY <1>4, FramedSame
<1>9. Stacked(new, n + 1)
  <2>1. ASSUME NEW k \in 1 .. n + 1 PROVE FrameAt(new, k) \in Frame
    <3>1. CASE k = n + 1
      BY <1>7, <3>1
    <3>2. CASE k \in 1 .. n
      <4>1. FrameAt(stack, k) \in Frame
        BY <3>2 DEF Stacked
      <4> QED BY <1>8, <3>2, <4>1
    <3> QED BY <3>1, <3>2
  <2>2. Len(new) = 4 * (n + 1)
    BY <1>4
  <2> QED BY <1>4, <2>1, <2>2 DEF Stacked
<1> QED BY <1>5, <1>8, <1>9 DEF new

-----------------------------------------------------------------------------
(* The frames of the history *)

\* A stack of n frames is aligned.
LEMMA StackedAligned ==
  ASSUME NEW stack, NEW n \in Nat, Stacked(stack, n)
  PROVE  /\ stack \in Seq(Value)
         /\ Len(stack) = 4 * n /\ Len(stack) % 4 = 0 /\ Len(stack) \div 4 = n
         /\ \A k \in 1 .. n : /\ stack[4 * k - 3] \in Text
                              /\ stack[4 * k - 2] \in Peer
                              /\ stack[4 * k - 1] \in Device
                              /\ stack[4 * k] \in Cron
<1>1. Len(stack) = 4 * n /\ stack \in Seq(Value)
  BY DEF Stacked
<1>2. (4 * n) % 4 = 0 /\ (4 * n) \div 4 = n
  OBVIOUS
<1>3. ASSUME NEW k \in 1 .. n
      PROVE  /\ stack[4 * k - 3] \in Text /\ stack[4 * k - 2] \in Peer
             /\ stack[4 * k - 1] \in Device /\ stack[4 * k] \in Cron
  BY FrameTypes DEF Stacked
<1> QED BY <1>1, <1>2, <1>3

\* n frames lie on the stack, the topmost that of a command being handled.
View(n) ==
  /\ Stacked(et, n)
  /\ pc = "dispatch" =>
       /\ n >= 1
       /\ FrameAt(et, n).command = line.text
       /\ FrameAt(et, n).cron = crontab

\* The types of the other variables.
Controlled == crontab \in Cron /\ line \in Lines /\ pc \in {"accept", "dispatch"}

\* A type-correct history is one of frames.
LEMMA TypeOKView ==
  ASSUME TypeOK
  PROVE  \E n \in Nat : View(n)
<1> DEFINE n == Len(et) \div 4
<1>1. et \in Seq(Value) /\ Len(et) \in Nat
  BY LenProperties DEF TypeOK, Value
<1>2. n \in Nat /\ Len(et) = 4 * n
  BY <1>1 DEF TypeOK, Aligned, FrameSize
<1>3. \A k \in 1 .. n : FrameAt(et, k) \in Frame
  BY FrameTypes DEF TypeOK, Aligned, FrameSize
<1>4. Stacked(et, n)
  BY <1>1, <1>2, <1>3 DEF Stacked
<1>5. ASSUME pc = "dispatch"
      PROVE  /\ n >= 1
             /\ FrameAt(et, n).command = line.text
             /\ FrameAt(et, n).cron = crontab
  <2>1. Len(et) >= 4 /\ et[Len(et) - 3] = line.text /\ et[Len(et)] = crontab
    BY <1>5 DEF TypeOK, FrameSize
  <2>2. n >= 1 /\ et[4 * n - 3] = line.text /\ et[4 * n] = crontab
    <3> HIDE DEF n
    <3> QED BY <2>1, <1>2
  <2> HIDE DEF n
  <2> QED BY <2>2 DEF FrameAt
<1> HIDE DEF n
<1> QED BY <1>2, <1>4, <1>5 DEF View

\* FrameStack sees these frames but that of the command being handled.
LEMMA ViewFrames ==
  \A n \in Nat :
    View(n) => FramesOf = Framed(et, IF pc = "dispatch" THEN n - 1 ELSE n)
<1> SUFFICES ASSUME NEW n \in Nat, View(n)
             PROVE  FramesOf = Framed(et, IF pc = "dispatch" THEN n - 1 ELSE n)
  OBVIOUS
<1>1. Complete = IF pc = "dispatch" THEN n - 1 ELSE n
  BY StackedAligned DEF View, Complete, FrameSize
<1> QED BY <1>1 DEF FramesOf, Framed, FrameAt

\* A history of frames is type-correct.
LEMMA ViewTypeOK ==
  (\E n \in Nat : View(n)) /\ Controlled => TypeOK
<1> SUFFICES ASSUME NEW n \in Nat, View(n), Controlled
             PROVE  TypeOK
  OBVIOUS
<1>1. Stacked(et, n)
  BY DEF View
<1>2. Aligned /\ et \in Seq(Text \cup Peer \cup Device \cup Cron)
  BY <1>1, StackedAligned DEF Aligned, FrameSize, Value
<1>3. ASSUME pc = "dispatch"
      PROVE  /\ Len(et) >= 4
             /\ et[Len(et) - 3] = line.text
             /\ et[Len(et)] = crontab
  BY <1>1, <1>3, StackedAligned DEF View, FrameAt
<1> QED BY <1>2, <1>3 DEF TypeOK, FrameSize, Controlled

\* The same of the next state.
LEMMA NextViews ==
  /\ (\A n \in Nat :
        View(n) => FramesOf = Framed(et, IF pc = "dispatch" THEN n - 1 ELSE n))'
  /\ ((\E n \in Nat : View(n)) /\ Controlled => TypeOK)'
BY ViewFrames, ViewTypeOK, PTL

-----------------------------------------------------------------------------
(* Every step *)

\* What the next state must have: it is type-correct, and FrameStack takes a
\* step or none.
Good == TypeOK' /\ (Frames!Next \/ UNCHANGED <<line, FramesOf, crontab, reply>>)

\* A command is received.
LEMMA AcceptGood ==
  ASSUME NoPeer \notin Peers, TypeOK, Accept PROVE Good
<1>1. PICK n \in Nat : View(n)
  BY TypeOKView
<1>2. PICK l \in Lines, peer \in Peers :
        line' = l /\ et' = push(et, l.text, peer, DefaultDevice, crontab)
  BY DEF Accept
<1>3. /\ pc = "accept" /\ pc' = "dispatch" /\ crontab' = crontab /\ reply' = reply
      /\ crontab \in Cron
  BY DEF Accept, TypeOK
<1>4. /\ l.text \in Text /\ peer \in Peer /\ DefaultDevice \in Device
  BY PushedAssumption DEF Line
<1>5. /\ Stacked(et', n + 1)
      /\ Framed(et', n) = Framed(et, n)
      /\ FrameAt(et', n + 1) = [command |-> l.text, peer |-> peer,
                                device |-> DefaultDevice, cron |-> crontab]
  <2>1. Stacked(et, n)
    BY <1>1 DEF View
  <2> QED BY <1>2, <1>3, <1>4, <2>1, PushedFrame
<1>6. View(n + 1)'
  BY <1>2, <1>3, <1>5 DEF View
<1>7. TypeOK'
  BY <1>2, <1>3, <1>6, NextViews DEF Controlled
<1>8. FramesOf = Framed(et, n) /\ FramesOf' = Framed(et', n)
  BY <1>1, <1>3, <1>6, ViewFrames, NextViews
<1>9. Frames!Receive
  BY <1>2, <1>3, <1>5, <1>8 DEF Frames!Receive
<1> QED BY <1>7, <1>9 DEF Good, Frames!Next

\* Handlers that leave the command's own frame on the stack.
LEMMA RememberGood ==
  ASSUME TypeOK, HandlePlain \/ HandleVariant PROVE Good
<1>1. PICK n \in Nat : View(n)
  BY TypeOKView
<1>2. pc = "dispatch" /\ line' = line /\ pc' = "accept" /\ crontab' \in Cron
      /\ reply' = << >> /\ line \in Lines
  BY DEF HandlePlain, HandleVariant, Dispatch, Done, TypeOK
<1>3. PICK m \in Nat : n = m + 1
  <2>1. n - 1 \in Nat /\ n = (n - 1) + 1
    BY <1>1, <1>2 DEF View
  <2> QED BY <2>1
<1> DEFINE f == FrameAt(et, m + 1)
           new == FrameAt(et', m + 1)
<1>4. Stacked(et, m + 1) /\ f \in Frame /\ f.command = line.text /\ f.cron = crontab
  BY <1>1, <1>2, <1>3 DEF View, Stacked
<1>5. /\ Stacked(et', m + 1) /\ Framed(et', m) = Framed(et, m)
      /\ new \in Frame /\ new.command = line.text /\ new.cron = crontab
      /\ line.kind \in {"plain", "variant"}
      /\ line.kind = "variant" => new.device = line.device
  <2>1. CASE HandlePlain
    BY <1>4, <2>1 DEF HandlePlain, Dispatch
  <2>2. CASE HandleVariant
    <3>1. line.kind = "variant" /\ et' = supplant(et, 2, line.device)
      BY <2>2 DEF HandleVariant, Dispatch
    <3>2. line.device \in Device
      BY <1>2, <3>1, PushedAssumption DEF Line
    <3>3. /\ Stacked(et', m + 1) /\ Framed(et', m) = Framed(et, m)
          /\ new = [command |-> f.command, peer |-> f.peer,
                    device |-> line.device, cron |-> f.cron]
      BY <1>4, <3>1, <3>2, SupplantedFrame
    <3>4. new \in Frame
      BY <1>4, <3>2, <3>3 DEF Frame
    <3> HIDE DEF f, new
    <3> QED BY <1>4, <3>1, <3>3, <3>4
  <2> QED BY <2>1, <2>2
<1>6. View(m + 1)'
  BY <1>2, <1>5 DEF View
<1>7. TypeOK'
  BY <1>2, <1>6, NextViews DEF Controlled
<1>8. FramesOf = Framed(et, m) /\ FramesOf' = Framed(et', m + 1)
  BY <1>1, <1>2, <1>3, <1>6, ViewFrames, NextViews
<1>9. FramesOf' = Append(FramesOf, new)
  BY <1>5, <1>8, FramedAppend
<1> HIDE DEF f, new
<1>10. Frames!Remember
  BY <1>2, <1>5, <1>9 DEF Frames!Remember, Frames!Frame, Frame
<1> QED BY <1>7, <1>10 DEF Good, Frames!Next

\* A handler that takes its command's own frame off.
LEMMA OwnFrameOff ==
  ASSUME TypeOK, pc = "dispatch"
  PROVE  \E m \in Nat :
           /\ Stacked(popped(et, FrameSize), m)
           /\ FramesOf = Framed(popped(et, FrameSize), m)
<1>1. PICK n \in Nat : View(n)
  BY TypeOKView
<1>2. PICK m \in Nat : n = m + 1
  <2>1. n - 1 \in Nat /\ n = (n - 1) + 1
    BY <1>1 DEF View
  <2> QED BY <2>1
<1>3. FramesOf = Framed(et, m)
  BY <1>1, <1>2, ViewFrames
<1>4. /\ Stacked(popped(et, FrameSize), m)
      /\ Framed(popped(et, FrameSize), m) = Framed(et, m)
  BY <1>1, <1>2, PoppedFrame DEF View
<1> QED BY <1>3, <1>4

\* Then the rest of the stack are FrameStack's frames.
LEMMA OwnFrameGood ==
  ASSUME TypeOK, pc' = "accept", crontab' \in Cron, line' = line,
         NEW m \in Nat, Stacked(et', m)
  PROVE  TypeOK' /\ FramesOf' = Framed(et', m)
<1>1. View(m)'
  BY DEF View
<1>2. TypeOK'
  BY <1>1, NextViews DEF Controlled, TypeOK
<1> QED BY <1>1, <1>2, NextViews

\* "pole" changes nothing a user sees.
LEMMA PoleGood ==
  ASSUME TypeOK, HandlePole PROVE Good
<1>1. PICK m \in Nat : Stacked(et', m) /\ FramesOf = Framed(et', m)
  BY OwnFrameOff DEF HandlePole, Dispatch
<1>2. TypeOK' /\ FramesOf' = FramesOf
  BY <1>1, OwnFrameGood DEF HandlePole, Done, TypeOK
<1> QED BY <1>2 DEF Good, HandlePole, Done

\* The last n commands: every fourth of the 4 * n values on top.
LEMMA LastCommandsOfTop ==
  ASSUME NEW stack, NEW n \in Nat, Stacked(stack, n), NEW m \in Nat,
         FramesOf = Framed(stack, n)
  PROVE  LET values == top(stack, m * FrameSize)
         IN  Frames!LastCommands(m) =
               [i \in 1 .. Len(values) \div FrameSize |-> values[i * FrameSize]]
<1> DEFINE values == top(stack, m * FrameSize)
           p == IF m < n THEN m ELSE n
<1>1. Len(values) = 4 * p
      /\ \A i \in 1 .. p : values[i * FrameSize] = FrameAt(stack, n + 1 - i).command
  BY TopCommands
<1>2. p \in Nat /\ Len(values) \div FrameSize = p
  <2>1. p \in Nat
    OBVIOUS
  <2>2. Len(values) = 4 * p
    BY <1>1
  <2> HIDE DEF p, values
  <2>3. (4 * p) \div 4 = p
    BY <2>1
  <2> QED BY <2>1, <2>2, <2>3 DEF FrameSize
<1>3. Len(FramesOf) = n /\ FramesOf = [k \in 1 .. n |-> FrameAt(stack, k)]
  BY FramedType DEF Framed
<1>4. Frames!LastCommands(m) = [i \in 1 .. p |-> FramesOf[n + 1 - i].command]
  BY <1>3 DEF Frames!LastCommands
<1>5. \A i \in 1 .. p : FramesOf[n + 1 - i].command = values[i * FrameSize]
  BY <1>1, <1>3
<1> HIDE DEF values, p
<1>6. [i \in 1 .. p |-> FramesOf[n + 1 - i].command] =
        [i \in 1 .. p |-> values[i * FrameSize]]
  BY <1>5
<1> QED BY <1>2, <1>4, <1>6 DEF values

\* Of a frame or nothing, the fourth value is every fourth.
LEMMA FourthOfFrame ==
  ASSUME NEW values, NEW m \in Nat, Len(values) = 4 * (IF 1 < m THEN 1 ELSE m)
  PROVE  Fourth(values) =
           [i \in 1 .. Len(values) \div FrameSize |-> values[i * FrameSize]]
<1>1. CASE m = 0
  <2>1. Len(values) = 0 /\ Len(values) \div 4 = 0
    BY <1>1
  <2> QED BY <2>1 DEF Fourth, FrameSize
<1>2. CASE m # 0
  <2>1. Len(values) = 4 /\ Len(values) \div 4 = 1
    BY <1>2
  <2>2. [i \in 1 .. 1 |-> values[i * 4]] = <<values[4]>>
    <3> DEFINE s == [i \in 1 .. 1 |-> values[i * 4]]
    <3>1. s \in Seq({values[4]}) /\ Len(s) = 1 /\ s[1] = values[4]
      BY SeqDef
    <3>2. <<values[4]>> \in Seq({values[4]})
      OBVIOUS
    <3> HIDE DEF s
    <3> QED BY <3>1, <3>2, SeqEqual DEF s
  <2> QED BY <2>1, <2>2 DEF Fourth, FrameSize
<1> QED BY <1>1, <1>2

\* "last?" and "what were the last n".
LEMMA AskGood ==
  ASSUME TypeOK, HandleLast \/ HandleLastN PROVE Good
<1>1. /\ pc = "dispatch" /\ line.kind \in {"last", "lastn"} /\ line \in Lines
      /\ et' = popped(et, FrameSize)
      /\ pc' = "accept" /\ line' = line /\ crontab' = crontab /\ crontab \in Cron
  BY DEF HandleLast, HandleLastN, Dispatch, Done, TypeOK
<1>2. PICK m \in Nat : Stacked(et', m) /\ FramesOf = Framed(et', m)
  BY <1>1, OwnFrameOff
<1>3. TypeOK' /\ FramesOf' = FramesOf
  BY <1>1, <1>2, OwnFrameGood
<1> DEFINE commands(q) == [i \in 1 .. Len(top(et', q * FrameSize)) \div FrameSize |->
                            top(et', q * FrameSize)[i * FrameSize]]
<1>4. \A q \in Nat : Frames!LastCommands(q) = commands(q)
  BY <1>2, LastCommandsOfTop
<1>5. reply' = Frames!LastCommands(IF line.kind = "last" THEN 1 ELSE line.n)
  <2>1. CASE HandleLast
    <3>1. line.kind = "last" /\ reply' = Fourth(top(et', 1 * FrameSize))
      BY <2>1 DEF HandleLast, Dispatch, FrameSize
    <3>2. Len(top(et', 1 * FrameSize)) = 4 * (IF 1 < m THEN 1 ELSE m)
      BY <1>2, TopCommands
    <3>3. Fourth(top(et', 1 * FrameSize)) = commands(1)
      BY <1>2, <3>2, FourthOfFrame
    <3> HIDE DEF commands
    <3> QED BY <1>4, <3>1, <3>3
  <2>2. CASE HandleLastN
    <3>1. line.kind = "lastn" /\ line.n \in Nat
      BY <1>1, <2>2, PushedAssumption DEF HandleLastN, Dispatch, Line
    <3>2. reply' = commands(line.n)
      BY <2>2 DEF HandleLastN
    <3> HIDE DEF commands
    <3> QED BY <1>4, <3>1, <3>2
  <2> QED BY <2>1, <2>2
<1>6. Frames!Ask
  BY <1>1, <1>3, <1>5 DEF Frames!Ask
<1> QED BY <1>3, <1>6 DEF Good, Frames!Next

\* "cancel last".
LEMMA CancelGood ==
  ASSUME TypeOK, HandleCancel PROVE Good
<1> DEFINE rest == popped(et, FrameSize)
           values == top(rest, 1 * FrameSize)
<1>1. /\ pc = "dispatch" /\ line.kind = "cancel" /\ crontab \in Cron
      /\ et' = popped(rest, FrameSize) /\ reply' = Fourth(values)
      /\ \/ Fourth(values) = << >> /\ Done /\ UNCHANGED crontab
         \/ /\ Fourth(values) # << >>
            /\ \/ values[1] \in Cron /\ Done /\ crontab' = values[1]
               \/ values[1] \notin Cron /\ pc' = "dead" /\ UNCHANGED <<line, crontab>>
  BY DEF HandleCancel, Dispatch, Cancelled, FrameSize, TypeOK
<1>2. PICK m \in Nat : Stacked(rest, m) /\ FramesOf = Framed(rest, m)
  BY <1>1, OwnFrameOff
<1>3. Len(values) = 4 * (IF 1 < m THEN 1 ELSE m)
  BY <1>2, TopCommands
<1>4. Len(rest) = 4 * m
  BY <1>2 DEF Stacked
<1> HIDE DEF rest
<1>5. values = [i \in 1 .. (IF 4 < Len(rest) THEN 4 ELSE Len(rest)) |->
                  rest[Len(rest) + 1 - i]]
  BY DEF top, FrameSize
<1>6. Frames!LastCommands(1) = reply'
  <2>1. Fourth(values) =
          [i \in 1 .. Len(values) \div FrameSize |-> values[i * FrameSize]]
    BY <1>3, FourthOfFrame
  <2>2. Frames!LastCommands(1) =
          [i \in 1 .. Len(values) \div FrameSize |-> values[i * FrameSize]]
    <3>1. 1 \in Nat
      OBVIOUS
    <3> QED BY <1>2, <3>1, LastCommandsOfTop
  <2> QED BY <1>1, <2>1, <2>2
<1>7. Len(FramesOf) = m /\ FramesOf \in Seq(Frame)
  BY <1>2, FramedType
<1>8. CASE m = 0
  <2>1. Fourth(values) = << >> /\ FramesOf = << >>
    BY <1>3, <1>7, <1>8, EmptySeq DEF Fourth, FrameSize
  <2>2. et' = rest
    <3>1. rest = << >>
      BY <1>2, <1>4, <1>8, EmptySeq DEF Stacked
    <3>2. popped(<< >>, FrameSize) = << >>
      BY DEF popped, FrameSize
    <3> QED BY <1>1, <3>1, <3>2
  <2>3. pc' = "accept" /\ line' = line /\ crontab' = crontab
    BY <1>1, <2>1 DEF Done
  <2>4. TypeOK' /\ FramesOf' = FramesOf
    BY <1>1, <1>2, <2>2, <2>3, OwnFrameGood
  <2>5. Frames!Cancel
    BY <1>1, <1>6, <2>1, <2>3, <2>4 DEF Frames!Cancel
  <2> QED BY <2>4, <2>5 DEF Good, Frames!Next
<1>9. CASE m # 0
  <2>1. PICK k \in Nat : m = k + 1
    <3>1. m - 1 \in Nat /\ m = (m - 1) + 1
      BY <1>9
    <3> QED BY <3>1
  <2>2. /\ Stacked(et', k) /\ Framed(et', k) = Framed(rest, k)
        /\ FrameAt(rest, m) \in Frame
    <3>1. Stacked(rest, k + 1) /\ m \in 1 .. m
      BY <1>2, <2>1
    <3>2. FrameAt(rest, m) \in Frame
      BY <1>2, <3>1 DEF Stacked
    <3> QED BY <1>1, <3>1, <3>2, PoppedFrame
  <2>3. Len(values) = 4 /\ values[1] = rest[4 * m]
    <3>1. Len(values) = 4
      <4>1. (IF 1 < m THEN 1 ELSE m) = 1
        BY <1>9
      <4> HIDE DEF values
      <4> QED BY <1>3, <4>1
    <3>2. 1 \in 1 .. (IF 4 < Len(rest) THEN 4 ELSE Len(rest)) /\ Len(rest) + 1 - 1 = 4 * m
      BY <1>4, <1>9
    <3>3. values[1] = rest[Len(rest) + 1 - 1]
      BY <1>5, <3>2
    <3> QED BY <3>1, <3>2, <3>3
  <2>4. values[1] = FrameAt(rest, m).cron
    BY <2>3 DEF FrameAt
  <2>5. values[1] \in Cron
    BY <2>2, <2>4 DEF Frame
  <2>6. Fourth(values) # << >>
    <3> HIDE DEF values
    <3> QED BY <2>3 DEF Fourth, FrameSize
  <2> HIDE DEF values
  <2>7. pc' = "accept" /\ line' = line /\ crontab' = values[1]
    BY <1>1, <2>5, <2>6 DEF Done
  <2>8. TypeOK' /\ FramesOf' = Framed(et', k)
    BY <2>2, <2>5, <2>7, OwnFrameGood
  <2>9. SubSeq(FramesOf, 1, m - 1) = FramesOf'
    <3>1. Stacked(rest, k + 1) /\ m - 1 = k
      BY <1>2, <2>1
    <3>2. SubSeq(Framed(rest, k + 1), 1, k) = Framed(rest, k)
      BY <3>1, FramedAppend
    <3> QED BY <1>2, <2>1, <2>2, <2>8, <3>1, <3>2
  <2>10. FramesOf[m] = FrameAt(rest, m) /\ FramesOf # << >>
    BY <1>2, <1>7, <1>9 DEF Framed
  <2>11. Frames!Cancel
    BY <1>1, <1>6, <1>7, <2>4, <2>7, <2>9, <2>10 DEF Frames!Cancel
  <2> QED BY <2>8, <2>11 DEF Good, Frames!Next
<1> QED BY <1>8, <1>9

-----------------------------------------------------------------------------
(* Theorems *)

\* At the start one frame lies on the stack.
LEMMA Start ==
  ASSUME Init, NoPeer \notin Peers PROVE TypeOK /\ Frames!Init
<1>1. PICK text \in Text, peer \in Peer :
        et = <<text, peer, DefaultDevice, crontab>>
  BY DEF Init
<1>2. crontab \in Cron /\ line \in Lines /\ pc = "accept" /\ reply = << >>
      /\ DefaultDevice \in Device
  BY PushedAssumption DEF Init
<1>3. /\ Len(et) = 4 /\ et[1] = text /\ et[2] = peer
      /\ et[3] = DefaultDevice /\ et[4] = crontab
      /\ et \in Seq(Value)
  BY <1>1, <1>2 DEF Value
<1>4. FrameAt(et, 1) = [command |-> text, peer |-> peer,
                        device |-> DefaultDevice, cron |-> crontab]
  BY <1>3 DEF FrameAt
<1>5. Stacked(et, 1)
  BY <1>2, <1>3, <1>4 DEF Stacked, Frame
<1>6. View(1)
  BY <1>2, <1>5 DEF View
<1>7. TypeOK /\ FramesOf = Framed(et, 1)
  BY <1>2, <1>6, ViewTypeOK, ViewFrames DEF Controlled
<1>8. FramesOf = <<FrameAt(et, 1)>>
  BY <1>7 DEF Framed
<1>9. Frames!Init
  BY <1>2, <1>4, <1>8 DEF Frames!Init, Frames!Frame
<1> QED BY <1>7, <1>9

\* Every step of the server.
LEMMA StepGood ==
  ASSUME NoPeer \notin Peers, TypeOK, [Next]_vars PROVE Good
<1>1. CASE UNCHANGED vars
  BY <1>1 DEF vars, Good, TypeOK, Aligned, FramesOf, Complete
<1>2. CASE Accept
  BY <1>2, AcceptGood
<1>3. CASE HandlePlain \/ HandleVariant
  BY <1>3, RememberGood
<1>4. CASE HandlePole
  BY <1>4, PoleGood
<1>5. CASE HandleLast \/ HandleLastN
  BY <1>5, AskGood
<1>6. CASE HandleCancel
  BY <1>6, CancelGood
<1> QED BY <1>1, <1>2, <1>3, <1>4, <1>5, <1>6 DEF Next, Handler

\* Main loop and handlers of smart_device_svr.lua: as long as getpeername()
\* answers, only whole frames lie on the stack, and no command ends the server.
THEOREM TypeCorrect == NoPeer \notin Peers => (Spec => []TypeOK)
<1> SUFFICES ASSUME NoPeer \notin Peers PROVE Spec => []TypeOK
  OBVIOUS
<1>1. Init => TypeOK
  BY Start
<1>2. TypeOK /\ [Next]_vars => TypeOK'
  BY StepGood DEF Good
<1> QED BY <1>1, <1>2, PTL DEF Spec

\* "last?", "what were the last n" and "cancel last" of smart_device_svr.lua do
\* to the flat stack what they would do to a stack of commands.
THEOREM Refinement == NoPeer \notin Peers => (Spec => IsFrameStack)
<1> SUFFICES ASSUME NoPeer \notin Peers PROVE Spec => IsFrameStack
  OBVIOUS
<1>1. Init => Frames!Init
  BY Start
<1>2. TypeOK /\ [Next]_vars => [Frames!Next]_(Frames!vars)
  BY StepGood DEF Good, Frames!vars
<1>3. Spec => []TypeOK
  BY TypeCorrect
<1> QED BY <1>1, <1>2, <1>3, PTL DEF Spec, IsFrameStack, Frames!Spec
=============================================================================
