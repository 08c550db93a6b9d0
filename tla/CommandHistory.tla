--------------------------- MODULE CommandHistory ---------------------------
(***************************************************************************)
(* command_history_stack of src/smart_device_svr.lua: a flat stack on which*)
(* the main loop pushes four values for every command before it looks at   *)
(* it.  Commands about the history first take their own four off again.    *)
(* That all commands agree on the four is nowhere written down: it is what *)
(* the refinement of FrameStack says.                                      *)
(***************************************************************************)
EXTENDS Integers, Sequences

CONSTANTS
  Text, Peer, Device, Cron,  \* the strings and arrays that are pushed
  NoPeer,                    \* getpeername() is nil
  Peers,                     \* what getpeername() may be
  DefaultDevice,             \* named_constants.devices_list[1]
  Lines,                     \* the commands received
  MaxLen                     \* bound: values on the stack when one stays

FrameSize == 4  \* command_history_stack_frame_size

\* A command line: "plain" stands for every command that leaves the stack
\* alone, "variant" names the device it is about.
Line == [kind : {"plain", "last", "cancel", "pole"}, text : Text]
        \cup [kind : {"variant"}, text : Text, device : Device]
        \cup [kind : {"lastn"}, text : Text, n : Nat]

ASSUME PushedAssumption ==
  /\ Peers \subseteq Peer \cup {NoPeer}
  /\ NoPeer \notin Peer
  /\ DefaultDevice \in Device
  /\ Lines \subseteq Line
  /\ Cron \cap (Text \cup Peer \cup Device) = {}
  /\ MaxLen \in Nat

VARIABLES
  et,       \* command_history_stack._et
  crontab,  \* the installed crontab
  line,     \* the command being handled
  pc,       \* where the main loop is
  reply     \* the commands the last answer named

vars == <<et, crontab, line, pc, reply>>

-----------------------------------------------------------------------------
(* SimpleStack *)

\* ipairs() stops at the first nil.
push(stack, text, peer, device, cron) ==
  stack \o IF peer = NoPeer THEN <<text>> ELSE <<text, peer, device, cron>>

\* Mutant: one entry fewer is removed.
popped_short(stack, n) == SubSeq(stack, 1, Len(stack) - n + 1)

\* What pop(n) leaves, and what it and top(n) return: the topmost first.
popped(stack, n) == SubSeq(stack, 1, Len(stack) - n)
top(stack, n) ==
  [i \in 1 .. (IF n < Len(stack) THEN n ELSE Len(stack)) |->
     stack[Len(stack) + 1 - i]]

supplant(stack, nth, value) ==
  [i \in DOMAIN stack |-> IF i = Len(stack) + 1 - nth THEN value ELSE stack[i]]

-----------------------------------------------------------------------------
(* The main loop *)

\* receive(), getpeername(), get_cron_jobs() and the push of four values.
Accept ==
  /\ pc = "accept"
  /\ \E l \in Lines, peer \in Peers :
       /\ l.kind \in {"plain", "variant"} => Len(et) < MaxLen
       /\ line' = l
       /\ et' = push(et, l.text, peer, DefaultDevice, crontab)
  /\ pc' = "dispatch"
  /\ UNCHANGED <<crontab, reply>>

Dispatch(kind) == pc = "dispatch" /\ line.kind = kind
Done == pc' = "accept" /\ UNCHANGED line

HandlePlain ==
  /\ Dispatch("plain")
  /\ crontab' \in Cron
  /\ reply' = << >>
  /\ Done
  /\ UNCHANGED et

\* A command about a device puts it into its frame.
HandleVariant ==
  /\ Dispatch("variant")
  /\ et' = supplant(et, 2, line.device)
  /\ crontab' \in Cron
  /\ reply' = << >>
  /\ Done

HandlePole ==
  /\ Dispatch("pole")
  /\ et' = popped(et, FrameSize)
  /\ Done
  /\ UNCHANGED <<crontab, reply>>

\* The last of the four values that were returned, if there are four.
Fourth(values) == IF Len(values) = FrameSize THEN <<values[FrameSize]>> ELSE << >>

HandleLast ==
  /\ Dispatch("last")
  /\ et' = popped(et, FrameSize)
  /\ reply' = Fourth(top(et', FrameSize))
  /\ Done
  /\ UNCHANGED crontab

\* "what were the last n": every fourth value of 4 * n.
HandleLastN ==
  /\ Dispatch("lastn")
  /\ et' = popped(et, FrameSize)
  /\ LET values == top(et', line.n * FrameSize)
     IN  reply' = [i \in 1 .. Len(values) \div FrameSize |-> values[i * FrameSize]]
  /\ Done
  /\ UNCHANGED crontab

\* Mutant: the frame of "cancel last" itself is cancelled.
Cancelled_own(stack) == stack

\* "cancel last" takes its own frame off before it looks for the last one.
Cancelled(stack) == popped(stack, FrameSize)

\* "cancel last" pops its own frame and the one before, and submits the
\* crontab it finds there; anything but an array ends the server.
HandleCancel ==
  /\ Dispatch("cancel")
  /\ LET rest == Cancelled(et)
         values == top(rest, FrameSize)
     IN  /\ et' = popped(rest, FrameSize)
         /\ reply' = Fourth(values)
         /\ \/ Fourth(values) = << >> /\ Done /\ UNCHANGED crontab
            \/ /\ Fourth(values) # << >>
               /\ \/ values[1] \in Cron /\ Done /\ crontab' = values[1]
                  \/ values[1] \notin Cron /\ pc' = "dead" /\ UNCHANGED <<line, crontab>>

-----------------------------------------------------------------------------
(* The specification *)

Init ==
  /\ crontab \in Cron
  /\ \E text \in Text, peer \in Peer :
       et = <<text, peer, DefaultDevice, crontab>>
  /\ line \in Lines
  /\ pc = "accept"
  /\ reply = << >>

Handler ==
  \/ HandlePlain \/ HandleVariant \/ HandlePole \/ HandleLast \/ HandleLastN
  \/ HandleCancel

Next == Accept \/ Handler

Spec == Init /\ [][Next]_vars

-----------------------------------------------------------------------------
(* Properties *)

\* The frames of the flat stack, without that of a command being handled.
Complete == Len(et) \div FrameSize - (IF pc = "dispatch" THEN 1 ELSE 0)
FramesOf ==
  [k \in 1 .. Complete |->
     [command |-> et[4 * k - 3], peer |-> et[4 * k - 2],
      device |-> et[4 * k - 1], cron |-> et[4 * k]]]

\* Frames lie on frames: every value is of its position's sort.
Aligned ==
  /\ Len(et) % FrameSize = 0
  /\ \A k \in 1 .. Len(et) \div FrameSize :
       /\ et[4 * k - 3] \in Text
       /\ et[4 * k - 2] \in Peer
       /\ et[4 * k - 1] \in Device
       /\ et[4 * k] \in Cron

\* Every variable has its type and frames lie on frames; while a command is
\* being handled, its own frame with the installed crontab is on top.
TypeOK ==
  /\ et \in Seq(Text \cup Peer \cup Device \cup Cron)
  /\ Aligned
  /\ crontab \in Cron
  /\ line \in Lines
  /\ pc \in {"accept", "dispatch"}
  /\ pc = "dispatch" =>
       /\ Len(et) >= FrameSize
       /\ et[Len(et) - 3] = line.text
       /\ et[Len(et)] = crontab

Frames == INSTANCE FrameStack WITH frames <- FramesOf

\* The flat stack is a stack of frames: "last?", "what were the last n" and
\* "cancel last" name the commands, and restore the crontab, that a user who
\* knows nothing of the four values expects - if getpeername() never fails.
IsFrameStack == Frames!Spec
=============================================================================
