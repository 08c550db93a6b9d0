----------------------------- MODULE FrameStack -----------------------------
(***************************************************************************)
(* What the command history of src/smart_device_svr.lua promises a user: a *)
(* stack of frames, one for each command that was not about the history    *)
(* itself, each with the crontab that the command found.                   *)
(***************************************************************************)
EXTENDS Integers, Sequences

CONSTANTS
  Text,    \* what users type
  Peer,    \* where they are
  Device,  \* the devices a command may be about
  Cron,    \* contents of the crontab
  Lines    \* the commands users may send

VARIABLES
  line,     \* the command received last
  frames,   \* the commands so far, the last one on top
  crontab,  \* the installed crontab
  reply     \* the commands the last answer named

vars == <<line, frames, crontab, reply>>

Frame == [command : Text, peer : Peer, device : Device, cron : Cron]

\* The commands of the last n frames, the last one first.
LastCommands(n) ==
  [i \in 1 .. (IF n < Len(frames) THEN n ELSE Len(frames)) |->
     frames[Len(frames) + 1 - i].command]

Init ==
  /\ line \in Lines
  /\ \E f \in Frame : frames = <<f>> /\ crontab = f.cron
  /\ reply = << >>

Receive ==
  /\ line' \in Lines
  /\ UNCHANGED <<frames, crontab, reply>>

\* Any other command: it is remembered with the crontab it found and the
\* device it is about, and may write another crontab.
Remember ==
  /\ line.kind \in {"plain", "variant"}
  /\ \E f \in Frame :
       /\ f.command = line.text
       /\ f.cron = crontab
       /\ line.kind = "variant" => f.device = line.device
       /\ frames' = Append(frames, f)
  /\ crontab' \in Cron
  /\ reply' = << >>
  /\ UNCHANGED line

\* "last?" and "what were the last n", of as many as there are.
Ask ==
  /\ line.kind \in {"last", "lastn"}
  /\ reply' = LastCommands(IF line.kind = "last" THEN 1 ELSE line.n)
  /\ UNCHANGED <<line, frames, crontab>>

\* "cancel last": the crontab is again what the last command found.  There may
\* be nothing left to cancel.
Cancel ==
  /\ line.kind = "cancel"
  /\ reply' = LastCommands(1)
  /\ IF frames = << >>
     THEN UNCHANGED <<frames, crontab>>
     ELSE /\ frames' = SubSeq(frames, 1, Len(frames) - 1)
          /\ crontab' = frames[Len(frames)].cron
  /\ UNCHANGED line

Next == Receive \/ Remember \/ Ask \/ Cancel

Spec == Init /\ [][Next]_vars
=============================================================================
