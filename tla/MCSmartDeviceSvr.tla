-------------------------- MODULE MCSmartDeviceSvr --------------------------
(***************************************************************************)
(* Values for the constants of SmartDeviceSvr: a year of eight minutes, a  *)
(* crontab like the one of the README with recurring on and off lines, and *)
(* the commands each run lets users send.                                  *)
(***************************************************************************)
EXTENDS SmartDeviceSvr

Every(times) == [rec |-> TRUE, at |-> times]
Recurring(times, do) == DeviceLine([do |-> do, sched |-> Every(times)], FALSE)

\* A comment, blank lines, and an evening and an afternoon line.
MCCrontab == <<Comment, Blank, Blank, Recurring({3, 5}, "on"),
               Recurring({4, 7}, "off"), Recurring({1}, "on")>>

\* A shorter one for a year of six minutes.
MCShortCrontab == <<Blank, Blank, Recurring({3, 4}, "on"), Recurring({5}, "off"),
                    Recurring({1}, "on")>>

OnePart(do, t) == [at |-> Once(t), do |-> do, kind |-> "one"]
TwoPart(do, t, until) ==
  [at |-> Once(t), do |-> do, kind |-> "two", until |-> Once(until), year |-> 0]
Simple(kind) == [kind |-> kind]

\* One exception at a time: each holds recurring lines at its boundaries.
MCExceptions ==
  {TwoPart("off", 2, 5), TwoPart("on", 4, 6), TwoPart("reboot", 6, 7),
   OnePart("on", 4)} \cup {[do |-> "off", kind |-> "do"]}
  \cup {Simple(k) : k \in {"list", "last"}}

\* Everything a user may send, in any order and in the middle of anything.
MCEverything ==
  {TwoPart("off", 2, 4), OnePart("off", 3), [do |-> "on", kind |-> "do"],
   [TwoPart("on", 0, 2) EXCEPT !.year = 1],
   [at |-> Every({1}), do |-> "on", kind |-> "two", until |-> Every({2}),
    year |-> 0]}
  \cup {Simple(k) : k \in {"last", "delete_old", "cancel_last", "hold_all",
                           "unhold_all", "silent", "status"}}

\* "turn off wifi at 11pm for 2 hours" on New Year's Eve.
MCNewYear == {TwoPart("off", 6, 2)}

\* Two exceptions that overlap.
MCOverlap == {TwoPart("off", 2, 5), TwoPart("off", 4, 6)}

MCCancel == {TwoPart("off", 2, 5), Simple("cancel_last")}

\* What the owner may add.
MCOwnerLines == {Recurring({2, 5}, "on")}

MCOneException == {TwoPart("off", 2, 5)}

MCSilent == {Simple("list"), Simple("silent")}

\* A line for one minute of the year.
OnceLine(do, t, tmp) == DeviceLine([do |-> do, sched |-> Once(t)], tmp)

\* Exceptions, and the commands that bring back or rewrite the whole crontab, in
\* which one-shot lines stand between recurring ones: two exceptions that were
\* about at the same time would put one line on hold and list another.
MCUndoCrontab == <<Recurring({2}, "on"), OnceLine("on", 7, TRUE),
                   OnceLine("on", 6, TRUE), Recurring({6}, "on"), Recurring({4}, "off")>>
MCUndo == {TwoPart("off", 1, 2), TwoPart("off", 5, 7)}
          \cup {Simple(k) : k \in {"cancel_last", "unhold_all", "delete_old"}}

\* Crontabs and commands that lie just outside of what the theorems of
\* Exceptions_proofs assume.  In the first, the one-shot lines get there by
\* commands, on hold, and the owner's line after them.
MCHoldCrontab == <<Recurring({2}, "on")>>
MCHold == {TwoPart("off", 5, 7), OnePart("on", 7), OnePart("on", 6), Simple("hold_all")}
MCLateLine == {Recurring({6}, "on")}

\* A one-shot line of the user's own, and a command for the same.
MCTwinCrontab == <<OnceLine("on", 4, FALSE)>>
MCTwin == {TwoPart("off", 2, 5), OnePart("on", 4)}

\* Recurring two-part commands make #TMP lines that recur.
MCRecurring == {[at |-> Every({1}), do |-> "off", kind |-> "two", until |-> Every({2}),
                 year |-> 0], Simple("delete_old")}
=============================================================================
