---------------------------- MODULE MCWeekdays ----------------------------
(***************************************************************************)
(* Commands for Weekdays: up to four words about three days of the week.   *)
(***************************************************************************)
EXTENDS Weekdays

MCDays == {0, 1, 5}

Single_(d, comma) == [w |-> "day", d |-> d, comma |-> comma]
Plain(w) == [w |-> w]

MCWords ==
  {Single_(d, c) : d \in MCDays, c \in BOOLEAN}
  \cup {[w |-> "days", d |-> d] : d \in MCDays}
  \cup {[w |-> "-", d |-> d, to |-> e] : d \in MCDays, e \in MCDays}
  \cup {[w |-> "through", d |-> 5, to |-> 1], [w |-> "through", d |-> 0, to |-> 1]}
  \cup {Plain(w) : w \in {"every day", "every", "except", "but not", "at", "for"}}

AllPhrases == {p \in UNION {[1 .. n -> MCWords \cap Word] : n \in 1 .. 4} : Sensible(p)}

MCOrdinary == {p \in AllPhrases : Ordinary(p)}

\* Courses that end on the day they begin, and one that does not.
MCSameDay == {[at |-> 21, hours |-> 2]}
MCPastMidnight == {[at |-> 23, hours |-> 2]}

\* "on sundays and mondays at 11pm for 2 hours", as a list.
MCList == {<<Single_(0, TRUE), Single_(1, FALSE), Plain("at"), Plain("for")>>}

\* "at 9pm every mon for 2 hours"
MCEvery == {<<Plain("at"), Plain("every"), Single_(1, FALSE), Plain("for")>>}

\* "every day except mondays", "every day but not mon"
MCExcept == {<<Plain("every day"), Plain("except"), [w |-> "days", d |-> 1]>>,
             <<Plain("every day"), Plain("but not"), Single_(1, FALSE)>>}
=============================================================================
