------------------------------ MODULE CronField ------------------------------
(***************************************************************************)
(* cron_parse_expr() of src/ccronexpr.c, which turns the schedule of a     *)
(* crontab line into the sets of values that CronExpr's search takes: one  *)
(* step per element of a field's list, until all fields are done or one    *)
(* element is an error.  A number is its digits, that is a decimal number  *)
(* and whether a zero is written before it; a name stands for its number.  *)
(***************************************************************************)
EXTENDS Integers, Sequences, FiniteSets

CONSTANT
  Lines  \* the five fields a user's crontab line begins with

\* The longest field is of two digits: minutes to 59.
Number == [zero : BOOLEAN, n : 0 .. 99]
NoStep == [zero |-> FALSE, n |-> 100]

\* An element of a list: *, a number or a range, with a step or not.
Element ==
  [shape : {"star", "one", "range"}, from : Number, to : Number,
   step : Number \cup {NoStep}]

\* The fields are seconds, minutes, hours, days, months and days of the week.
Month == 5
Wday == 6

\* The fields are separated by blanks, so none is empty; an empty one would be
\* an error ("Comma split error").
ASSUME LinesAssumption == Lines \subseteq [1 .. 5 -> Seq(Element) \ {<< >>}]

VARIABLES
  line,  \* its fields, with one for the seconds put before them
  at,    \* the field being parsed, 7 if all are
  next,  \* the element of it that is next
  bits,  \* the values set in each field
  error  \* *error has been set

vars == <<line, at, next, bits, error>>

-----------------------------------------------------------------------------

Min(f) == <<0, 0, 0, 1, 1, 0>>[f]

\* The least number that is too large.
Max(f) == <<60, 60, 24, 32, 13, 8>>[f]

ParseError == -1

\* strtol() with base 0: a number that begins with a zero is octal, and what
\* remains of it after the last octal digit is an error.
parse_uint(number) ==
  IF ~number.zero THEN number.n
  ELSE IF number.n % 10 > 7 \/ number.n \div 10 > 7 THEN ParseError
  ELSE 8 * (number.n \div 10) + (number.n % 10)

range(e, f) ==
  IF e.shape = "star" THEN <<Min(f), Max(f) - 1>>
  ELSE <<parse_uint(e.from), parse_uint(IF e.shape = "one" THEN e.from ELSE e.to)>>

\* Mutant: the end of a range is compared with the most a field may hold.
range_fails_off_by_one(r, f) ==
  \/ ParseError \in {r[1], r[2]}
  \/ r[1] >= Max(f) \/ r[2] > Max(f)
  \/ r[1] < Min(f) \/ r[2] < Min(f)
  \/ r[1] > r[2]

\* get_range() finds an error: no number, out of the field's bounds, or a
\* range that starts after its end.
range_fails(r, f) ==
  \/ ParseError \in {r[1], r[2]}
  \/ r[1] >= Max(f) \/ r[2] >= Max(f)
  \/ r[1] < Min(f) \/ r[2] < Min(f)
  \/ r[1] > r[2]

element_fails(e, f) ==
  \/ range_fails(range(e, f), f)
  \/ e.step # NoStep /\ parse_uint(e.step) \in {ParseError, 0}

\* The bits set_number_hits() sets for an element.
hits(e, f) ==
  LET first == range(e, f)[1]
      last == IF e.step # NoStep /\ e.shape # "range" THEN Max(f) - 1 ELSE range(e, f)[2]
      delta == IF e.step = NoStep THEN 1 ELSE parse_uint(e.step)
  IN  {v \in first .. last : (v - first) % delta = 0}

\* Mutant: Sunday's 7 is left beside its 0.
rotated_keeps_7(f, set) ==
  IF f = Month THEN {v - 1 : v \in set} ELSE set

\* What set_months() and set_days_of_week() do in the end: months count from
\* 0, and 7 is Sunday as well.
rotated(f, set) ==
  IF f = Month THEN {v - 1 : v \in set}
  ELSE IF f = Wday /\ 7 \in set THEN (set \ {7}) \cup {0}
  ELSE set

-----------------------------------------------------------------------------

Parsing == at <= 6 /\ ~error

\* The five fields come after one that main() writes: "0 ".
Zero == [shape |-> "one", from |-> [zero |-> FALSE, n |-> 0],
         to |-> [zero |-> FALSE, n |-> 0], step |-> NoStep]

Init ==
  /\ \E l \in Lines : line = [f \in 1 .. 6 |-> IF f = 1 THEN <<Zero>> ELSE l[f - 1]]
  /\ at = 1
  /\ next = 1
  /\ bits = [f \in 1 .. 6 |-> {}]
  /\ error = FALSE

SetElement ==
  /\ Parsing
  /\ next <= Len(line[at])
  /\ ~element_fails(line[at][next], at)
  /\ bits' = [bits EXCEPT ![at] = @ \cup hits(line[at][next], at)]
  /\ next' = next + 1
  /\ UNCHANGED <<line, at, error>>

\* The field is rotated all the same; the fields after it are not begun.
Fail ==
  /\ Parsing
  /\ next <= Len(line[at])
  /\ element_fails(line[at][next], at)
  /\ bits' = [bits EXCEPT ![at] = rotated(at, @)]
  /\ error' = TRUE
  /\ UNCHANGED <<line, at, next>>

EndField ==
  /\ Parsing
  /\ next > Len(line[at])
  /\ bits' = [bits EXCEPT ![at] = rotated(at, @)]
  /\ at' = at + 1
  /\ next' = 1
  /\ UNCHANGED <<line, error>>

Next == SetElement \/ Fail \/ EndField

Spec == Init /\ [][Next]_vars

-----------------------------------------------------------------------------
(* What crond makes of the same line: its numbers are decimal. *)

Bounds(e, f) ==
  IF e.shape = "star" THEN <<Min(f), Max(f) - 1>>
  ELSE IF e.shape = "range" THEN <<e.from.n, e.to.n>>
  ELSE <<e.from.n, IF e.step = NoStep THEN e.from.n ELSE Max(f) - 1>>

\* A value of a field as the search knows it.
Value(v, f) ==
  IF f = Month THEN v - 1 ELSE IF f = Wday THEN v % 7 ELSE v

Means(e, f) ==
  LET b == Bounds(e, f)
      delta == IF e.step = NoStep THEN 1 ELSE e.step.n
  IN  {Value(v, f) : v \in {u \in b[1] .. b[2] : (u - b[1]) % delta = 0}}

crond_accepts(e, f) ==
  LET b == Bounds(e, f)
  IN  Min(f) <= b[1] /\ b[1] <= b[2] /\ b[2] < Max(f) /\ e.step.n > 0

Accepted == \A f \in 1 .. 6 : \A i \in DOMAIN line[f] : crond_accepts(line[f][i], f)

-----------------------------------------------------------------------------
(* Properties *)

\* The fields done are sets of values CronExpr's search can look for.
TypeOK ==
  /\ at \in 1 .. 7
  /\ next \in 1 .. (IF at = 7 THEN 1 ELSE Len(line[at]) + 1)
  /\ error \in BOOLEAN
  /\ \A f \in 1 .. 6 :
       bits[f] \subseteq (IF f < at
                          THEN {Value(v, f) : v \in Min(f) .. Max(f) - 1}
                          ELSE Min(f) - 1 .. Max(f) - 1)

\* cron_parse_expr() "parses specified cron expression" (ccronexpr.h:52): of a
\* line that crond runs, every field is in the end the set of values at which
\* it does.
Understood ==
  Accepted /\ ~Parsing =>
    \A f \in 1 .. 6 : bits[f] = UNION {Means(line[f][i], f) : i \in DOMAIN line[f]}

\* And nothing else is taken for a line: an error is set for what crond does
\* not accept, as the comment of cron_parse_expr() has it.
Refused == ~Accepted /\ ~Parsing => error
=============================================================================
