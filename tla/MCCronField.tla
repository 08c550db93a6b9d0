---- MODULE MCCronField ----
(* Lines for CronField: one field of a list of up to two elements. *)
EXTENDS CronField

Star == [shape |-> "star", from |-> [zero |-> FALSE, n |-> 0],
         to |-> [zero |-> FALSE, n |-> 0], step |-> NoStep]

Elements(numbers, steps) ==
  LET N(zero, n) == [zero |-> zero, n |-> n]
      S(steps_) == {N(FALSE, s) : s \in steps_} \cup {NoStep}
  IN  {[Star EXCEPT !.step = s] : s \in S(steps)}
        \cup {[shape |-> "one", from |-> m, to |-> m, step |-> s] :
                m \in numbers, s \in S(steps)}
        \cup {[shape |-> "range", from |-> m, to |-> k, step |-> s] :
                m \in numbers, k \in numbers, s \in S(steps)}

OneFieldOf(lists) ==
  {[f \in 1 .. 5 |-> IF f = g THEN list ELSE <<Star>>] : g \in 1 .. 5, list \in lists}

Decimal == {[zero |-> FALSE, n |-> n] : n \in {0, 1, 7, 12, 23, 24, 31, 59}}
Few == {[zero |-> FALSE, n |-> n] : n \in {1, 7, 12}}

\* No number is written with a zero before it.
MCDecimal ==
  OneFieldOf({<<e>> : e \in Elements(Decimal, {0, 1, 2, 7})}
               \cup (Elements(Few, {2}) \X Elements(Few, {5})))

\* What the server writes for "today", "tomorrow" and "now": the day and the
\* month are os.date()'s "%d" and "%m", which have two digits.
MCPadded ==
  LET One(n, zero) == <<[Star EXCEPT !.shape = "one", !.from = [zero |-> zero, n |-> n],
                                     !.to = [zero |-> zero, n |-> n]]>>
  IN  {<<One(0, FALSE), One(17, FALSE), One(day, day < 10), One(month, month < 10), <<Star>>>> :
         day \in 1 .. 31, month \in 1 .. 12}
=============================================================================
