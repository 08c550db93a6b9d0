--------------------------- MODULE CronField_proofs ---------------------------
(***************************************************************************)
(* That the parser of src/ccronexpr.c and crond agree on every line whose  *)
(* numbers begin with no zero, and that on every line it ends with sets of *)
(* values that the search can look for.                                    *)
(***************************************************************************)
EXTENDS CronField, TLAPS

DecimalElement(e) == ~e.from.zero /\ ~e.to.zero /\ ~e.step.zero
DecimalElements == {e \in Element : DecimalElement(e)}

\* No number of a line begins with a zero.
Decimal == Lines \subseteq [1 .. 5 -> Seq(DecimalElements)]

\* A decimal number is read as what it says.
LEMMA ElementNumbers ==
  ASSUME NEW e \in DecimalElements
  PROVE  /\ e.shape \in {"star", "one", "range"}
         /\ e.from.n \in 0 .. 99 /\ parse_uint(e.from) = e.from.n
         /\ e.to.n \in 0 .. 99 /\ parse_uint(e.to) = e.to.n
         /\ e.step.n \in 0 .. 100 /\ parse_uint(e.step) = e.step.n
         /\ e.step = NoStep => e.step.n = 100
         /\ e.step # NoStep => e.step.n # 100
<1>1. e.from \in Number /\ e.to \in Number /\ e.step \in Number \cup {NoStep}
  BY DEF DecimalElements, Element
<1>2. ~e.from.zero /\ ~e.to.zero /\ ~e.step.zero
  BY DEF DecimalElements, DecimalElement
<1>3. e.shape \in {"star", "one", "range"}
  BY DEF DecimalElements, Element
<1>4. e.step.n \in 0 .. 100
  BY <1>1 DEF Number, NoStep
<1>5. e.from.n \in 0 .. 99 /\ e.to.n \in 0 .. 99
  BY <1>1 DEF Number
<1>6. parse_uint(e.from) = e.from.n /\ parse_uint(e.to) = e.to.n
  BY <1>2 DEF parse_uint
<1>7. parse_uint(e.step) = e.step.n
  BY <1>2 DEF parse_uint
<1>8. e.step = NoStep => e.step.n = 100
  BY DEF NoStep
<1>9. e.step # NoStep => e.step.n # 100
  BY <1>1 DEF Number
<1> QED
  BY <1>3, <1>4, <1>5, <1>6, <1>7, <1>8, <1>9

\* The bounds of a field's values.
LEMMA FieldBounds ==
  ASSUME NEW f \in 1 .. 6
  PROVE  Min(f) \in 0 .. 1 /\ Max(f) \in 8 .. 60 /\ Min(f) < Max(f)
BY DEF Min, Max

\* The parser finds an error in what crond does not accept, and only there.
LEMMA FailsIsRefused ==
  ASSUME NEW e \in DecimalElements, NEW f \in 1 .. 6
  PROVE  element_fails(e, f) <=> ~crond_accepts(e, f)
<1> DEFINE r == range(e, f)
           b == Bounds(e, f)
           Agree == /\ r[1] = b[1] /\ b[1] \in Nat /\ b[2] \in Nat /\ r[2] \in Nat
                    /\ r[1] < Max(f) => (r[1] > r[2] <=> b[1] > b[2])
                    /\ r[1] < Max(f) /\ r[1] <= r[2] => (r[2] < Max(f) <=> b[2] < Max(f))
<1>1. Agree
  <2>1. CASE e.shape = "star"
    BY <2>1, ElementNumbers, FieldBounds DEF range, Bounds
  <2>2. CASE e.shape = "one"
    <3>1. r[1] = e.from.n /\ r[2] = e.from.n /\ e.from.n \in Nat
      BY <2>2, ElementNumbers DEF range
    <3>2. b[1] = e.from.n /\ b[2] \in {e.from.n, Max(f) - 1}
      BY <2>2 DEF Bounds
    <3>3. Max(f) \in Nat \ {0}
      BY FieldBounds
    <3> HIDE DEF r, b
    <3> QED
      BY <3>1, <3>2, <3>3
  <2>3. CASE e.shape = "range"
    BY <2>3, ElementNumbers, FieldBounds DEF range, Bounds
  <2>4. e.shape \in {"star", "one", "range"}
    BY ElementNumbers
  <2> HIDE DEF Agree
  <2> QED
    BY <2>1, <2>2, <2>3, <2>4
<1>2. range_fails(r, f) <=> ~(Min(f) <= b[1] /\ b[1] <= b[2] /\ b[2] < Max(f))
  BY <1>1, FieldBounds DEF range_fails, ParseError
<1>3. (e.step # NoStep /\ parse_uint(e.step) \in {ParseError, 0}) <=> ~(e.step.n > 0)
  BY ElementNumbers DEF ParseError
<1> QED
  BY <1>2, <1>3 DEF element_fails, crond_accepts

\* Of an element crond accepts the bits set are those of the values it means,
\* before they are rotated.
LEMMA HitsAreMeant ==
  ASSUME NEW e \in DecimalElements, NEW f \in 1 .. 6, crond_accepts(e, f)
  PROVE  /\ hits(e, f) \subseteq Min(f) .. Max(f) - 1
         /\ Means(e, f) = {Value(v, f) : v \in hits(e, f)}
<1> DEFINE b == Bounds(e, f)
<1>1. /\ b[1] \in Int /\ b[2] \in Int
      /\ Min(f) <= b[1] /\ b[2] < Max(f)
  BY ElementNumbers, FieldBounds DEF crond_accepts, Bounds
<1>2. hits(e, f) =
        {v \in b[1] .. b[2] :
           (v - b[1]) % (IF e.step = NoStep THEN 1 ELSE e.step.n) = 0}
  <2>1. CASE e.shape = "star"
    BY <2>1, ElementNumbers DEF hits, range, Bounds
  <2>2. CASE e.shape = "one"
    BY <2>2, ElementNumbers DEF hits, range, Bounds
  <2>3. CASE e.shape = "range"
    BY <2>3, ElementNumbers DEF hits, range, Bounds
  <2> QED
    BY <2>1, <2>2, <2>3, ElementNumbers
<1>3. hits(e, f) \subseteq Min(f) .. Max(f) - 1
  BY <1>1, <1>2, FieldBounds
<1>4. Means(e, f) = {Value(v, f) : v \in hits(e, f)}
  BY <1>2 DEF Means
<1> QED
  BY <1>3, <1>4

\* The rotation of a field's bits gives the values the search looks for.
LEMMA RotatedIsValue ==
  ASSUME NEW f \in 1 .. 6, NEW S, S \subseteq Min(f) .. Max(f) - 1
  PROVE  rotated(f, S) = {Value(v, f) : v \in S}
<1>1. CASE f = Month
  BY <1>1 DEF rotated, Value, Month, Wday
<1>2. CASE f = Wday
  <2>1. S \subseteq 0 .. 7
    BY <1>2 DEF Min, Max, Wday
  <2>2. \A v \in S : Value(v, f) = IF v = 7 THEN 0 ELSE v
    BY <1>2, <2>1 DEF Value, Month, Wday
  <2>3. CASE 7 \in S
    <3>1. rotated(f, S) = (S \ {7}) \cup {0}
      BY <1>2, <2>3 DEF rotated, Month, Wday
    <3>2. {Value(v, f) : v \in S} = {IF v = 7 THEN 0 ELSE v : v \in S}
      BY <2>2
    <3>3. {IF v = 7 THEN 0 ELSE v : v \in S} = (S \ {7}) \cup {0}
      BY <2>3
    <3> QED
      BY <3>1, <3>2, <3>3
  <2>4. CASE 7 \notin S
    <3>1. \A v \in S : Value(v, f) = v
      BY <2>2, <2>4
    <3>2. {Value(v, f) : v \in S} = S
      BY <3>1
    <3> QED
      BY <1>2, <2>4, <3>2 DEF rotated, Month, Wday
  <2> QED
    BY <2>3, <2>4
<1>3. CASE f \notin {Month, Wday}
  BY <1>3 DEF rotated, Value, Month, Wday
<1> QED
  BY <1>1, <1>2, <1>3

-----------------------------------------------------------------------------
(* The inductive invariant *)

LineType ==
  /\ \A f \in 1 .. 6 : line[f] \in Seq(DecimalElements)
  /\ at \in 1 .. 7
  /\ next \in Nat \ {0}
  /\ error \in BOOLEAN
  /\ DOMAIN bits = 1 .. 6

AcceptedIn(f) == \A i \in DOMAIN line[f] : crond_accepts(line[f][i], f)
Meant(f) == UNION {Means(line[f][i], f) : i \in DOMAIN line[f]}

\* The fields before the one being parsed are what they mean,
Done == \A f \in 1 .. 6 : f < at => AcceptedIn(f) /\ bits[f] = Meant(f)

\* it has the bits of its elements so far, not rotated yet,
Underway ==
  Parsing =>
    /\ next - 1 <= Len(line[at])
    /\ \A i \in 1 .. next - 1 : crond_accepts(line[at][i], at)
    /\ bits[at] = UNION {hits(line[at][i], at) : i \in 1 .. next - 1}

\* those after it have none, and an error is set for a reason.
Ahead == \A f \in 1 .. 6 : f > at => bits[f] = {}
ForAReason == error => at <= 6 /\ ~AcceptedIn(at)

Inv == LineType /\ Done /\ Underway /\ Ahead /\ ForAReason

\* Elements of a line are decimal.
LEMMA ElementsDecimal ==
  ASSUME LineType, NEW f \in 1 .. 6, NEW i \in 1 .. Len(line[f])
  PROVE  line[f][i] \in DecimalElements
BY DEF LineType

LEMMA InvInit ==
  ASSUME Decimal, Init
  PROVE  Inv
<1>1. Zero \in DecimalElements
  BY DEF Zero, DecimalElements, Element, Number, NoStep, DecimalElement
<1>2. \A f \in 1 .. 6 : line[f] \in Seq(DecimalElements)
  <2>1. PICK l \in Lines : line = [f \in 1 .. 6 |-> IF f = 1 THEN <<Zero>> ELSE l[f - 1]]
    BY DEF Init
  <2>2. \A g \in 1 .. 5 : l[g] \in Seq(DecimalElements)
    BY DEF Decimal
  <2>3. <<Zero>> \in Seq(DecimalElements)
    BY <1>1
  <2>4. \A f \in 1 .. 6 : f # 1 => f - 1 \in 1 .. 5
    OBVIOUS
  <2> QED
    BY <2>1, <2>2, <2>3, <2>4
<1>3. LineType
  <2>1. DOMAIN bits = 1 .. 6
    BY DEF Init
  <2>2. at \in 1 .. 7 /\ next \in Nat \ {0}
    BY DEF Init
  <2>3. error \in BOOLEAN
    BY DEF Init
  <2> QED
    BY <1>2, <2>1, <2>2, <2>3 DEF LineType
<1>4. Done /\ Ahead /\ ForAReason
  BY DEF Done, Ahead, ForAReason, Init
<1>5. Underway
  <2>1. next - 1 = 0 /\ Len(line[at]) \in Nat /\ bits[at] = {}
    BY <1>3 DEF Init, LineType
  <2> QED
    BY <2>1 DEF Underway
<1> QED
  BY <1>3, <1>4, <1>5 DEF Inv

\* One more element is one that crond accepts, with its bits.
LEMMA SetElementKept ==
  ASSUME Inv, SetElement
  PROVE  Inv'
<1> USE DEF Inv
<1> DEFINE e == line[at][next]
<1>1. at \in 1 .. 6 /\ next \in 1 .. Len(line[at]) /\ Len(line[at]) \in Nat
  BY DEF SetElement, Parsing, LineType
<1>2. e \in DecimalElements /\ crond_accepts(e, at)
  BY <1>1, ElementsDecimal, FailsIsRefused DEF SetElement
<1>3. UNCHANGED <<line, at, error>>
  BY DEF SetElement
<1>4. DOMAIN bits' = 1 .. 6 /\ \A f \in 1 .. 6 : f # at => bits'[f] = bits[f]
  BY DEF SetElement, LineType
<1>5. LineType'
  BY <1>1, <1>3, <1>4 DEF SetElement, LineType
<1>6. Done'
  BY <1>1, <1>3, <1>4 DEF Done, AcceptedIn, Meant
<1>7. Ahead' /\ ForAReason'
  BY <1>1, <1>3, <1>4 DEF Ahead, ForAReason, AcceptedIn
<1>8. Underway'
  <2>1. next' - 1 = next /\ UNCHANGED <<line, at, error>>
    BY <1>1 DEF SetElement, LineType
  <2>2. \A i \in 1 .. next : i = next \/ i \in 1 .. next - 1
    BY <1>1
  <2>3. \A i \in 1 .. next : crond_accepts(line[at][i], at)
    BY <1>2, <2>2 DEF Underway, SetElement
  <2>4. bits'[at] = bits[at] \cup hits(e, at)
    BY <1>1 DEF SetElement, LineType
  <2>5. bits[at] = UNION {hits(line[at][i], at) : i \in 1 .. next - 1}
    BY DEF Underway, SetElement
  <2>6. 1 .. next = (1 .. next - 1) \cup {next}
    BY <1>1
  <2>7. bits'[at] = UNION {hits(line[at][i], at) : i \in 1 .. next}
    BY <2>4, <2>5, <2>6
  <2> QED
    BY <1>1, <2>1, <2>3, <2>7 DEF Underway
<1> QED
  BY <1>5, <1>6, <1>7, <1>8

LEMMA FailKept ==
  ASSUME Inv, Fail
  PROVE  Inv'
<1> USE DEF Inv
<1>1. at \in 1 .. 6 /\ next \in 1 .. Len(line[at]) /\ Len(line[at]) \in Nat
  BY DEF Fail, Parsing, LineType
<1>2. ~crond_accepts(line[at][next], at)
  BY <1>1, ElementsDecimal, FailsIsRefused DEF Fail
<1>3. DOMAIN line[at] = 1 .. Len(line[at])
  BY <1>1 DEF LineType
<1>4. ~AcceptedIn(at)
  BY <1>1, <1>2, <1>3 DEF AcceptedIn
<1>5. \A f \in 1 .. 6 : f # at => bits'[f] = bits[f]
  BY DEF Fail, LineType
<1>6. LineType'
  BY DEF Fail, LineType
<1>7. Done' /\ Ahead' /\ ForAReason'
  <2>1. UNCHANGED <<line, at>>
    BY DEF Fail
  <2>2. Done'
    BY <1>1, <1>5, <2>1 DEF Done, AcceptedIn, Meant
  <2>3. Ahead'
    BY <1>1, <1>5, <2>1 DEF Ahead
  <2>4. ForAReason'
    BY <1>1, <1>4, <2>1 DEF ForAReason, AcceptedIn
  <2> QED
    BY <2>2, <2>3, <2>4
<1>8. Underway'
  BY DEF Fail, Underway, Parsing
<1> QED
  BY <1>6, <1>7, <1>8

\* At the end of a field its bits are rotated into the values it means.
LEMMA EndFieldKept ==
  ASSUME Inv, EndField
  PROVE  Inv'
<1> USE DEF Inv
<1>1. /\ at \in 1 .. 6 /\ at' = at + 1 /\ next' = 1 /\ UNCHANGED <<line, error>>
      /\ Len(line[at]) \in Nat /\ DOMAIN line[at] = 1 .. Len(line[at]) /\ ~error
  BY DEF EndField, Parsing, LineType
<1>2. 1 .. next - 1 = 1 .. Len(line[at])
  BY <1>1 DEF EndField, Underway, LineType
<1>3. AcceptedIn(at)
  BY <1>1, <1>2 DEF AcceptedIn, Underway, EndField
<1> DEFINE D == 1 .. Len(line[at])
           S == UNION {hits(line[at][i], at) : i \in D}
<1>4. bits'[at] = rotated(at, S)
  BY <1>1, <1>2 DEF EndField, Underway, LineType
<1>5. \A i \in D : /\ hits(line[at][i], at) \subseteq Min(at) .. Max(at) - 1
                   /\ Means(line[at][i], at) = {Value(v, at) : v \in hits(line[at][i], at)}
  <2> SUFFICES ASSUME NEW i \in D
               PROVE  /\ hits(line[at][i], at) \subseteq Min(at) .. Max(at) - 1
                      /\ Means(line[at][i], at) =
                           {Value(v, at) : v \in hits(line[at][i], at)}
    OBVIOUS
  <2>1. line[at][i] \in DecimalElements /\ crond_accepts(line[at][i], at)
    BY <1>1, <1>3, ElementsDecimal DEF AcceptedIn
  <2> QED
    BY <1>1, <2>1, HitsAreMeant
<1>6. S \subseteq Min(at) .. Max(at) - 1
  BY <1>5
<1>7. bits'[at] = {Value(v, at) : v \in S}
  BY <1>1, <1>4, <1>6, RotatedIsValue
<1>8. {Value(v, at) : v \in S} = UNION {Means(line[at][i], at) : i \in D}
  <2>1. ASSUME NEW x \in {Value(v, at) : v \in S}
        PROVE  x \in UNION {Means(line[at][i], at) : i \in D}
    <3>1. PICK v \in S : x = Value(v, at)
      BY <2>1
    <3>2. PICK i \in D : v \in hits(line[at][i], at)
      BY <3>1
    <3> QED
      BY <1>5, <3>1, <3>2
  <2>2. ASSUME NEW x \in UNION {Means(line[at][i], at) : i \in D}
        PROVE  x \in {Value(v, at) : v \in S}
    <3>1. PICK i \in D : x \in Means(line[at][i], at)
      BY <2>2
    <3>2. PICK v \in hits(line[at][i], at) : x = Value(v, at)
      BY <1>5, <3>1
    <3>3. v \in S
      BY <3>2
    <3> QED
      BY <3>2, <3>3
  <2> QED
    BY <2>1, <2>2
<1>9. bits'[at] = Meant(at)
  BY <1>1, <1>7, <1>8 DEF Meant
<1>10. \A f \in 1 .. 6 : f # at => bits'[f] = bits[f]
  BY DEF EndField, LineType
<1>11. LineType'
  <2>1. DOMAIN bits' = 1 .. 6
    BY DEF EndField, LineType
  <2>2. at' \in 1 .. 7 /\ next' \in Nat \ {0}
    BY <1>1
  <2> QED
    BY <1>1, <2>1, <2>2 DEF LineType
<1>12. Done'
  <2>1. \A f \in 1 .. 6 : f < at + 1 => f = at \/ f < at
    BY <1>1
  <2> SUFFICES ASSUME NEW f \in 1 .. 6, f < at'
               PROVE  AcceptedIn(f)' /\ bits'[f] = Meant(f)'
    BY DEF Done
  <2>2. AcceptedIn(f)' <=> AcceptedIn(f)
    BY <1>1 DEF AcceptedIn
  <2>3. Meant(f)' = Meant(f)
    BY <1>1 DEF Meant
  <2>4. CASE f = at
    BY <1>3, <1>9, <2>2, <2>3, <2>4
  <2>5. CASE f < at
    BY <1>10, <2>2, <2>3, <2>5 DEF Done
  <2> QED
    BY <1>1, <2>1, <2>4, <2>5
<1>13. Ahead' /\ ForAReason'
  BY <1>1, <1>10 DEF Ahead, ForAReason
<1>14. Underway'
  <2>1. CASE at' = 7
    BY <2>1 DEF Underway, Parsing
  <2>2. CASE at' \in 1 .. 6
    <3>1. bits'[at'] = {}
      BY <1>1, <1>10, <2>2 DEF Ahead
    <3>2. next' - 1 = 0 /\ Len(line'[at']) \in Nat
      BY <1>1, <1>11, <2>2 DEF LineType
    <3> QED
      BY <3>1, <3>2 DEF Underway
  <2> QED
    BY <1>1, <2>1, <2>2
<1> QED
  BY <1>11, <1>12, <1>13, <1>14

LEMMA InvStutters ==
  ASSUME Inv, UNCHANGED vars
  PROVE  Inv'
<1>1. /\ line' = line /\ at' = at /\ next' = next /\ bits' = bits /\ error' = error
      /\ Parsing' <=> Parsing
  BY DEF vars, Parsing
<1>2. LineType'
  BY <1>1 DEF Inv, LineType
<1>3. Done' /\ Ahead' /\ ForAReason'
  BY <1>1 DEF Inv, Done, Ahead, ForAReason, AcceptedIn, Meant
<1>4. Underway'
  BY <1>1 DEF Inv, Underway
<1> QED
  BY <1>2, <1>3, <1>4 DEF Inv

\* When nothing is parsed any more, what is done is everything.
LEMMA InvSuffices == Inv => Understood /\ Refused
<1> SUFFICES ASSUME Inv, ~Parsing
             PROVE  /\ Accepted => \A f \in 1 .. 6 : bits[f] = Meant(f)
                    /\ ~Accepted => error
  BY DEF Understood, Refused, Meant
<1>1. Accepted <=> \A f \in 1 .. 6 : AcceptedIn(f)
  BY DEF Accepted, AcceptedIn
<1>2. CASE error
  BY <1>1, <1>2 DEF Inv, ForAReason, LineType
<1>3. CASE ~error
  <2>1. at = 7
    BY <1>3 DEF Parsing, Inv, LineType
  <2> QED
    BY <1>1, <2>1 DEF Inv, Done
<1> QED
  BY <1>2, <1>3

\* It holds in every step of the parser.
LEMMA InvHolds ==
  ASSUME Decimal
  PROVE  Spec => []Inv
<1>1. Init => Inv
  BY InvInit
<1>2. Inv /\ [Next]_vars => Inv'
  <2>1. CASE UNCHANGED vars
    BY <2>1, InvStutters
  <2> QED
    BY <2>1, SetElementKept, FailKept, EndFieldKept DEF Next
<1> QED
  BY <1>1, <1>2, PTL DEF Spec

\* Whatever the lines: if no number in them begins with a zero, the sets
\* cron_parse_expr() leaves of a line that crond runs are those at which it
\* does.
THEOREM DecimalUnderstood ==
  ASSUME Decimal
  PROVE  Spec => []Understood
BY InvHolds, InvSuffices, PTL

\* And of such lines its error is set for every one that crond does not run.
THEOREM DecimalRefused ==
  ASSUME Decimal
  PROVE  Spec => []Refused
BY InvHolds, InvSuffices, PTL

-----------------------------------------------------------------------------
(* The types, of lines with numbers of any form *)

\* A number is read as one, or as an error.
LEMMA NumberRead ==
  ASSUME NEW m \in Number
  PROVE  parse_uint(m) \in Int
<1>1. m.n \in 0 .. 99
  BY DEF Number
<1> QED
  BY <1>1 DEF parse_uint, ParseError

\* No bit is set beside those of the field, whatever the element.
LEMMA HitsInField ==
  ASSUME NEW e \in Element, NEW f \in 1 .. 6, ~element_fails(e, f)
  PROVE  hits(e, f) \subseteq Min(f) .. Max(f) - 1
<1> DEFINE r == range(e, f)
           last == IF e.step # NoStep /\ e.shape # "range" THEN Max(f) - 1 ELSE r[2]
<1>1. e.from \in Number /\ e.to \in Number /\ e.shape \in {"star", "one", "range"}
  BY DEF Element
<1>2. r[1] \in Int /\ r[2] \in Int
  BY <1>1, NumberRead, FieldBounds DEF range
<1>3. Min(f) <= r[1] /\ r[2] <= Max(f) - 1
  BY <1>2, FieldBounds DEF element_fails, range_fails
<1>4. last \in Int /\ last <= Max(f) - 1
  BY <1>2, <1>3, FieldBounds
<1>5. hits(e, f) \subseteq r[1] .. last
  BY DEF hits
<1> HIDE DEF r, last
<1> QED
  BY <1>2, <1>3, <1>4, <1>5, FieldBounds

\* What may be in the field that is being parsed: bits not rotated yet, or
\* rotated if it was left with an error.
BitsInField ==
  Parsing => bits[at] \subseteq Min(at) .. Max(at) - 1

LineGiven ==
  /\ \A f \in 1 .. 6 : line[f] \in Seq(Element)
  /\ DOMAIN bits = 1 .. 6

\* The invariant: a field is rotated once.  Rotated again, January would be
\* month -1.
TypeInv == TypeOK /\ LineGiven /\ BitsInField /\ \A f \in 1 .. 6 : f > at => bits[f] = {}

\* The values of a field are within what TypeOK allows before it is done.
LEMMA ValuesInField ==
  ASSUME NEW f \in 1 .. 6
  PROVE  /\ {Value(v, f) : v \in Min(f) .. Max(f) - 1} \subseteq Min(f) - 1 .. Max(f) - 1
         /\ Min(f) .. Max(f) - 1 \subseteq Min(f) - 1 .. Max(f) - 1
<1>1. ASSUME NEW v \in Min(f) .. Max(f) - 1
      PROVE  Value(v, f) \in Min(f) - 1 .. Max(f) - 1
  <2>1. CASE f = Month
    BY <2>1, FieldBounds DEF Value
  <2>2. CASE f = Wday
    <3>1. Min(f) = 0 /\ Max(f) = 8
      BY <2>2 DEF Min, Max, Wday
    <3> QED
      BY <2>2, <3>1 DEF Value, Month, Wday
  <2>3. CASE f \notin {Month, Wday}
    BY <2>3, FieldBounds DEF Value
  <2> QED
    BY <2>1, <2>2, <2>3
<1> QED
  BY <1>1, FieldBounds

LEMMA TypeInit ==
  ASSUME Init
  PROVE  TypeInv
<1>1. Zero \in Element
  BY DEF Zero, Element, Number, NoStep
<1>2. \A f \in 1 .. 6 : line[f] \in Seq(Element)
  <2>1. PICK l \in Lines : line = [f \in 1 .. 6 |-> IF f = 1 THEN <<Zero>> ELSE l[f - 1]]
    BY DEF Init
  <2>2. \A g \in 1 .. 5 : l[g] \in Seq(Element)
    BY LinesAssumption
  <2>3. <<Zero>> \in Seq(Element)
    BY <1>1
  <2>4. \A f \in 1 .. 6 : f # 1 => f - 1 \in 1 .. 5
    OBVIOUS
  <2> QED
    BY <2>1, <2>2, <2>3, <2>4
<1>3. at = 1 /\ next = 1 /\ error = FALSE /\ bits = [f \in 1 .. 6 |-> {}]
  BY DEF Init
<1>4. Len(line[1]) \in Nat
  BY <1>2
<1>5. TypeOK
  <2>1. \A f \in 1 .. 6 : bits[f] = {}
    BY <1>3
  <2>2. at \in 1 .. 7
    BY <1>3
  <2>3. error \in BOOLEAN
    BY <1>3
  <2>4. next \in 1 .. (IF at = 7 THEN 1 ELSE Len(line[at]) + 1)
    BY <1>3, <1>4
  <2> QED
    BY <2>1, <2>2, <2>3, <2>4 DEF TypeOK
<1> QED
  BY <1>2, <1>3, <1>5 DEF TypeInv, LineGiven, BitsInField

LEMMA TypeSetElement ==
  ASSUME TypeInv, SetElement
  PROVE  TypeInv'
<1> DEFINE e == line[at][next]
<1>1. /\ at \in 1 .. 6 /\ next \in 1 .. Len(line[at]) /\ Len(line[at]) \in Nat
      /\ error = FALSE /\ e \in Element /\ ~element_fails(e, at)
  BY DEF SetElement, Parsing, TypeInv, TypeOK, LineGiven
<1>2. UNCHANGED <<line, at, error>> /\ next' = next + 1
  BY DEF SetElement
<1>3. /\ DOMAIN bits' = 1 .. 6
      /\ \A f \in 1 .. 6 : f # at => bits'[f] = bits[f]
      /\ bits'[at] = bits[at] \cup hits(e, at)
  BY <1>1 DEF SetElement, TypeInv, LineGiven
<1>4. bits'[at] \subseteq Min(at) .. Max(at) - 1
  BY <1>1, <1>3, HitsInField DEF TypeInv, BitsInField, SetElement
<1>5. bits'[at] \subseteq Min(at) - 1 .. Max(at) - 1
  BY <1>1, <1>4, ValuesInField
<1>6. TypeOK'
  <2>1. next' \in 1 .. (IF at' = 7 THEN 1 ELSE Len(line'[at']) + 1)
    BY <1>1, <1>2
  <2>2. \A f \in 1 .. 6 :
          bits'[f] \subseteq (IF f < at
                              THEN {Value(v, f) : v \in Min(f) .. Max(f) - 1}
                              ELSE Min(f) - 1 .. Max(f) - 1)
    BY <1>1, <1>3, <1>5 DEF TypeInv, TypeOK
  <2>3. at' = at /\ at \in 1 .. 7
    BY <1>1, <1>2
  <2>4. error' \in BOOLEAN
    BY <1>1, <1>2
  <2> QED
    BY <2>1, <2>2, <2>3, <2>4 DEF TypeOK
<1>7. LineGiven' /\ BitsInField'
  BY <1>2, <1>3, <1>4 DEF TypeInv, LineGiven, BitsInField
<1>8. \A f \in 1 .. 6 : f > at' => bits'[f] = {}
  BY <1>1, <1>2, <1>3 DEF TypeInv
<1> QED
  BY <1>6, <1>7, <1>8 DEF TypeInv

\* After an error as at its end, a field is rotated: from then on it has
\* values only.
LEMMA RotatedInField ==
  ASSUME TypeInv, Parsing, bits' = [bits EXCEPT ![at] = rotated(at, @)]
  PROVE  /\ at \in 1 .. 6 /\ DOMAIN bits' = 1 .. 6
         /\ \A f \in 1 .. 6 : f # at => bits'[f] = bits[f]
         /\ bits'[at] \subseteq {Value(v, at) : v \in Min(at) .. Max(at) - 1}
<1>1. at \in 1 .. 6
  BY DEF Parsing, TypeInv, TypeOK
<1>2. bits[at] \subseteq Min(at) .. Max(at) - 1
  BY DEF TypeInv, BitsInField
<1>3. rotated(at, bits[at]) = {Value(v, at) : v \in bits[at]}
  BY <1>1, <1>2, RotatedIsValue
<1>4. bits'[at] = rotated(at, bits[at])
  BY <1>1 DEF TypeInv, LineGiven
<1> QED
  BY <1>1, <1>2, <1>3, <1>4 DEF TypeInv, LineGiven

LEMMA TypeFail ==
  ASSUME TypeInv, Fail
  PROVE  TypeInv'
<1>1. /\ UNCHANGED <<line, at, next>> /\ error' = TRUE /\ Parsing
      /\ bits' = [bits EXCEPT ![at] = rotated(at, @)]
  BY DEF Fail
<1>2. /\ at \in 1 .. 6 /\ DOMAIN bits' = 1 .. 6
      /\ \A f \in 1 .. 6 : f # at => bits'[f] = bits[f]
      /\ bits'[at] \subseteq {Value(v, at) : v \in Min(at) .. Max(at) - 1}
  BY <1>1, RotatedInField
<1>3. bits'[at] \subseteq Min(at) - 1 .. Max(at) - 1
  BY <1>2, ValuesInField
<1>4. TypeOK'
  <2>1. \A f \in 1 .. 6 :
          bits'[f] \subseteq (IF f < at
                              THEN {Value(v, f) : v \in Min(f) .. Max(f) - 1}
                              ELSE Min(f) - 1 .. Max(f) - 1)
    BY <1>2, <1>3 DEF TypeInv, TypeOK
  <2> QED
    BY <1>1, <2>1 DEF TypeInv, TypeOK
<1>5. BitsInField'
  BY <1>1 DEF BitsInField, Parsing
<1>6. LineGiven' /\ \A f \in 1 .. 6 : f > at' => bits'[f] = {}
  BY <1>1, <1>2 DEF TypeInv, LineGiven
<1> QED
  BY <1>4, <1>5, <1>6 DEF TypeInv

LEMMA TypeEndField ==
  ASSUME TypeInv, EndField
  PROVE  TypeInv'
<1>1. /\ UNCHANGED <<line, error>> /\ at' = at + 1 /\ next' = 1 /\ Parsing
      /\ bits' = [bits EXCEPT ![at] = rotated(at, @)]
  BY DEF EndField
<1>2. /\ at \in 1 .. 6 /\ DOMAIN bits' = 1 .. 6
      /\ \A f \in 1 .. 6 : f # at => bits'[f] = bits[f]
      /\ bits'[at] \subseteq {Value(v, at) : v \in Min(at) .. Max(at) - 1}
  BY <1>1, RotatedInField
<1>3. \A f \in 1 .. 6 : f > at => bits'[f] = {}
  BY <1>2 DEF TypeInv
<1>4. TypeOK'
  <2>1. \A f \in 1 .. 6 :
          bits'[f] \subseteq (IF f < at + 1
                              THEN {Value(v, f) : v \in Min(f) .. Max(f) - 1}
                              ELSE Min(f) - 1 .. Max(f) - 1)
    <3> TAKE f \in 1 .. 6
    <3>1. CASE f < at
      BY <1>2, <3>1 DEF TypeInv, TypeOK
    <3>2. CASE f = at
      BY <1>2, <3>2
    <3>3. CASE f > at
      BY <1>3, <3>3
    <3> QED
      BY <1>2, <3>1, <3>2, <3>3
  <2>2. next' \in 1 .. (IF at' = 7 THEN 1 ELSE Len(line'[at']) + 1)
    <3>1. at' # 7 => at' \in 1 .. 6
      BY <1>1, <1>2
    <3>2. at' # 7 => Len(line[at']) \in Nat
      BY <3>1 DEF TypeInv, LineGiven
    <3> QED
      BY <1>1, <3>2
  <2>3. at' \in 1 .. 7 /\ error' \in BOOLEAN
    BY <1>1, <1>2 DEF TypeInv, TypeOK
  <2> QED
    BY <1>1, <2>1, <2>2, <2>3 DEF TypeOK
<1>5. BitsInField'
  <2>1. at' # 7 => bits'[at'] = {}
    BY <1>1, <1>2, <1>3
  <2> QED
    BY <1>1, <2>1 DEF BitsInField, Parsing
<1>6. LineGiven' /\ \A f \in 1 .. 6 : f > at' => bits'[f] = {}
  BY <1>1, <1>2, <1>3 DEF TypeInv, LineGiven
<1> QED
  BY <1>4, <1>5, <1>6 DEF TypeInv

\* Of every line, even one with numbers that crond and the parser read
\* differently: the fields that are done are values the search can look for.
THEOREM TypeCorrect == Spec => []TypeOK
<1>1. Init => TypeInv
  BY TypeInit
<1>2. TypeInv /\ [Next]_vars => TypeInv'
  <2>1. CASE UNCHANGED vars
    BY <2>1 DEF vars, TypeInv, TypeOK, LineGiven, BitsInField, Parsing
  <2> QED
    BY <2>1, TypeSetElement, TypeFail, TypeEndField DEF Next
<1>3. TypeInv => TypeOK
  BY DEF TypeInv
<1> QED
  BY <1>1, <1>2, <1>3, PTL DEF Spec

=============================================================================
