-------------------------- MODULE Weekdays_proofs --------------------------
(***************************************************************************)
(* That the passes over a command together find the days a reader finds,   *)
(* in commands of any length whose words come in the usual order, and that *)
(* the lines they get let the course last as long as it was said to.       *)
(***************************************************************************)
EXTENDS Weekdays, SequenceTheorems, TLAPS

\* The words of a command and their positions.
LEMMA Positions ==
  ASSUME words \in Seq(Word)
  PROVE  /\ Len(words) \in Nat /\ DOMAIN words = 1 .. Len(words)
         /\ \A i \in DOMAIN words : words[i] \in Word
BY LenProperties, ElementOfSeq

\* No word has been matched yet.
LEMMA NoneYet ==
  ASSUME NEW s \in Seq(Word)
  PROVE  0 \in 0 .. Len(s)
<1>1. Len(s) \in Nat
  BY LenProperties
<1> QED BY <1>1

\* What a word has besides its kind.
LEMMA WordParts ==
  ASSUME NEW x \in Word
  PROVE  /\ x.w \in {"-", "through"} =>
              x.d \in Week /\ x.to \in Week /\ x.d # x.to
         /\ x.w \in {"day", "days"} => x.d \in Week
BY DEF Word

\* parse_spanning() spans what the two days say.
LEMMA SpanIsSaid ==
  ASSUME NEW d \in Week, NEW e \in Week, d # e
  PROVE  {k % 7 : k \in d .. (IF d > e THEN e + 7 ELSE e)} =
           {(d + k) % 7 : k \in 0 .. (e - d) % 7}
<1> DEFINE last == IF d > e THEN e + 7 ELSE e
<1>1. last - d = (e - d) % 7 /\ last \in Nat
  BY DEF Week
<1>2. (e - d) % 7 \in Nat
  BY <1>1 DEF Week
<1> HIDE DEF last
<1>3. ASSUME NEW k \in d .. last
      PROVE  \E n \in 0 .. (e - d) % 7 : k % 7 = (d + n) % 7
  <2>1. k - d \in 0 .. last - d /\ d + (k - d) = k
    BY <1>1 DEF Week
  <2> QED BY <1>1, <2>1
<1>4. ASSUME NEW n \in 0 .. (e - d) % 7
      PROVE  \E k \in d .. last : (d + n) % 7 = k % 7
  <2>1. n \in 0 .. last - d
    BY <1>1
  <2>2. d + n \in d .. last
    BY <1>1, <2>1 DEF Week
  <2> QED BY <2>2
<1> QED BY <1>3, <1>4 DEF last

LEMMA SpanInWeek ==
  ASSUME NEW d \in Week, NEW e \in Week
  PROVE  {(d + k) % 7 : k \in 0 .. (e - d) % 7} \subseteq Week
<1>1. (e - d) % 7 \in 0 .. 6
  BY DEF Week
<1> QED BY <1>1 DEF Week

\* Every word of a day says days of the week, and those the passes add.
LEMMA SaidDays ==
  ASSUME words \in Seq(Word), NEW i \in DOMAIN words
  PROVE  /\ words[i].w \in {"-", "through"} =>
              spanning(words[i]) = Said(i) /\ Said(i) \subseteq Week
         /\ words[i].w \in {"day", "days"} =>
              Said(i) = {words[i].d} /\ Said(i) \subseteq Week
         /\ words[i].w = "every day" => Said(i) = Week
<1>1. words[i] \in Word
  BY Positions
<1>2. ASSUME words[i].w \in {"-", "through"}
      PROVE  spanning(words[i]) = Said(i) /\ Said(i) \subseteq Week
  <2>1. words[i].d \in Week /\ words[i].to \in Week /\ words[i].d # words[i].to
    BY <1>1, <1>2, WordParts
  <2>2. Said(i) = {(words[i].d + k) % 7 : k \in 0 .. (words[i].to - words[i].d) % 7}
    BY <1>2 DEF Said
  <2> QED BY <2>1, <2>2, SpanIsSaid, SpanInWeek DEF spanning
<1>3. ASSUME words[i].w \in {"day", "days"}
      PROVE  Said(i) = {words[i].d} /\ Said(i) \subseteq Week
  BY <1>1, <1>3, WordParts DEF Said
<1>4. words[i].w = "every day" => Said(i) = Week
  BY DEF Said
<1> QED BY <1>2, <1>3, <1>4

-----------------------------------------------------------------------------
(* Types *)

\* The words and the course are as they were said.
Constant == words \in Phrases /\ words \in Seq(Word)

LEMMA TypesInit == Init => TypeOK /\ Constant
<1> SUFFICES ASSUME Init PROVE TypeOK /\ Constant
  OBVIOUS
<1>1. words \in Seq(Word) /\ words \in Phrases
  BY PhrasesAssumption DEF Init
<1>2. 0 \in 0 .. Len(words)
  BY <1>1, NoneYet
<1>3. from = 0 /\ nums \cup exceptions \subseteq Week
  BY DEF Init
<1>4. cut \cup gone \cup torn \subseteq DOMAIN words
  BY DEF Init
<1>5. pass = "every day" /\ listed \in BOOLEAN
  BY DEF Init
<1> QED BY <1>1, <1>2, <1>3, <1>4, <1>5 DEF TypeOK, Constant

\* Days that are added are days of the week.
LEMMA AddInWeek ==
  ASSUME TypeOK, NEW days \in SUBSET Week, NEW excepted, Add(days, excepted)
  PROVE  nums' \cup exceptions' \subseteq Week
BY DEF TypeOK, Add

LEMMA EndOfPassTypes ==
  ASSUME TypeOK, Constant, NEW p, EndOfPass(p),
         p \in {"every day", "-", "through", "days", "day", "done"}
  PROVE  TypeOK' /\ Constant'
<1>1. 0 \in 0 .. Len(words)
  BY NoneYet DEF Constant
<1>2. from' = 0
  BY DEF EndOfPass
<1>3. cut' \cup gone' \cup torn' \subseteq DOMAIN words
  BY DEF TypeOK, EndOfPass
<1>4. nums' \cup exceptions' \subseteq Week /\ listed' \in BOOLEAN /\ pass' = p
      /\ words' = words
  BY DEF TypeOK, EndOfPass
<1> QED BY <1>1, <1>2, <1>3, <1>4 DEF TypeOK, Constant

\* What a step that finds a word leaves to show.
LEMMA TypesKept ==
  ASSUME TypeOK, Constant, UNCHANGED <<words, pass, gone>>, from' \in DOMAIN words,
         nums' \cup exceptions' \subseteq Week, cut' \subseteq DOMAIN words,
         torn' \subseteq DOMAIN words, listed' \in BOOLEAN
  PROVE  TypeOK' /\ Constant'
<1>1. Len(words) \in Nat /\ DOMAIN words = 1 .. Len(words)
  BY Positions DEF Constant
<1>2. from' \in 0 .. Len(words)
  BY <1>1
<1>3. cut' \cup gone' \cup torn' \subseteq DOMAIN words
  BY DEF TypeOK
<1> QED BY <1>2, <1>3 DEF TypeOK, Constant

LEMMA TypesNext == TypeOK /\ Constant /\ [Next]_vars => TypeOK' /\ Constant'
<1> SUFFICES ASSUME TypeOK, Constant, [Next]_vars PROVE TypeOK' /\ Constant'
  OBVIOUS
<1>1. /\ Len(words) \in Nat /\ DOMAIN words = 1 .. Len(words)
      /\ \A i \in DOMAIN words : words[i] \in Word
  BY Positions DEF Constant
<1>2. CASE EveryDay
  BY <1>2 DEF EveryDay, TypeOK, Constant, At
<1>3. CASE Span
  <2>1. PICK i \in NextIn(At(pass)) :
          /\ Add(spanning(words[i]), ExceptBefore(i))
          /\ cut' = cut \cup {i} /\ from' = i
    BY <1>3 DEF Span
  <2>2. i \in DOMAIN words /\ words[i].w \in {"-", "through"}
    BY <1>3, <2>1 DEF Span, NextIn, Ahead, At
  <2>3. spanning(words[i]) \subseteq Week
    BY <2>2, SaidDays DEF Constant
  <2>4. nums' \cup exceptions' \subseteq Week
    BY <2>1, <2>3, AddInWeek
  <2>5. cut' \subseteq DOMAIN words
    BY <2>1, <2>2 DEF TypeOK
  <2>6. UNCHANGED <<words, pass, gone, torn, listed>>
    BY <1>3 DEF Span
  <2>7. torn' \subseteq DOMAIN words /\ listed' \in BOOLEAN
    BY <2>6 DEF TypeOK
  <2> QED BY <2>1, <2>2, <2>4, <2>5, <2>6, <2>7, TypesKept
<1>4. CASE SpansEnd
  BY <1>4, EndOfPassTypes DEF SpansEnd
<1>5. CASE Plural
  <2>1. PICK i \in NextIn(LikeDays) :
          /\ IF words[i].w = "days"
             THEN Add({words[i].d}, ExceptBefore(from)) /\ cut' = cut \cup {i}
             ELSE UNCHANGED <<nums, exceptions, cut>>
          /\ from' = i
    BY <1>5 DEF Plural
  <2>2. i \in DOMAIN words
    BY <2>1 DEF NextIn, Ahead, LikeDays, At
  <2>3. nums' \cup exceptions' \subseteq Week /\ cut' \subseteq DOMAIN words
    <3>1. CASE words[i].w = "days"
      <4>1. {words[i].d} \subseteq Week
        BY <2>2, <3>1, SaidDays DEF Constant
      <4>2. Add({words[i].d}, ExceptBefore(from)) /\ cut' = cut \cup {i}
        BY <2>1, <3>1
      <4> QED BY <2>2, <4>1, <4>2, AddInWeek DEF TypeOK
    <3>2. CASE words[i].w # "days"
      BY <2>1, <3>2 DEF TypeOK
    <3> QED BY <3>1, <3>2
  <2>4. UNCHANGED <<words, pass, gone, torn, listed>>
    BY <1>5 DEF Plural
  <2>5. torn' \subseteq DOMAIN words /\ listed' \in BOOLEAN
    BY <2>4 DEF TypeOK
  <2> QED BY <2>1, <2>2, <2>3, <2>4, <2>5, TypesKept
<1>6. CASE PluralsEnd
  BY <1>6, EndOfPassTypes DEF PluralsEnd
<1>7. CASE Single
  <2>1. PICK i \in NextIn(At("day")) :
          /\ from' = i
          /\ IF counts(i)
             THEN /\ Add({words[i].d}, ExceptBefore(i))
                  /\ listed' = TRUE
                  /\ IF Follows(i, "every")
                     THEN /\ cut' = cut \cup {i} \cup Before(i)
                          /\ torn' = torn \cup Before(i)
                     ELSE cut' = cut \cup {i} /\ UNCHANGED torn
             ELSE UNCHANGED <<nums, exceptions, cut, torn, listed>>
    BY <1>7 DEF Single
  <2>2. i \in DOMAIN words /\ words[i].w = "day"
    BY <2>1 DEF NextIn, Ahead, At
  <2>3. Before(i) \subseteq DOMAIN words
    BY <1>1, <2>2 DEF Before
  <2>4. {words[i].d} \subseteq Week
    BY <2>2, SaidDays DEF Constant
  <2>5. nums' \cup exceptions' \subseteq Week
    <3>1. CASE counts(i)
      BY <2>1, <2>4, <3>1, AddInWeek
    <3>2. CASE ~counts(i)
      BY <2>1, <3>2 DEF TypeOK
    <3> QED BY <3>1, <3>2
  <2>6. /\ cut' \subseteq DOMAIN words /\ torn' \subseteq DOMAIN words
        /\ listed' \in BOOLEAN
    BY <2>1, <2>2, <2>3 DEF TypeOK
  <2>7. UNCHANGED <<words, course, pass, gone>> /\ from' = i
    BY <1>7, <2>1 DEF Single
  <2> QED BY <2>2, <2>5, <2>6, <2>7, TypesKept
<1>8. CASE SinglesEnd
  BY <1>8, EndOfPassTypes DEF SinglesEnd
<1>9. CASE UNCHANGED vars
  BY <1>9 DEF vars, TypeOK, Constant
<1> QED BY <1>2, <1>3, <1>4, <1>5, <1>6, <1>7, <1>8, <1>9 DEF Next

\* What is found are days of the week and what is deleted are words, in every
\* command: a span is folded into the week wherever it begins and ends.
THEOREM TypeCorrect == Spec => []TypeOK
<1>1. Init => TypeOK /\ Constant
  BY TypesInit
<1>2. TypeOK /\ Constant /\ [Next]_vars => TypeOK' /\ Constant'
  BY TypesNext
<1> QED BY <1>1, <1>2, PTL DEF Spec

-----------------------------------------------------------------------------
(* Meaning *)

\* The pass that looks for such words is over.
Over(w) ==
  \/ w = "every day" /\ pass # "every day"
  \/ w = "-" /\ pass \notin {"every day", "-"}
  \/ w = "through" /\ pass \in {"days", "day", "done"}
  \/ w = "days" /\ pass \in {"day", "done"}
  \/ w = "day" /\ pass = "done"

\* The words of days that have been read, up to the start position.
Read(i) == Over(words[i].w) \/ (words[i].w = pass /\ i <= from)
Heard == {i \in Speaking : Read(i)}

\* What is found so far is what is said by the words that have been read.
NumsHeard ==
  \A d \in Week : d \in nums <=> \E j \in Heard : ~Excluded(j) /\ d \in Said(j)
ExceptionsHeard ==
  \A d \in Week : d \in exceptions <=> \E j \in Heard : Excluded(j) /\ d \in Said(j)

\* Until the last pass the words deleted are those of the passes that are over,
\* and those to delete the ones matched by the pass under way.
Deleted ==
  /\ pass # "done" => gone = {i \in DOMAIN words : Over(words[i].w)}
  /\ pass \notin {"day", "done"} => cut = {i \in At(pass) : i <= from}

\* A list has begun if a day that was passed recurs.
ListBegun ==
  pass # "done" =>
    (listed <=> pass = "day" /\ \E j \in At("day") : j <= from /\ Recurs(j))

\* The words say what they said.
LEMMA WordsKept ==
  ASSUME words' = words
  PROVE  /\ Speaking' = Speaking
         /\ \A w : At(w)' = At(w)
         /\ \A i : Excluded(i)' = Excluded(i)
         /\ \A i : Said(i)' = Said(i)
         /\ \A i : Recurs(i)' = Recurs(i)
<1>1. \A w : At(w)' = At(w)
  BY DEF At
<1>2. \A i : Excluded(i)' = Excluded(i)
  BY DEF Excluded, At
<1>3. \A i : Said(i)' = Said(i)
  BY DEF Said
<1>4. \A i : Recurs(i)' = Recurs(i)
  BY <1>1, <1>2 DEF Recurs
<1>5. Speaking' = Speaking
  BY <1>4 DEF Speaking
<1> QED BY <1>1, <1>2, <1>3, <1>4, <1>5

\* A step that hears nothing new finds nothing new.
LEMMA NothingHeard ==
  ASSUME UNCHANGED <<words, nums, exceptions>>, Heard' = Heard,
         NumsHeard, ExceptionsHeard
  PROVE  NumsHeard' /\ ExceptionsHeard'
<1>1. nums' = nums /\ exceptions' = exceptions /\ Heard' = Heard
  OBVIOUS
<1>2. \A i : Excluded(i)' = Excluded(i) /\ Said(i)' = Said(i)
  BY WordsKept
<1> QED BY <1>1, <1>2 DEF NumsHeard, ExceptionsHeard

\* A step that hears one word adds what it says, on the side it belongs to.
LEMMA OneHeard ==
  ASSUME words' = words, NEW i \in DOMAIN words, Heard' = Heard \cup {i},
         Add(Said(i), Excluded(i)), NumsHeard, ExceptionsHeard
  PROVE  NumsHeard' /\ ExceptionsHeard'
<1>1. \A j : Excluded(j)' = Excluded(j) /\ Said(j)' = Said(j)
  BY WordsKept
<1>2. CASE Excluded(i)
  <2>1. exceptions' = exceptions \cup Said(i) /\ nums' = nums
    BY <1>2 DEF Add
  <2> QED BY <1>1, <1>2, <2>1 DEF NumsHeard, ExceptionsHeard
<1>3. CASE ~Excluded(i)
  <2>1. nums' = nums \cup Said(i) /\ exceptions' = exceptions
    BY <1>3 DEF Add
  <2> QED BY <1>1, <1>3, <2>1 DEF NumsHeard, ExceptionsHeard
<1> QED BY <1>2, <1>3

\* The start position moves over one match of the pattern and no other.
LEMMA Advance ==
  ASSUME NEW S \in SUBSET Nat, from \in Nat, NEW i \in NextIn(S), from' = i
  PROVE  /\ i \in S /\ i > from
         /\ \A j \in S : j <= from' <=> j <= from \/ j = i
<1>1. i \in S /\ i > from /\ \A j \in S : j > from => i <= j
  BY DEF NextIn, Ahead
<1>2. ASSUME NEW j \in S
      PROVE  j <= from' <=> j <= from \/ j = i
  BY <1>1
<1> QED BY <1>1, <1>2

\* A pass is over when its start position is behind every match.
LEMMA AllBehind ==
  ASSUME NEW S \in SUBSET Nat, from \in Nat, Ahead(S) = {}
  PROVE  \A j \in S : j <= from
BY DEF Ahead

LEMMA Numbers ==
  ASSUME TypeOK, Constant
  PROVE  from \in Nat /\ DOMAIN words \subseteq Nat \ {0}
<1>1. Len(words) \in Nat /\ DOMAIN words = 1 .. Len(words)
  BY Positions DEF Constant
<1>2. from \in 0 .. Len(words)
  BY DEF TypeOK
<1> QED BY <1>1, <1>2

-----------------------------------------------------------------------------
(* What the passes ask of the text, in a command in the usual order *)

LEMMA PositionIsNumber ==
  ASSUME Constant, NEW i \in DOMAIN words
  PROVE  i \in Nat /\ i >= 1
<1>1. Len(words) \in Nat /\ DOMAIN words = 1 .. Len(words)
  BY Positions DEF Constant
<1>2. i \in 1 .. Len(words)
  BY <1>1
<1> QED BY <1>1, <1>2

LEMMA Between ==
  ASSUME NEW i \in Nat, NEW e \in Nat, e >= 1, e < i
  PROVE  e \in 1 .. i - 1 /\ (e # 1 /\ e # 2 => 2 < i)
OBVIOUS

LEMMA InOrder ==
  ASSUME NEW i \in Nat, NEW j \in Nat
  PROVE  i < j \/ j < i \/ i = j
OBVIOUS

\* What the words of a command in the usual order are not followed by.
LEMMA UsualOrder ==
  ASSUME Ordinary(words), NEW i \in DOMAIN words, NEW e \in DOMAIN words,
         words[e].w \in {"except", "but not"}, e < i
  PROVE  /\ words[i].w \notin {"days", "except", "but not"}
         /\ words[i].w = "day" =>
              /\ \A k \in e + 1 .. i - 1 : words[k].w \in {"day", "-", "through"}
              /\ words[e].w = "but not" =>
                   \/ words[1].w = "every"
                   \/ \E k \in 1 .. i : words[k].w = "day" /\ words[k].comma
BY DEF Ordinary

LEMMA EveryFirst ==
  ASSUME Constant, Ordinary(words), NEW i \in DOMAIN words, words[i].w = "every"
  PROVE  /\ i = 1 /\ words[2].w = "day"
         /\ 2 \in DOMAIN words
<1>1. i = 1 /\ Len(words) > 1 /\ words[2].w = "day"
  BY DEF Ordinary
<1>2. Len(words) \in Nat /\ DOMAIN words = 1 .. Len(words)
  BY Positions DEF Constant
<1>3. 2 \in 1 .. Len(words)
  BY <1>1, <1>2
<1> QED BY <1>1, <1>2, <1>3

\* find_except_pos() looks for one of the words that exclude; there is one.
LEMMA ExceptIsExcluded ==
  ASSUME Constant, Ordinary(words), NEW i \in DOMAIN words, words[i].w # "every day"
  PROVE  ExceptBefore(i) <=> Excluded(i)
<1>1. ASSUME ExceptBefore(i) PROVE Excluded(i)
  BY <1>1 DEF ExceptBefore, except_pos, Excluded
<1>2. ASSUME Excluded(i) PROVE ExceptBefore(i)
  <2>1. PICK e \in At("except") \cup At("but not") : e < i
    BY <1>2 DEF Excluded
  <2>2. CASE At("except") = {}
    BY <2>1, <2>2 DEF ExceptBefore, except_pos
  <2>3. CASE At("except") # {}
    <3>1. PICK x \in At("except") : TRUE
      BY <2>3
    <3>2. /\ x \in DOMAIN words /\ words[x].w = "except"
          /\ e \in DOMAIN words /\ words[e].w \in {"except", "but not"}
      BY <2>1, <3>1 DEF At
    <3>3. x \in Nat /\ e \in Nat
      BY <3>2, PositionIsNumber
    <3>4. ~(x < e) /\ ~(e < x)
      BY <3>2, UsualOrder
    <3>5. x = e
      BY <3>3, <3>4, InOrder
    <3> QED BY <2>1, <2>3, <3>1, <3>5 DEF ExceptBefore, except_pos
  <2> QED BY <2>2, <2>3
<1> QED BY <1>1, <1>2

\* Nothing excludes a plural, wherever the match before it ended.
LEMMA PluralsStay ==
  ASSUME TypeOK, Constant, Ordinary(words), NEW i \in DOMAIN words,
         words[i].w = "days", from < i
  PROVE  ~ExceptBefore(from) /\ ~Excluded(i)
<1>1. from \in Nat /\ i \in Nat /\ DOMAIN words \subseteq Nat
  BY Numbers
<1>2. \A e \in At("except") \cup At("but not") : ~(e < i)
  BY UsualOrder DEF At
<1>3. ~Excluded(i)
  BY <1>2 DEF Excluded
<1>4. \A e \in except_pos : e \in Nat /\ ~(e < i)
  BY <1>1, <1>2 DEF except_pos, At
<1>5. ~ExceptBefore(from)
  BY <1>1, <1>4 DEF ExceptBefore
<1> QED BY <1>3, <1>5

\* What is left of the text in the last pass.
LEMMA WhatIsLeft ==
  ASSUME pass = "day", Deleted, NEW i \in DOMAIN words
  PROVE  i \in gone <=> words[i].w \in {"every day", "-", "through", "days"}
BY DEF Deleted, Over

\* A day follows "every" in what is left of the text if it did in all of it.
LEMMA FollowsEvery ==
  ASSUME Constant, Ordinary(words), pass = "day", Deleted,
         NEW i \in DOMAIN words, words[i].w = "day"
  PROVE  Follows(i, "every") <=> i > 1 /\ words[i - 1].w = "every"
<1>1. Len(words) \in Nat /\ DOMAIN words = 1 .. Len(words) /\ i \in 1 .. Len(words)
  BY Positions DEF Constant
<1>2. ASSUME Follows(i, "every") PROVE i > 1 /\ words[i - 1].w = "every"
  <2>1. PICK j \in 1 .. i - 1 :
          words[j].w = "every" /\ j + 1 .. i - 1 \subseteq gone
    BY <1>2 DEF Follows, Before
  <2>2. j \in DOMAIN words
    BY <1>1, <2>1
  <2>3. j = 1 /\ 2 \in DOMAIN words /\ words[2].w = "day"
    BY <2>1, <2>2, EveryFirst
  <2>4. 2 \notin gone
    BY <2>3, WhatIsLeft
  <2>5. ~(2 \in 2 .. i - 1)
    BY <2>1, <2>3, <2>4
  <2>6. i = 2
    BY <1>1, <2>1, <2>3, <2>5
  <2> QED BY <2>1, <2>3, <2>6
<1>3. ASSUME i > 1, words[i - 1].w = "every" PROVE Follows(i, "every")
  <2>1. i - 1 \in DOMAIN words /\ i - 1 \in 1 .. i - 1
    BY <1>1, <1>3
  <2>2. i - 1 \notin gone
    BY <1>3, <2>1, WhatIsLeft
  <2>3. (i - 1) + 1 .. i - 1 \subseteq gone
    BY <1>1
  <2> QED BY <1>3, <2>1, <2>2, <2>3 DEF Follows, Before
<1> QED BY <1>2, <1>3

\* The single days with which a list begins.
Begins_list(j) ==
  words[j].comma \/ Excluded(j) \/ (j > 1 /\ words[j - 1].w = "every")

\* An excluded day begins a list, or there is one already.
LEMMA ExceptionsListed ==
  ASSUME Constant, Ordinary(words), pass = "day", Deleted,
         NEW i \in DOMAIN words, words[i].w = "day", Excluded(i)
  PROVE  \/ words[i].comma \/ Follows(i, "except")
         \/ \E j \in At("day") : j < i /\ Begins_list(j)
<1>1. Len(words) \in Nat /\ DOMAIN words = 1 .. Len(words) /\ i \in 1 .. Len(words)
  BY Positions DEF Constant
<1>2. PICK e \in DOMAIN words : words[e].w \in {"except", "but not"} /\ e < i
  BY DEF Excluded, At
<1>3. /\ \A k \in e + 1 .. i - 1 : words[k].w \in {"day", "-", "through"}
      /\ words[e].w = "but not" =>
           words[1].w = "every" \/ \E k \in 1 .. i : words[k].w = "day" /\ words[k].comma
  BY <1>2, UsualOrder
<1>4. e \in Nat /\ e >= 1 /\ i \in Nat
  BY PositionIsNumber
<1>5. CASE words[e].w = "except"
  <2>1. CASE \E k \in e + 1 .. i - 1 : words[k].w = "day"
    <3>1. PICK k \in e + 1 .. i - 1 : words[k].w = "day"
      BY <2>1
    <3>2. k \in DOMAIN words /\ e < k /\ k < i
      BY <1>1, <1>4, <3>1
    <3>3. Excluded(k)
      BY <1>2, <1>5, <3>1, <3>2 DEF Excluded, At
    <3> QED BY <3>1, <3>2, <3>3 DEF Begins_list, At
  <2>2. CASE \A k \in e + 1 .. i - 1 : words[k].w # "day"
    <3>1. \A k \in e + 1 .. i - 1 : k \in DOMAIN words
      BY <1>1, <1>4
    <3>2. e + 1 .. i - 1 \subseteq gone
      BY <1>3, <2>2, <3>1, WhatIsLeft
    <3>3. e \notin gone
      BY <1>2, <1>5, WhatIsLeft
    <3>4. e \in 1 .. i - 1
      BY <1>2, <1>4, Between
    <3> QED BY <1>5, <3>2, <3>3, <3>4 DEF Follows, Before
  <2> QED BY <2>1, <2>2
<1>6. CASE words[e].w = "but not"
  <2>1. CASE words[1].w = "every"
    <3>1. 1 \in DOMAIN words
      BY <1>1
    <3>2. words[2].w = "day" /\ 2 \in DOMAIN words
      BY <2>1, <3>1, EveryFirst
    <3>3. e # 1 /\ e # 2
      BY <1>6, <2>1, <3>2
    <3>4. 2 < i
      BY <1>2, <1>4, <3>3, Between
    <3>5. 2 > 1 /\ 2 - 1 = 1
      OBVIOUS
    <3> QED BY <2>1, <3>2, <3>4, <3>5 DEF Begins_list, At
  <2>2. CASE \E k \in 1 .. i : words[k].w = "day" /\ words[k].comma
    <3>1. PICK k \in 1 .. i : words[k].w = "day" /\ words[k].comma
      BY <2>2
    <3>2. k \in DOMAIN words /\ (k = i \/ k < i)
      BY <1>1, <3>1
    <3> QED BY <3>1, <3>2 DEF Begins_list, At
  <2> QED BY <1>3, <1>6, <2>1, <2>2
<1> QED BY <1>2, <1>5, <1>6

\* A single day counts for the code just when it recurs for a reader.
LEMMA SingleCounts ==
  ASSUME Constant, TypeOK, Ordinary(words), pass = "day", Deleted, ListBegun,
         NEW i \in NextIn(At("day"))
  PROVE  counts(i) <=> Recurs(i)
<1>1. i \in DOMAIN words /\ words[i].w = "day" /\ i > from
  BY DEF NextIn, Ahead, At
<1>2. from \in Nat /\ At("day") \subseteq Nat /\ i \in Nat
  BY <1>1, Numbers DEF At
<1>3. \A j \in At("day") : j < i <=> j <= from
  BY <1>1, <1>2 DEF NextIn, Ahead
<1>4. \A j \in At("day") :
        Recurs(j) <=> \E k \in At("day") : k <= j /\ Begins_list(k)
  BY DEF Recurs, At, Begins_list
<1>5. listed <=> \E j \in At("day") : j < i /\ Begins_list(j)
  <2>1. listed <=> \E j \in At("day") : j <= from /\ Recurs(j)
    BY DEF ListBegun
  <2>2. ASSUME NEW j \in At("day"), j <= from, Recurs(j)
        PROVE  \E k \in At("day") : k < i /\ Begins_list(k)
    <3>1. PICK k \in At("day") : k <= j /\ Begins_list(k)
      BY <1>4, <2>2
    <3>2. k <= from
      BY <1>2, <2>2, <3>1
    <3> QED BY <1>3, <3>1, <3>2
  <2>3. ASSUME NEW j \in At("day"), j < i, Begins_list(j)
        PROVE  j <= from /\ Recurs(j)
    <3>1. j <= j
      BY <1>2
    <3> QED BY <1>3, <1>4, <2>3, <3>1
  <2> QED BY <2>1, <2>2, <2>3
<1>6. i \in At("day")
  BY <1>1 DEF At
<1>7. Recurs(i) <=> listed \/ Begins_list(i)
  <2>1. \A k \in At("day") : k <= i <=> k < i \/ k = i
    BY <1>2
  <2> QED BY <1>4, <1>5, <1>6, <2>1
<1>8. Follows(i, "every") <=> i > 1 /\ words[i - 1].w = "every"
  BY <1>1, FollowsEvery
<1>9. ASSUME Follows(i, "except") PROVE Excluded(i)
  <2>1. PICK e \in 1 .. i - 1 : words[e].w = "except"
    BY <1>9 DEF Follows, Before
  <2>2. Len(words) \in Nat /\ DOMAIN words = 1 .. Len(words) /\ i \in 1 .. Len(words)
    BY <1>1, Positions DEF Constant
  <2>3. e \in DOMAIN words /\ e < i
    BY <2>1, <2>2
  <2> QED BY <1>1, <2>1, <2>3 DEF Excluded, At
<1>10. Excluded(i) => words[i].comma \/ Follows(i, "except") \/ listed
  BY <1>1, <1>5, ExceptionsListed
<1> QED BY <1>7, <1>8, <1>9, <1>10 DEF counts, Begins_list

-----------------------------------------------------------------------------
(* The steps *)

\* A step to the next match hears it if it is what the pass looks for.
LEMMA Hears ==
  ASSUME TypeOK, Constant, UNCHANGED <<words, pass>>,
         NEW S \in SUBSET Nat, NEW i \in NextIn(S), from' = i, At(pass) \subseteq S
  PROVE  /\ words[i].w = pass /\ i \in Speaking => Heard' = Heard \cup {i}
         /\ words[i].w # pass \/ i \notin Speaking => Heard' = Heard
<1>1. from \in Nat
  BY Numbers
<1>2. \A j \in S : j <= from' <=> j <= from \/ j = i
  BY <1>1, Advance
<1>3. Speaking' = Speaking /\ Speaking \subseteq DOMAIN words
  BY WordsKept DEF Speaking
<1>4. ASSUME NEW j \in DOMAIN words
      PROVE  Read(j)' <=> Read(j) \/ (words[j].w = pass /\ j = i)
  <2>1. words[j].w = pass => j \in S
    BY DEF At
  <2> QED BY <1>2, <2>1 DEF Read, Over
<1> QED BY <1>3, <1>4 DEF Heard

\* The end of a pass hears nothing; its words are all read.
LEMMA Turn ==
  ASSUME TypeOK, Constant, NEW p, EndOfPass(p),
         <<pass, p>> \in {<<"-", "through">>, <<"through", "days">>,
                          <<"days", "day">>, <<"day", "done">>},
         \A j \in At(pass) : j <= from
  PROVE  /\ Heard' = Heard
         /\ \A w : Over(w)' <=> Over(w) \/ w = pass
<1>1. words' = words /\ pass' = p /\ from' = 0
  BY DEF EndOfPass
<1>2. ASSUME NEW w PROVE Over(w)' <=> Over(w) \/ w = pass
  BY <1>1 DEF Over
<1>3. Speaking' = Speaking /\ Speaking \subseteq DOMAIN words
  BY <1>1, WordsKept DEF Speaking
<1>4. ASSUME NEW j \in DOMAIN words PROVE Read(j)' <=> Read(j)
  <2>1. j \in Nat /\ j >= 1
    BY PositionIsNumber
  <2>2. ~(j <= 0)
    BY <2>1
  <2>3. words[j].w = pass => j <= from
    BY DEF At
  <2> QED BY <1>1, <1>2, <2>2, <2>3 DEF Read
<1> QED BY <1>2, <1>3, <1>4 DEF Heard

\* What is deleted at the end of a pass.
LEMMA TurnDeleted ==
  ASSUME TypeOK, Constant, Deleted, NEW p, EndOfPass(p),
         <<pass, p>> \in {<<"-", "through">>, <<"through", "days">>,
                          <<"days", "day">>},
         \A j \in At(pass) : j <= from
  PROVE  Deleted'
<1>1. words' = words /\ pass' = p /\ from' = 0 /\ cut' = {} /\ gone' = gone \cup cut
  BY DEF EndOfPass
<1>2. \A w : Over(w)' <=> Over(w) \/ w = pass
  BY Turn
<1>3. gone = {i \in DOMAIN words : Over(words[i].w)} /\ cut = At(pass)
  BY DEF Deleted, At
<1>4. (gone = {i \in DOMAIN words : Over(words[i].w)})'
  <2>1. \A i \in DOMAIN words : Over(words[i].w)' <=> Over(words[i].w) \/ words[i].w = pass
    BY <1>1, <1>2 DEF Over
  <2> QED BY <1>1, <1>3, <2>1 DEF At
<1>5. \A i \in At(p)' : ~(i <= 0)
  <2>1. \A i \in DOMAIN words : i \in Nat /\ i >= 1
    BY PositionIsNumber
  <2>2. \A i \in DOMAIN words : ~(i <= 0)
    BY <2>1
  <2> QED BY <1>1, <2>2 DEF At
<1>6. (cut = {i \in At(pass) : i <= from})'
  BY <1>1, <1>5 DEF At
<1> QED BY <1>1, <1>4, <1>6 DEF Deleted

\* The part of the invariant that goes beyond the types.
HeardInv ==
  /\ NumsHeard
  /\ ExceptionsHeard
  /\ Deleted
  /\ ListBegun
  /\ pass = "every day" => from = 0

LEMMA EveryDayHears ==
  ASSUME TypeOK, Constant, HeardInv, EveryDay
  PROVE  HeardInv'
<1>1. /\ pass = "every day" /\ pass' = "-" /\ words' = words /\ from' = from
      /\ exceptions' = exceptions /\ listed' = listed /\ cut' = cut
      /\ gone' = gone \cup At("every day")
      /\ nums' = IF At("every day") = {} THEN {} ELSE Week
  BY DEF EveryDay
<1>2. from = 0
  BY <1>1 DEF HeardInv
<1>3. \A j \in DOMAIN words : ~(j <= 0)
  <2>1. \A j \in DOMAIN words : j \in Nat /\ j >= 1
    BY PositionIsNumber
  <2> QED BY <2>1
<1>4. gone = {} /\ cut = {}
  BY <1>1, <1>2, <1>3 DEF HeardInv, Deleted, Over, At
<1>5. Heard = {} /\ Heard' = At("every day")
  <2>1. Speaking' = Speaking /\ Speaking \subseteq DOMAIN words
    BY <1>1, WordsKept DEF Speaking
  <2>2. \A j \in DOMAIN words : ~Read(j)
    BY <1>1, <1>2, <1>3 DEF Read, Over
  <2>3. \A j \in DOMAIN words : Read(j)' <=> words[j].w = "every day"
    BY <1>1, <1>2, <1>3 DEF Read, Over
  <2>4. At("every day") \subseteq Speaking
    BY DEF At, Speaking, Recurs
  <2>5. Heard' = {j \in Speaking : words[j].w = "every day"}
    BY <2>1, <2>3 DEF Heard
  <2> QED BY <2>1, <2>2, <2>4, <2>5 DEF Heard, At
<1>6. \A j \in At("every day") : ~Excluded(j) /\ Said(j) = Week
  BY DEF At, Excluded, Said
<1>7. \A j : Excluded(j)' = Excluded(j) /\ Said(j)' = Said(j)
  BY <1>1, WordsKept
<1>8. NumsHeard'
  BY <1>1, <1>5, <1>6, <1>7 DEF NumsHeard
<1>9. \A d \in Week : d \notin exceptions
  BY <1>5 DEF HeardInv, ExceptionsHeard
<1>10. ExceptionsHeard'
  BY <1>1, <1>5, <1>6, <1>7, <1>9 DEF ExceptionsHeard
<1>11. (gone = {i \in DOMAIN words : Over(words[i].w)})'
  BY <1>1, <1>4 DEF Over, At
<1>12. (cut = {i \in At(pass) : i <= from})'
  BY <1>1, <1>2, <1>3, <1>4 DEF At
<1>13. Deleted'
  BY <1>11, <1>12 DEF Deleted
<1>14. ListBegun'
  BY <1>1 DEF HeardInv, ListBegun
<1> QED BY <1>1, <1>8, <1>10, <1>13, <1>14 DEF HeardInv

\* A step of the passes before the last one that finds a word.
LEMMA FindHears ==
  ASSUME TypeOK, Constant, HeardInv, UNCHANGED <<words, pass, gone, listed>>,
         pass \in {"-", "through", "days"},
         NEW S \in SUBSET Nat, NEW i \in NextIn(S), from' = i, At(pass) \subseteq S,
         i \in DOMAIN words,
         words[i].w = pass => Add(Said(i), Excluded(i)) /\ cut' = cut \cup {i},
         words[i].w # pass => UNCHANGED <<nums, exceptions, cut>>
  PROVE  HeardInv'
<1>1. words[i].w = pass => i \in Speaking
  BY DEF Speaking, Recurs
<1>2. NumsHeard' /\ ExceptionsHeard'
  <2>1. CASE words[i].w = pass
    <3>1. Heard' = Heard \cup {i}
      BY <1>1, <2>1, Hears
    <3>2. Add(Said(i), Excluded(i))
      BY <2>1
    <3> QED BY <3>1, <3>2, OneHeard DEF HeardInv
  <2>2. CASE words[i].w # pass
    <3>1. Heard' = Heard
      BY <2>2, Hears
    <3>2. UNCHANGED <<words, nums, exceptions>>
      BY <2>2
    <3> QED BY <3>1, <3>2, NothingHeard DEF HeardInv
  <2> QED BY <2>1, <2>2
<1>3. Deleted'
  <2>1. from \in Nat
    BY Numbers
  <2>2. \A j \in At(pass) : j <= from' <=> j <= from \/ j = i
    BY <2>1, Advance
  <2>3. cut = {j \in At(pass) : j <= from}
    BY DEF HeardInv, Deleted
  <2>4. i \in At(pass) <=> words[i].w = pass
    BY DEF At
  <2>5. At(pass)' = At(pass)
    BY DEF At
  <2>6. (cut = {j \in At(pass) : j <= from})'
    BY <2>2, <2>3, <2>4, <2>5
  <2>7. (gone = {j \in DOMAIN words : Over(words[j].w)})'
    BY DEF HeardInv, Deleted, Over
  <2> QED BY <2>6, <2>7 DEF Deleted
<1>4. ListBegun'
  BY DEF HeardInv, ListBegun
<1> QED BY <1>2, <1>3, <1>4 DEF HeardInv

\* A step to the next single day, which counts or does not.
LEMMA SingleHears ==
  ASSUME TypeOK, Constant, Ordinary(words), HeardInv, Single
  PROVE  HeardInv'
<1>1. PICK i \in NextIn(At("day")) :
        /\ from' = i
        /\ counts(i) => Add({words[i].d}, ExceptBefore(i)) /\ listed' = TRUE
        /\ ~counts(i) => UNCHANGED <<nums, exceptions, listed>>
  BY DEF Single
<1>2. UNCHANGED <<words, pass, gone>> /\ pass = "day"
  BY DEF Single
<1>3. i \in DOMAIN words /\ words[i].w = "day" /\ i \in At("day")
  BY DEF NextIn, Ahead, At
<1>4. At("day") \in SUBSET Nat /\ from \in Nat
  BY Numbers DEF At
<1>5. counts(i) <=> Recurs(i)
  BY <1>2, SingleCounts DEF HeardInv
<1>6. i \in Speaking <=> Recurs(i)
  BY <1>3 DEF Speaking
<1>7. NumsHeard' /\ ExceptionsHeard'
  <2>1. CASE counts(i)
    <3>1. Heard' = Heard \cup {i}
      BY <1>1, <1>2, <1>3, <1>4, <1>5, <1>6, <2>1, Hears
    <3>2. Said(i) = {words[i].d}
      BY <1>3, SaidDays DEF Constant
    <3>3. ExceptBefore(i) <=> Excluded(i)
      BY <1>3, ExceptIsExcluded
    <3>4. Add(Said(i), Excluded(i))
      BY <1>1, <2>1, <3>2, <3>3 DEF Add
    <3> QED BY <1>2, <1>3, <3>1, <3>4, OneHeard DEF HeardInv
  <2>2. CASE ~counts(i)
    <3>1. Heard' = Heard
      BY <1>1, <1>2, <1>3, <1>4, <1>5, <1>6, <2>2, Hears
    <3> QED BY <1>1, <1>2, <2>2, <3>1, NothingHeard DEF HeardInv
  <2> QED BY <2>1, <2>2
<1>8. Deleted'
  BY <1>2 DEF HeardInv, Deleted, Over
<1>9. ListBegun'
  <2>1. \A j \in At("day") : j <= from' <=> j <= from \/ j = i
    BY <1>1, <1>4, Advance
  <2>2. listed <=> \E j \in At("day") : j <= from /\ Recurs(j)
    BY <1>2 DEF HeardInv, ListBegun
  <2>3. listed' <=> listed \/ Recurs(i)
    <3>1. CASE counts(i)
      BY <1>1, <1>5, <3>1, Zenon
    <3>2. CASE ~counts(i)
      <4>1. listed' = listed
        BY <1>1, <3>2
      <4> QED BY <1>5, <3>2, <4>1, Zenon
    <3> QED BY <3>1, <3>2
  <2>4. listed' <=> \E j \in At("day") : j <= from' /\ Recurs(j)
    BY <1>3, <2>1, <2>2, <2>3
  <2>5. At("day")' = At("day") /\ \A j : Recurs(j)' = Recurs(j)
    BY <1>2, WordsKept
  <2> QED BY <1>2, <2>4, <2>5 DEF ListBegun
<1> QED BY <1>2, <1>7, <1>8, <1>9 DEF HeardInv

\* The end of a pass deletes what was found.
LEMMA EndHears ==
  ASSUME TypeOK, Constant, HeardInv, NEW p, EndOfPass(p),
         <<pass, p>> \in {<<"-", "through">>, <<"through", "days">>,
                          <<"days", "day">>, <<"day", "done">>},
         \A j \in At(pass) : j <= from
  PROVE  HeardInv'
<1>1. /\ UNCHANGED <<words, nums, exceptions, listed>>
      /\ pass' = p /\ from' = 0
  BY DEF EndOfPass
<1>2. Heard' = Heard
  BY Turn
<1>3. NumsHeard' /\ ExceptionsHeard'
  BY <1>1, <1>2, NothingHeard DEF HeardInv
<1>4. Deleted'
  <2>1. CASE p = "done"
    BY <1>1, <2>1 DEF Deleted
  <2>2. CASE p # "done"
    <3>1. <<pass, p>> \in {<<"-", "through">>, <<"through", "days">>, <<"days", "day">>}
      BY <2>2
    <3> QED BY <3>1, TurnDeleted DEF HeardInv
  <2> QED BY <2>1, <2>2
<1>5. ListBegun'
  <2>1. CASE p = "done"
    BY <1>1, <2>1 DEF ListBegun
  <2>2. CASE p # "done"
    <3>1. ~listed'
      BY <1>1, <2>2 DEF HeardInv, ListBegun
    <3>2. \A j \in DOMAIN words : ~(j <= 0)
      <4>1. \A j \in DOMAIN words : j \in Nat /\ j >= 1
        BY PositionIsNumber
      <4> QED BY <4>1
    <3>3. \A j \in At("day")' : ~(j <= from')
      BY <1>1, <3>2 DEF At
    <3> QED BY <3>1, <3>3 DEF ListBegun
  <2> QED BY <2>1, <2>2
<1>6. p # "every day"
  OBVIOUS
<1> QED BY <1>1, <1>3, <1>4, <1>5, <1>6 DEF HeardInv

LEMMA HeardInit ==
  ASSUME Init
  PROVE  HeardInv
<1>1. /\ pass = "every day" /\ from = 0 /\ nums = {} /\ exceptions = {} /\ cut = {}
      /\ gone = {} /\ listed = FALSE
  BY DEF Init
<1>2. Constant
  BY TypesInit
<1>3. \A j \in DOMAIN words : ~(j <= 0)
  <2>1. \A j \in DOMAIN words : j \in Nat /\ j >= 1
    BY <1>2, PositionIsNumber
  <2> QED BY <2>1
<1>4. Heard = {}
  BY <1>1, <1>3 DEF Heard, Speaking, Read, Over
<1>5. NumsHeard /\ ExceptionsHeard
  BY <1>1, <1>4 DEF NumsHeard, ExceptionsHeard
<1>6. Deleted
  BY <1>1, <1>3 DEF Deleted, Over, At
<1>7. ListBegun
  BY <1>1 DEF ListBegun
<1> QED BY <1>1, <1>5, <1>6, <1>7 DEF HeardInv

LEMMA HeardNext ==
  ASSUME TypeOK, Constant, Ordinary(words), HeardInv, [Next]_vars
  PROVE  HeardInv'
<1>1. CASE EveryDay
  BY <1>1, EveryDayHears
<1>2. CASE Span
  <2>1. PICK i \in NextIn(At(pass)) :
          /\ Add(spanning(words[i]), ExceptBefore(i))
          /\ cut' = cut \cup {i} /\ from' = i
    BY <1>2 DEF Span
  <2>2. UNCHANGED <<words, pass, gone, listed>> /\ pass \in {"-", "through"}
    BY <1>2 DEF Span
  <2>3. i \in DOMAIN words /\ words[i].w = pass
    BY <2>1 DEF NextIn, Ahead, At
  <2>4. spanning(words[i]) = Said(i)
    BY <2>2, <2>3, SaidDays DEF Constant
  <2>5. ExceptBefore(i) <=> Excluded(i)
    BY <2>2, <2>3, ExceptIsExcluded
  <2>6. Add(Said(i), Excluded(i))
    BY <2>1, <2>4, <2>5 DEF Add
  <2>7. At(pass) \in SUBSET Nat
    BY Numbers DEF At
  <2> QED BY <2>1, <2>2, <2>3, <2>6, <2>7, FindHears
<1>3. CASE SpansEnd
  <2>1. /\ pass \in {"-", "through"} /\ Ahead(At(pass)) = {}
        /\ EndOfPass(IF pass = "-" THEN "through" ELSE "days")
    BY <1>3 DEF SpansEnd
  <2>2. \A j \in At(pass) : j <= from
    BY <2>1, Numbers, AllBehind DEF At
  <2>3. CASE pass = "-"
    BY <2>1, <2>2, <2>3, EndHears
  <2>4. CASE pass = "through"
    BY <2>1, <2>2, <2>4, EndHears
  <2> QED BY <2>1, <2>3, <2>4
<1>4. CASE Plural
  <2>1. PICK i \in NextIn(LikeDays) :
          /\ IF words[i].w = "days"
             THEN Add({words[i].d}, ExceptBefore(from)) /\ cut' = cut \cup {i}
             ELSE UNCHANGED <<nums, exceptions, cut>>
          /\ from' = i
    BY <1>4 DEF Plural
  <2>2. UNCHANGED <<words, pass, gone, listed>> /\ pass = "days"
    BY <1>4 DEF Plural
  <2>3. i \in DOMAIN words /\ from < i
    BY <2>1 DEF NextIn, Ahead, LikeDays, At
  <2>4. ASSUME words[i].w = pass
        PROVE  Add(Said(i), Excluded(i)) /\ cut' = cut \cup {i}
    <3>1. Said(i) = {words[i].d}
      BY <2>2, <2>3, <2>4, SaidDays DEF Constant
    <3>2. ExceptBefore(from) <=> Excluded(i)
      BY <2>2, <2>3, <2>4, PluralsStay
    <3> QED BY <2>1, <2>2, <2>4, <3>1, <3>2 DEF Add
  <2>5. words[i].w # pass => UNCHANGED <<nums, exceptions, cut>>
    BY <2>1, <2>2
  <2>6. LikeDays \in SUBSET Nat /\ At(pass) \subseteq LikeDays
    BY <2>2, Numbers DEF LikeDays, At
  <2> QED BY <2>1, <2>2, <2>3, <2>4, <2>5, <2>6, FindHears
<1>5. CASE PluralsEnd
  <2>1. pass = "days" /\ Ahead(LikeDays) = {} /\ EndOfPass("day")
    BY <1>5 DEF PluralsEnd
  <2>2. LikeDays \in SUBSET Nat /\ At(pass) \subseteq LikeDays /\ from \in Nat
    BY <2>1, Numbers DEF LikeDays, At
  <2>3. \A j \in At(pass) : j <= from
    BY <2>1, <2>2, AllBehind
  <2> QED BY <2>1, <2>3, EndHears
<1>6. CASE Single
  BY <1>6, SingleHears
<1>7. CASE SinglesEnd
  <2>1. pass = "day" /\ Ahead(At(pass)) = {} /\ EndOfPass("done")
    BY <1>7 DEF SinglesEnd
  <2>2. \A j \in At(pass) : j <= from
    BY <2>1, Numbers, AllBehind DEF At
  <2> QED BY <2>1, <2>2, EndHears
<1>8. CASE UNCHANGED vars
  <2>1. UNCHANGED <<words, pass, from, nums, exceptions, cut, gone, listed>>
    BY <1>8 DEF vars
  <2>2. Heard' = Heard
    BY <2>1, WordsKept DEF Heard, Read, Over
  <2>3. NumsHeard' /\ ExceptionsHeard'
    BY <2>1, <2>2, NothingHeard DEF HeardInv
  <2>4. Deleted' /\ ListBegun'
    BY <2>1, WordsKept DEF HeardInv, Deleted, ListBegun, Over, At
  <2> QED BY <2>1, <2>3, <2>4 DEF HeardInv
<1> QED BY <1>1, <1>2, <1>3, <1>4, <1>5, <1>6, <1>7, <1>8 DEF Next

\* When the passes are over everything is read.
LEMMA HeardAll ==
  ASSUME TypeOK, Constant, HeardInv
  PROVE  Understood
<1> SUFFICES ASSUME pass = "done" PROVE Days = Meaning
  BY DEF Understood
<1>1. Heard = Speaking
  BY DEF Heard, Speaking, Read, Over
<1>2. ASSUME NEW j \in Speaking PROVE Said(j) \subseteq Week
  <2>1. j \in DOMAIN words /\ words[j].w \in {"day", "days", "-", "through", "every day"}
    BY DEF Speaking
  <2> QED BY <2>1, SaidDays DEF Constant
<1>3. nums \subseteq Week /\ exceptions \subseteq Week
  BY DEF TypeOK
<1>4. \A d \in Week : d \in Days <=> d \in Meaning
  BY <1>1 DEF HeardInv, NumsHeard, ExceptionsHeard, Days, Meaning
<1>5. Days \subseteq Week /\ Meaning \subseteq Week
  BY <1>2, <1>3 DEF Days, Meaning
<1> QED BY <1>4, <1>5

\* README: "turn on wifi every day except thu".  Commands of any length in the
\* usual order get the days they name without those they exclude.
THEOREM DaysUnderstood ==
  ASSUME \A p \in Phrases : Ordinary(p)
  PROVE  Spec => []Understood
<1> DEFINE IInv == TypeOK /\ Constant /\ HeardInv
<1>1. Constant => Ordinary(words)
  BY DEF Constant
<1>2. Init => IInv
  BY TypesInit, HeardInit
<1>3. IInv /\ [Next]_vars => IInv'
  BY <1>1, TypesNext, HeardNext
<1>4. IInv => Understood
  BY HeardAll
<1> HIDE DEF IInv
<1> QED BY <1>2, <1>3, <1>4, PTL DEF Spec

-----------------------------------------------------------------------------
(* The course *)

\* "every" comes first, as in all of the README's commands.
OpensWithEvery(p) == \A i \in DOMAIN p : p[i].w = "every" => i = 1

\* A course is over before midnight.
Within(c) == c.at + c.hours < 24

\* Nothing but an "every" is deleted together with the space before it.
TornIsEvery == torn \subseteq At("every")

\* Only one word comes right before another.
LEMMA OneBefore ==
  ASSUME words \in Seq(Word), NEW i \in DOMAIN words, NEW j \in Before(i), NEW k \in Before(i)
  PROVE  j = k
<1>1. i \in Nat
  BY Positions
<1>2. /\ j \in 1 .. i - 1 /\ j \notin gone /\ j + 1 .. i - 1 \subseteq gone
      /\ k \in 1 .. i - 1 /\ k \notin gone /\ k + 1 .. i - 1 \subseteq gone
  BY DEF Before
<1>3. ~(j < k)
  <2> SUFFICES ASSUME j < k PROVE FALSE
    OBVIOUS
  <2>1. k \in j + 1 .. i - 1
    BY <1>1, <1>2
  <2> QED BY <1>2, <2>1
<1>4. ~(k < j)
  <2> SUFFICES ASSUME k < j PROVE FALSE
    OBVIOUS
  <2>1. j \in k + 1 .. i - 1
    BY <1>1, <1>2
  <2> QED BY <1>2, <2>1
<1> QED BY <1>1, <1>2, <1>3, <1>4

LEMMA TornNext ==
  ASSUME Constant, TornIsEvery, [Next]_vars
  PROVE  TornIsEvery'
<1>1. CASE Single
  <2>1. PICK i \in NextIn(At("day")) :
          \/ torn' = torn
          \/ Follows(i, "every") /\ torn' = torn \cup Before(i)
    BY <1>1 DEF Single
  <2>2. i \in DOMAIN words /\ words' = words
    BY <1>1 DEF NextIn, Ahead, At, Single
  <2>3. ASSUME Follows(i, "every") PROVE Before(i) \subseteq At("every")
    <3>1. PICK j \in Before(i) : words[j].w = "every"
      BY <2>3 DEF Follows
    <3>2. j \in DOMAIN words
      BY <2>2, Positions DEF Before, Constant
    <3>3. ASSUME NEW k \in Before(i) PROVE k = j
      BY <2>2, OneBefore DEF Constant
    <3> QED BY <3>1, <3>2, <3>3 DEF At
  <2> QED BY <2>1, <2>2, <2>3 DEF TornIsEvery, At
<1>2. CASE UNCHANGED <<words, torn>>
  BY <1>2 DEF TornIsEvery, At
<1> QED
  BY <1>1, <1>2
  DEF Next, EveryDay, Span, SpansEnd, Plural, PluralsEnd, SinglesEnd, EndOfPass, vars

\* If "every" is the first word, every word keeps its space.
LEMMA NoneJoined ==
  ASSUME words \in Seq(Word), TornIsEvery, OpensWithEvery(words), NEW i
  PROVE  ~Joined(i)
<1>1. ASSUME NEW e \in torn PROVE Before(e) = {}
  <2>1. e = 1
    BY DEF TornIsEvery, At, OpensWithEvery
  <2> QED BY <2>1 DEF Before
<1> QED BY <1>1 DEF Joined

\* From the begin on one day to the end on the same one the course passes, and
\* any other end is later.
LEMMA EndsComeLater ==
  ASSUME NEW b \in Week, NEW e \in Week, NEW t \in 0 .. 23, NEW h \in 1 .. 23, t + h < 24
  PROVE  /\ ((24 * e + ((t + h) % 24)) - (24 * b + t)) % Hours >= h
         /\ e = b => ((24 * e + ((t + h) % 24)) - (24 * b + t)) % Hours = h
<1>1. (t + h) % 24 = t + h
  OBVIOUS
<1>2. (24 * e + (t + h)) - (24 * b + t) = 24 * (e - b) + h
  BY DEF Week
<1>3. e - b \in -6 .. 6
  BY DEF Week
<1>4. (24 * (e - b) + h) % 168 >= h
  BY <1>3
<1>5. e = b => (24 * (e - b) + h) % 168 = h
  BY DEF Week
<1> QED BY <1>1, <1>2, <1>4, <1>5 DEF Hours

LEMMA CourseKept ==
  ASSUME TypeOK, Constant, TornIsEvery, OpensWithEvery(words), course \in Courses, Within(course)
  PROVE  CourseLasts
<1> SUFFICES ASSUME At("for") # {}
             PROVE  \A b \in Begins :
                      /\ \E e \in Ends : (e - b) % Hours = course.hours
                      /\ \A e \in Ends : (e - b) % Hours >= course.hours
  BY DEF CourseLasts
<1>1. Durations = {course.hours}
  <2>1. \A i : ~Joined(i)
    BY NoneJoined DEF Constant
  <2>2. Durations = {course.hours : i \in At("for")}
    BY <2>1 DEF Durations
  <2> QED BY <2>2
<1> DEFINE t == course.at
           h == course.hours
           End(d) == 24 * d + ((t + h) % 24)
<1>2. t \in 0 .. 23 /\ h \in 1 .. 23 /\ t + h < 24
  BY CoursesAssumption DEF Within
<1>3. Days \subseteq Week
  BY DEF Days, TypeOK
<1>4. Ends = {End(d) : d \in Days} /\ Begins = {24 * d + t : d \in Days}
  BY <1>1 DEF Ends, Begins
<1> HIDE DEF t, h
<1>5. ASSUME NEW b \in Days, NEW e \in Days
      PROVE  /\ (End(e) - (24 * b + t)) % Hours >= h
             /\ e = b => (End(e) - (24 * b + t)) % Hours = h
  BY <1>2, <1>3, EndsComeLater
<1> HIDE DEF End
<1> QED BY <1>4, <1>5 DEF h

\* README: "on mon,tue,wed turn on wifi for 5 hours".  In commands of any length
\* that begin with their "every" if they have one, and whose courses are over
\* before midnight, every begin has its end when the duration is over, and none
\* comes earlier.
THEOREM CoursesLast ==
  ASSUME \A p \in Phrases : OpensWithEvery(p), \A c \in Courses : Within(c)
  PROVE  Spec => []CourseLasts
<1> DEFINE IInv == TypeOK /\ Constant /\ TornIsEvery /\ course \in Courses
<1>1. Init => IInv
  BY TypesInit DEF Init, TornIsEvery
<1>2. IInv /\ [Next]_vars => IInv'
  <2> SUFFICES ASSUME IInv, [Next]_vars PROVE IInv'
    OBVIOUS
  <2>1. course' = course
    BY DEF Next, EveryDay, Span, SpansEnd, Plural, PluralsEnd, Single, SinglesEnd,
           EndOfPass, vars
  <2> QED BY <2>1, TypesNext, TornNext
<1>3. IInv => CourseLasts
  BY CourseKept DEF Constant
<1> HIDE DEF IInv
<1> QED BY <1>1, <1>2, <1>3, PTL DEF Spec

=============================================================================
