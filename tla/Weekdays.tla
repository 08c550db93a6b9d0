------------------------------ MODULE Weekdays ------------------------------
(***************************************************************************)
(* The days of the week of a recurring command, as extract_dow_recurring() *)
(* of src/smart_device_svr.lua takes them out of it, and the lines a       *)
(* command with a duration gets for them.                                  *)
(*                                                                         *)
(* The function goes over the text several times: for "every day", spans   *)
(* with a dash, spans with "through", plurals ("mondays"), and lists of    *)
(* single days.  Each pass moves a start position from match to match and  *)
(* deletes what it found when it is over.  A position is the number of a   *)
(* word here.                                                              *)
(***************************************************************************)
EXTENDS Integers, Sequences

CONSTANTS
  Phrases,  \* what is said, without the action and the device
  Courses   \* begin and duration, in hours

Week == 0 .. 6   \* named_constants.dow_recurring: Sunday is 0

\* "at" stands for "at 3pm" and "for" for "for 2 hours", "and" for any word
\* that is in none of the patterns; a comma is followed by a space.
Word ==
  [w : {"day"}, d : Week, comma : BOOLEAN]
  \cup [w : {"days"}, d : Week]
  \cup {s \in [w : {"-", "through"}, d : Week, to : Week] : s.d # s.to}
  \cup [w : {"every day", "every", "except", "but not", "at", "for", "and"}]

\* No day is named twice by itself, and nothing is said twice.
Sensible(p) ==
  \A i, j \in DOMAIN p :
    i # j /\ p[i].w = p[j].w => p[i].w # "every day" /\ "d" \in DOMAIN p[i] /\ p[i].d # p[j].d

\* A command in the order of the README's: "every" comes first and with its
\* day; what is excluded comes last but for times, and is a list of single days
\* or spans that begins right after "except" (with a span, after "but not").
Ordinary(p) ==
  /\ \A i \in DOMAIN p : p[i].w = "every" => i = 1 /\ Len(p) > 1 /\ p[2].w = "day"
  /\ \A i, j \in DOMAIN p :
       p[i].w \in {"except", "but not"} /\ j > i =>
         /\ p[j].w \notin {"days", "except", "but not"}
         /\ p[j].w = "day" =>
              /\ \A k \in i + 1 .. j - 1 : p[k].w \in {"day", "-", "through"}
              /\ p[i].w = "but not" =>
                   p[1].w = "every" \/ \E k \in 1 .. j : p[k].w = "day" /\ p[k].comma

ASSUME PhrasesAssumption ==
  /\ Phrases \subseteq Seq(Word)
  /\ \A p \in Phrases : Sensible(p)
ASSUME CoursesAssumption ==
  \A c \in Courses : c \in [at : 0 .. 23, hours : 1 .. 23]

VARIABLES
  words,       \* the words of the command, constant
  course,      \* its begin and duration, constant
  pass,        \* which pass is under way
  from,        \* startingpos: the word that was matched last
  nums,        \* tblDow_nums
  exceptions,  \* tblDow_num_exceptions
  cut,         \* tblDelete_pos_range: words to delete when the pass is over
  gone,        \* the words deleted
  torn,        \* each "every" that was deleted with the space before it
  listed       \* i # 0 in the last pass: a list has begun

vars == <<words, course, pass, from, nums, exceptions, cut, gone, torn, listed>>

-----------------------------------------------------------------------------

At(w) == {i \in DOMAIN words : words[i].w = w}

\* find_except_pos()
except_pos == IF At("except") # {} THEN At("except") ELSE At("but not")

ExceptBefore(i) == \E e \in except_pos : e < i

\* Mutant: a span over the end of the week keeps the numbers beyond it.
spanning_beyond(s) == s.d .. (IF s.d > s.to THEN s.to + 7 ELSE s.to)

\* parse_spanning(), and the translation of what is spanned.
spanning(s) == {k % 7 : k \in s.d .. (IF s.d > s.to THEN s.to + 7 ELSE s.to)}

\* The next word from startingpos on that one of the patterns matches.
Ahead(S) == {i \in S : i > from}
NextIn(S) == {i \in Ahead(S) : \A j \in Ahead(S) : i <= j}

Add(days, excepted) ==
  IF excepted THEN exceptions' = exceptions \cup days /\ UNCHANGED nums
  ELSE nums' = nums \cup days /\ UNCHANGED exceptions

\* delete_pos_range(); the next pass starts at the beginning.
EndOfPass(p) ==
  /\ gone' = gone \cup cut
  /\ cut' = {}
  /\ from' = 0
  /\ pass' = p
  /\ UNCHANGED <<words, course, nums, exceptions, torn, listed>>

\* "every day", "each day", "all week", "all week long"
EveryDay ==
  /\ pass = "every day"
  /\ pass' = "-"
  /\ gone' = gone \cup At("every day")
  /\ nums' = IF At("every day") = {} THEN {} ELSE Week
  /\ UNCHANGED <<words, course, from, exceptions, cut, torn, listed>>

Span ==
  /\ pass \in {"-", "through"}
  /\ \E i \in NextIn(At(pass)) :
       /\ Add(spanning(words[i]), ExceptBefore(i))
       /\ cut' = cut \cup {i}
       /\ from' = i
  /\ UNCHANGED <<words, course, pass, gone, torn, listed>>

SpansEnd ==
  /\ pass \in {"-", "through"}
  /\ Ahead(At(pass)) = {}
  /\ EndOfPass(IF pass = "-" THEN "through" ELSE "days")

\* Words that begin like a day: "for" does.
LikeDays == At("day") \cup At("days") \cup At("for")

\* A plural is an exception if "except" comes before startingpos, which is the
\* end of the match before.
Plural ==
  /\ pass = "days"
  /\ \E i \in NextIn(LikeDays) :
       /\ IF words[i].w = "days"
          THEN Add({words[i].d}, ExceptBefore(from)) /\ cut' = cut \cup {i}
          ELSE UNCHANGED <<nums, exceptions, cut>>
       /\ from' = i
  /\ UNCHANGED <<words, course, pass, gone, torn, listed>>

PluralsEnd ==
  /\ pass = "days"
  /\ Ahead(LikeDays) = {}
  /\ EndOfPass("day")

\* The word before i in what is left of the text, if there is one.
Before(i) == {j \in 1 .. i - 1 : j \notin gone /\ j + 1 .. i - 1 \subseteq gone}

Follows(i, w) == \E j \in Before(i) : words[j].w = w

\* Mutant: "except" does not begin a list.
counts_without_except(i) == listed \/ words[i].comma \/ Follows(i, "every")

\* A single day counts if a list has begun, or begins with it.
counts(i) ==
  listed \/ words[i].comma \/ Follows(i, "every") \/ Follows(i, "except")

\* "every" is deleted with its day, and with the space before it.
Single ==
  /\ pass = "day"
  /\ \E i \in NextIn(At("day")) :
       /\ from' = i
       /\ IF counts(i)
          THEN /\ Add({words[i].d}, ExceptBefore(i))
               /\ listed' = TRUE
               /\ IF Follows(i, "every")
                  THEN cut' = cut \cup {i} \cup Before(i) /\ torn' = torn \cup Before(i)
                  ELSE cut' = cut \cup {i} /\ UNCHANGED torn
          ELSE UNCHANGED <<nums, exceptions, cut, torn, listed>>
  /\ UNCHANGED <<words, course, pass, gone>>

SinglesEnd ==
  /\ pass = "day"
  /\ Ahead(At("day")) = {}
  /\ EndOfPass("done")

Init ==
  /\ words \in Phrases
  /\ course \in Courses
  /\ pass = "every day"
  /\ from = 0
  /\ nums = {}
  /\ exceptions = {}
  /\ cut = {}
  /\ gone = {}
  /\ torn = {}
  /\ listed = FALSE

Next ==
  \/ EveryDay \/ Span \/ SpansEnd \/ Plural \/ PluralsEnd \/ Single \/ SinglesEnd

Spec == Init /\ [][Next]_vars

-----------------------------------------------------------------------------
(* What is made of it *)

\* tblFinal_dow_nums; without any, the command does not recur.
Days == nums \ exceptions

\* The word is run together with the one before it.
Joined(i) ==
  \E e \in torn :
    /\ e < i /\ Before(e) # {}
    /\ e .. i - 1 \subseteq gone

\* in_future_time_parser2(): nothing is found of a duration that is not a word
\* of its own, and one whose unit is not makes no hours.
Durations ==
  {IF \E j \in DOMAIN words : i \in Before(j) /\ Joined(j) THEN 0 ELSE course.hours :
     i \in {k \in At("for") : ~Joined(k)}}

Hours == 24 * 7

Begins == {24 * d + course.at : d \in Days}

\* Mutant: the end is put on the day after.
Ends_day_after ==
  {24 * ((d + 1) % 7) + ((course.at + n) % 24) : d \in Days, n \in Durations}

\* The line of the end has the hour of the end and the days of the begin.
Ends == {24 * d + ((course.at + n) % 24) : d \in Days, n \in Durations}

-----------------------------------------------------------------------------
(* Properties *)

TypeOK ==
  /\ pass \in {"every day", "-", "through", "days", "day", "done"}
  /\ from \in 0 .. Len(words)
  /\ nums \cup exceptions \subseteq Week
  /\ cut \cup gone \cup torn \subseteq DOMAIN words
  /\ listed \in BOOLEAN

\* What the words say to somebody who reads them once from left to right: days
\* after "except" or "but not" are taken out again, and a single day recurs
\* in a list, after "every" and as an exception.
Said(i) ==
  IF words[i].w \in {"-", "through"}
  THEN {(words[i].d + k) % 7 : k \in 0 .. (words[i].to - words[i].d) % 7}
  ELSE IF words[i].w = "every day" THEN Week
  ELSE {words[i].d}

Excluded(i) ==
  words[i].w # "every day" /\ \E e \in At("except") \cup At("but not") : e < i

Recurs(i) ==
  words[i].w = "day" =>
    \E j \in At("day") :
      j <= i /\ (words[j].comma \/ Excluded(j) \/ (j > 1 /\ words[j - 1].w = "every"))

Speaking == {i \in DOMAIN words :
               words[i].w \in {"day", "days", "-", "through", "every day"} /\ Recurs(i)}

Meaning ==
  (UNION {Said(i) : i \in {j \in Speaking : ~Excluded(j)}})
    \ (UNION {Said(i) : i \in {j \in Speaking : Excluded(j)}})

\* README: "turn on wifi every day except thu".  The days a command gets are
\* those it names without those it excludes, in whatever form and order; one
\* day by itself does not recur (comment above extract_dow_recurring).
Understood == pass = "done" => Days = Meaning

\* README: "on mon,tue,wed turn on wifi for 5 hours".  After every begin the
\* next end comes when the duration is over.
CourseLasts ==
  pass = "done" /\ At("for") # {} =>
    \A b \in Begins :
      /\ \E e \in Ends : (e - b) % Hours = course.hours
      /\ \A e \in Ends : (e - b) % Hours >= course.hours
=============================================================================
