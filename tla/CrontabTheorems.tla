-------------------------- MODULE CrontabTheorems --------------------------
(***************************************************************************)
(* Lemmas about the table functions of module Crontab, for every crontab   *)
(* and every length of the year: what they return is a crontab again, and  *)
(* which lines survive them.                                               *)
(***************************************************************************)
EXTENDS Crontab, FiniteSetTheorems, SequenceTheorems, TLAPS

-----------------------------------------------------------------------------
(* Selecting lines by their numbers *)

Rank(I, i) == Cardinality({j \in I : j <= i})

\* The number of line numbers up to i grows with i: two lines of a table are
\* never at the same place of cronjob_line_numbers.
LEMMA RankInjective ==
  ASSUME NEW n \in Nat, NEW I \in SUBSET (1 .. n)
  PROVE  /\ IsFiniteSet(I)
         /\ Cardinality(I) \in Nat
         /\ Cardinality(I) <= n
         /\ [i \in I |-> Rank(I, i)] \in Injection(I, 1 .. Cardinality(I))
<1> DEFINE f == [i \in I |-> Rank(I, i)]
<1>1. IsFiniteSet(1 .. n) /\ Cardinality(1 .. n) = n
  BY FS_Interval
<1>2. IsFiniteSet(I) /\ Cardinality(I) <= n
  BY <1>1, FS_Subset
<1>3. Cardinality(I) \in Nat
  BY <1>2, FS_CardinalityType
<1>4. ASSUME NEW i \in I
      PROVE  /\ IsFiniteSet({j \in I : j <= i})
             /\ Rank(I, i) \in 1 .. Cardinality(I)
  <2> DEFINE U == {j \in I : j <= i}
  <2>1. U \in SUBSET I /\ i \in U
    OBVIOUS
  <2>2. IsFiniteSet(U) /\ Cardinality(U) <= Cardinality(I)
    BY <1>2, <2>1, FS_Subset
  <2>3. Cardinality(U) \in Nat /\ Cardinality(U) # 0
    BY <2>1, <2>2, FS_CardinalityType, FS_EmptySet
  <2> QED BY <1>3, <2>2, <2>3 DEF Rank
<1>5. ASSUME NEW i \in I, NEW j \in I, i < j
      PROVE  Rank(I, i) # Rank(I, j)
  <2> DEFINE U == {k \in I : k <= i}
             V == {k \in I : k <= j}
  <2>1. U \in SUBSET V /\ j \in V /\ j \notin U
    <3>1. I \subseteq Int
      OBVIOUS
    <3>2. \A k \in I : k <= i => k <= j
      BY <1>5, <3>1
    <3>3. ~(j <= i) /\ j <= j
      BY <1>5, <3>1
    <3>4. U \subseteq V
      BY <3>2
    <3>5. j \in V /\ j \notin U
      BY <3>3
    <3> QED BY <3>4, <3>5
  <2>2. IsFiniteSet(V)
    BY <1>4
  <2>3. Cardinality(U) # Cardinality(V)
    BY <2>1, <2>2, FS_Subset
  <2> QED BY <2>3 DEF Rank
<1>6. f \in [I -> 1 .. Cardinality(I)]
  BY <1>4
<1>7. \A i, j \in I : f[i] = f[j] => i = j
  BY <1>5
<1>8. f \in Injection(I, 1 .. Cardinality(I))
  BY <1>6, <1>7 DEF Injection, IsInjective
<1> QED BY <1>2, <1>3, <1>8

\* Ascending(I) lists the members of I and nothing else.
LEMMA AscendingOnto ==
  ASSUME NEW n \in Nat, NEW I \in SUBSET (1 .. n)
  PROVE  /\ \A k \in 1 .. Cardinality(I) :
              Ascending(I)[k] \in I /\ Rank(I, Ascending(I)[k]) = k
         /\ \A i \in I : \E k \in 1 .. Cardinality(I) : Ascending(I)[k] = i
<1> DEFINE c == Cardinality(I)
           f == [i \in I |-> Rank(I, i)]
<1>1. c \in Nat /\ IsFiniteSet(I) /\ f \in Injection(I, 1 .. c)
  BY RankInjective
<1>2. IsFiniteSet(1 .. c) /\ Cardinality(1 .. c) = c
  BY <1>1, FS_Interval
<1>3. f \in Surjection(I, 1 .. c)
  <2> HIDE DEF f
  <2>1. Cardinality(I) = Cardinality(1 .. c) <=> f \in Surjection(I, 1 .. c)
    BY <1>1, <1>2, FS_Injection
  <2> QED BY <1>2, <2>1
<1>4. ASSUME NEW k \in 1 .. c
      PROVE  Ascending(I)[k] \in I /\ Rank(I, Ascending(I)[k]) = k
  <2>1. \E i \in I : Rank(I, i) = k
    BY <1>3 DEF Surjection
  <2>2. Ascending(I)[k] = CHOOSE i \in I : Rank(I, i) = k
    BY DEF Ascending, Rank
  <2> QED BY <2>1, <2>2
<1>5. ASSUME NEW i \in I
      PROVE  \E k \in 1 .. c : Ascending(I)[k] = i
  <2>1. Rank(I, i) \in 1 .. c
    BY <1>1 DEF Injection
  <2>2. /\ Ascending(I)[Rank(I, i)] \in I
        /\ Rank(I, Ascending(I)[Rank(I, i)]) = Rank(I, i)
    BY <1>4, <2>1
  <2>3. Ascending(I)[Rank(I, i)] = i
    BY <1>1, <2>2 DEF Injection, IsInjective
  <2> QED BY <2>1, <2>3
<1> QED BY <1>4, <1>5

\* Selecting lines of a table by number gives a table of them all and of no
\* other lines (tblDeleteLines, tblRemove_duplicates, ...).
LEMMA KeepAtLines ==
  ASSUME NEW S, NEW s \in Seq(S), NEW I \in SUBSET (DOMAIN s)
  PROVE  /\ KeepAt(s, I) \in Seq(S)
         /\ DOMAIN KeepAt(s, I) = 1 .. Cardinality(I)
         /\ \A i \in I : \E k \in DOMAIN KeepAt(s, I) : KeepAt(s, I)[k] = s[i]
<1>1. DOMAIN s = 1 .. Len(s) /\ Len(s) \in Nat
  BY LenProperties
<1>2. Cardinality(I) \in Nat
  BY <1>1, RankInjective
<1>3. /\ \A k \in 1 .. Cardinality(I) : Ascending(I)[k] \in I
      /\ \A i \in I : \E k \in 1 .. Cardinality(I) : Ascending(I)[k] = i
  BY <1>1, AscendingOnto
<1>4. \A k \in 1 .. Cardinality(I) : s[Ascending(I)[k]] \in S
  BY <1>1, <1>3, ElementOfSeq
<1>5. KeepAt(s, I) \in [1 .. Cardinality(I) -> S]
  BY <1>4 DEF KeepAt
<1>6. KeepAt(s, I) \in Seq(S)
  BY <1>2, <1>5, SeqDef
<1> QED BY <1>3, <1>6 DEF KeepAt

\* new is made of the lines I of tab, each of them at most once.
From(tab, I, new) ==
  \E f \in Injection(DOMAIN new, I) : \A k \in DOMAIN new : new[k] = tab[f[k]]
Part(tab, new) == From(tab, DOMAIN tab, new)

\* A loop over a table inserts each of its lines at most once.
LEMMA KeepAtFrom ==
  ASSUME NEW S, NEW s \in Seq(S), NEW I \in SUBSET (DOMAIN s)
  PROVE  From(s, I, KeepAt(s, I)) /\ Part(s, KeepAt(s, I))
<1> DEFINE f == [k \in 1 .. Cardinality(I) |-> Ascending(I)[k]]
<1>1. DOMAIN s = 1 .. Len(s) /\ Len(s) \in Nat
  BY LenProperties
<1>2. \A k \in 1 .. Cardinality(I) :
        Ascending(I)[k] \in I /\ Rank(I, Ascending(I)[k]) = k
  BY <1>1, AscendingOnto
<1>3. f \in [1 .. Cardinality(I) -> I]
  BY <1>2
<1>4. \A k, l \in 1 .. Cardinality(I) : f[k] = f[l] => k = l
  BY <1>2
<1>5. /\ f \in Injection(1 .. Cardinality(I), I)
      /\ f \in Injection(1 .. Cardinality(I), DOMAIN s)
  BY <1>3, <1>4 DEF Injection, IsInjective
<1>6. /\ DOMAIN KeepAt(s, I) = 1 .. Cardinality(I)
      /\ \A k \in 1 .. Cardinality(I) : KeepAt(s, I)[k] = s[f[k]]
  BY DEF KeepAt
<1> HIDE DEF f
<1> QED BY <1>5, <1>6 DEF From, Part

\* So do two such loops, one after the other.
LEMMA PartTransitive ==
  ASSUME NEW tab, NEW mid, NEW new, Part(tab, mid), Part(mid, new)
  PROVE  Part(tab, new)
<1>1. PICK f \in Injection(DOMAIN mid, DOMAIN tab) :
        \A k \in DOMAIN mid : mid[k] = tab[f[k]]
  BY DEF Part, From
<1>2. PICK g \in Injection(DOMAIN new, DOMAIN mid) :
        \A k \in DOMAIN new : new[k] = mid[g[k]]
  BY DEF Part, From
<1> DEFINE h == [k \in DOMAIN new |-> f[g[k]]]
<1>3. h \in Injection(DOMAIN new, DOMAIN tab)
  BY DEF Injection, IsInjective
<1>4. \A k \in DOMAIN new : new[k] = tab[h[k]]
  BY <1>1, <1>2 DEF Injection
<1> HIDE DEF h
<1> QED BY <1>3, <1>4 DEF Part, From

\* Deleting lines of a table leaves the others.
LEMMA DeleteFrom ==
  ASSUME NEW tab \in Seq(Line), NEW D
  PROVE  /\ tblDeleteLines(tab, D) \in Seq(Line)
         /\ Part(tab, tblDeleteLines(tab, D))
         /\ From(tab, (DOMAIN tab) \ D, tblDeleteLines(tab, D))
         /\ \A i \in (DOMAIN tab) \ D :
              \E n \in DOMAIN tblDeleteLines(tab, D) : tblDeleteLines(tab, D)[n] = tab[i]
<1> DEFINE I == (DOMAIN tab) \ D
<1>1. I \in SUBSET (DOMAIN tab)
  OBVIOUS
<1>2. tblDeleteLines(tab, D) = KeepAt(tab, I)
  BY DEF tblDeleteLines
<1> HIDE DEF I
<1>3. /\ KeepAt(tab, I) \in Seq(Line)
      /\ \A i \in I : \E n \in DOMAIN KeepAt(tab, I) : KeepAt(tab, I)[n] = tab[i]
  BY <1>1, KeepAtLines
<1>4. From(tab, I, KeepAt(tab, I)) /\ Part(tab, KeepAt(tab, I))
  BY <1>1, KeepAtFrom
<1> QED BY <1>2, <1>3, <1>4 DEF I

\* The first and the last line number of a set that has one are in the set:
\* a lookup (linenum_of_..., md5sumhexa_to_...) finds a line or nil.
LEMMA FirstLast ==
  ASSUME NEW n \in Nat, NEW I \in SUBSET (1 .. n)
  PROVE  /\ FirstOf(I) \in I \cup {0}
         /\ LastOf(I) \in I \cup {0}
         /\ I # {} => FirstOf(I) \in I /\ LastOf(I) \in I
         /\ I # {} => \E i \in I : \A j \in I : i <= j
<1> DEFINE c == Cardinality(I)
<1>1. CASE I = {}
  BY <1>1 DEF FirstOf, LastOf
<1>2. CASE I # {}
  <2>1. c \in Nat /\ IsFiniteSet(I) /\ c # 0
    BY <1>2, RankInjective, FS_EmptySet
  <2>a. \A k \in 1 .. c : \E i \in I : Rank(I, i) = k
    BY AscendingOnto
  <2>b. 1 \in 1 .. c /\ c \in 1 .. c
    BY <2>1
  <2>2. PICK i \in I : Rank(I, i) = 1
    BY <2>a, <2>b
  <2>3. PICK m \in I : Rank(I, m) = c
    BY <2>a, <2>b
  <2>4. \A j \in I : i <= j
    <3> DEFINE U == {j \in I : j <= i}
    <3>1. U \in SUBSET I /\ {i} \in SUBSET U
      OBVIOUS
    <3>2. IsFiniteSet(U) /\ Cardinality(U) = 1
      BY <2>1, <2>2, <3>1, FS_Subset DEF Rank
    <3>3. {i} = U
      BY <3>1, <3>2, FS_Subset, FS_Singleton
    <3> QED BY <3>3
  <2>5. \A j \in I : j <= m
    <3> DEFINE U == {j \in I : j <= m}
    <3>1. U \in SUBSET I
      OBVIOUS
    <3>2. U = I
      BY <2>1, <2>3, <3>1, FS_Subset DEF Rank
    <3> QED BY <3>2
  <2>6. FirstOf(I) \in I
    BY <1>2, <2>4 DEF FirstOf, Min
  <2>7. LastOf(I) \in I
    BY <1>2, <2>5 DEF LastOf, Max
  <2> QED BY <2>4, <2>6, <2>7
<1> QED BY <1>1, <1>2

-----------------------------------------------------------------------------
(* Lines and what survives of them *)

\* The table has a line of its own (not #TMP) with md5sum k.
Has(tab, k) ==
  \E i \in DOMAIN tab : IsEntry(tab[i]) /\ tab[i].key = k /\ ~tab[i].tmp

\* None of the lines D is such a line.
Spares(tab, D, k) ==
  \A i \in D \cap DOMAIN tab :
    IsEntry(tab[i]) /\ ~tab[i].tmp => tab[i].key # k

\* The md5sums that no client line, no one-shot line has.
RecurringKey == {k \in DeviceKey : k.sched.rec}

\* A line that is neither blank nor a comment is an entry with a key.
LEMMA EntryOfLine ==
  ASSUME NEW x \in Line, IsEntry(x)
  PROVE  /\ x \in Entry
         /\ x.key \in Key /\ x.held \in Seq(Key) /\ x.by \in Instigator
         /\ x.key.sched \in Schedule
         /\ IsClient(x) => x.key \in ClientKey
         /\ ~IsClient(x) => x.key \in DeviceKey
<1>1. x \in Entry
  BY DEF Line, Blank, Comment, IsEntry
<1>2. x.key \in Key /\ x.held \in Seq(Key) /\ x.by \in Instigator
  BY <1>1 DEF Entry
<1>3. \A k \in DeviceKey : k.sched \in Schedule /\ k.do \in Action
  BY DEF DeviceKey
<1>4. \A k \in ClientKey : k.sched \in Schedule /\ k.do \in {"clear", "unhold"}
  BY DEF ClientKey
<1>5. \A a \in Action : a \notin {"clear", "unhold"}
  BY DEF Action
<1> QED BY <1>1, <1>2, <1>3, <1>4, <1>5 DEF Key, IsClient

\* The constants of the language of schedules are what they should be.
LEMMA OnceKeys ==
  /\ OnceKey \subseteq DeviceKey
  /\ \A k \in OnceKey : ~k.sched.rec
  /\ \A k \in OnceKey : k \notin RecurringKey
  /\ \A t \in Slot : Once(t) \in Schedule
  /\ \A s \in Schedule : s.rec \in BOOLEAN /\ s.at \subseteq Slot
  /\ \A s \in Schedule : ~s.rec => \E t \in Slot : s = Once(t)
  /\ \A s \in Schedule : ~s.rec => schedule_to_epoch(s) \in Slot
<1>1. \A t \in Slot : Once(t) \in Schedule /\ ~Once(t).rec
  BY DEF Schedule, Once
<1>2. OnceKey \subseteq DeviceKey /\ \A k \in OnceKey : ~k.sched.rec
  BY <1>1 DEF OnceKey, DeviceKey
<1>3. \A s \in Schedule : ~s.rec => \E t \in Slot : s = Once(t)
  BY DEF Schedule, Once
<1>4. \A t \in Slot : schedule_to_epoch(Once(t)) \in Slot
  BY DEF schedule_to_epoch, Once
<1>5. ASSUME NEW s \in Schedule
      PROVE  s.rec \in BOOLEAN /\ s.at \subseteq Slot
  <2>1. CASE s \in {Once(t) : t \in Slot}
    <3>1. PICK t \in Slot : s = Once(t)
      BY <2>1
    <3>2. {t} \subseteq Slot /\ Once(t).rec = FALSE /\ Once(t).at = {t}
      BY DEF Once
    <3> QED BY <3>1, <3>2
  <2>2. CASE s \in [rec : {TRUE}, at : (SUBSET Slot) \ {{}}]
    BY <2>2
  <2> QED BY <2>1, <2>2 DEF Schedule
<1> QED BY <1>1, <1>2, <1>3, <1>4, <1>5 DEF RecurringKey

\* A line of a device that does not recur is due at one minute of the year.
LEMMA OnceDevice ==
  ASSUME NEW k \in DeviceKey, ~k.sched.rec
  PROVE  k \in OnceKey
<1>1. k.sched \in Schedule /\ k.do \in Action /\ k = [sched |-> k.sched, do |-> k.do]
  BY DEF DeviceKey
<1>2. k.sched \in {Once(t) : t \in Slot}
  BY <1>1, OnceKeys
<1> QED BY <1>1, <1>2 DEF OnceKey

\* Minutes of the year wrap around.
LEMMA SlotMod ==
  ASSUME NEW x \in Int
  PROVE  x % YearLen \in Slot
BY YearLenAssumption DEF Slot

\* A table from which only lines other than k's are deleted still has k's.
LEMMA DeleteKeeps ==
  ASSUME NEW tab \in Seq(Line), NEW D
  PROVE  /\ tblDeleteLines(tab, D) \in Seq(Line)
         /\ \A k : Has(tab, k) /\ Spares(tab, D, k) => Has(tblDeleteLines(tab, D), k)
<1>1. ASSUME NEW k, Has(tab, k), Spares(tab, D, k)
      PROVE  Has(tblDeleteLines(tab, D), k)
  <2>1. PICK i \in DOMAIN tab : IsEntry(tab[i]) /\ tab[i].key = k /\ ~tab[i].tmp
    BY <1>1 DEF Has
  <2>2. i \in (DOMAIN tab) \ D
    BY <1>1, <2>1 DEF Spares
  <2>3. PICK n \in DOMAIN tblDeleteLines(tab, D) : tblDeleteLines(tab, D)[n] = tab[i]
    BY <2>2, DeleteFrom
  <2> QED BY <2>1, <2>3 DEF Has
<1> QED BY <1>1, DeleteFrom

\* submit_crontab() writes every line at least once: a duplicate is only
\* dropped behind the line it duplicates, and else only blank lines are.
LEMMA SubmitLines ==
  ASSUME NEW tab \in Seq(Line)
  PROVE  /\ submit_crontab(tab) \in Seq(Line)
         /\ Part(tab, submit_crontab(tab))
         /\ \A i \in DOMAIN tab : tab[i] # Blank =>
              \E n \in DOMAIN submit_crontab(tab) : submit_crontab(tab)[n] = tab[i]
<1> DEFINE I == {i \in DOMAIN tab :
                   Active(tab[i]) => \A j \in 1 .. i - 1 : tab[j] # tab[i]}
           mid == RemoveDuplicates(tab)
           J == {i \in DOMAIN mid : i < 3 \/ \E j \in i - 2 .. i : mid[j] # Blank}
<1>0. DOMAIN tab = 1 .. Len(tab) /\ Len(tab) \in Nat
  BY LenProperties
<1>1. /\ mid \in Seq(Line) /\ Part(tab, mid)
      /\ \A i \in I : \E n \in DOMAIN mid : mid[n] = tab[i]
  <2>1. mid = KeepAt(tab, I) /\ I \in SUBSET (DOMAIN tab)
    BY DEF RemoveDuplicates
  <2> HIDE DEF I, mid
  <2> QED BY <2>1, KeepAtLines, KeepAtFrom
<1>2. ASSUME NEW i \in DOMAIN tab
      PROVE  \E n \in DOMAIN mid : mid[n] = tab[i]
  <2> DEFINE Same == {j \in DOMAIN tab : tab[j] = tab[i]}
  <2>1. Same \in SUBSET (1 .. Len(tab)) /\ i \in Same
    BY <1>0
  <2>2. PICK m \in Same : \A j \in Same : m <= j
    BY <1>0, <2>1, FirstLast
  <2>3. \A j \in 1 .. m - 1 : tab[j] # tab[m]
    <3> SUFFICES ASSUME NEW j \in 1 .. m - 1, tab[j] = tab[m] PROVE FALSE
      OBVIOUS
    <3>1. m \in 1 .. Len(tab) /\ tab[m] = tab[i]
      BY <1>0
    <3>2. j \in 1 .. Len(tab) /\ ~(m <= j)
      BY <1>0, <3>1
    <3>3. j \in Same
      BY <1>0, <3>1, <3>2
    <3> QED BY <2>2, <3>2, <3>3
  <2>4. m \in I
    BY <2>3
  <2> QED BY <1>1, <2>4
<1> HIDE DEF mid
<1>3. /\ KeepAt(mid, J) \in Seq(Line) /\ Part(mid, KeepAt(mid, J))
      /\ \A i \in J : \E n \in DOMAIN KeepAt(mid, J) : KeepAt(mid, J)[n] = mid[i]
  <2>1. J \in SUBSET (DOMAIN mid)
    OBVIOUS
  <2> HIDE DEF J
  <2> QED BY <1>1, <2>1, KeepAtLines, KeepAtFrom
<1>4. submit_crontab(tab) = KeepAt(mid, J)
  BY DEF submit_crontab, AllowTwoBlankLines, mid
<1>5. ASSUME NEW i \in DOMAIN tab, tab[i] # Blank
      PROVE  \E n \in DOMAIN KeepAt(mid, J) : KeepAt(mid, J)[n] = tab[i]
  <2>1. PICK n \in DOMAIN mid : mid[n] = tab[i]
    BY <1>2
  <2>2. n \in Int /\ n \in n - 2 .. n
    BY <1>1, LenProperties
  <2>3. n \in J
    BY <1>5, <2>1, <2>2
  <2> QED BY <1>3, <2>1, <2>3
<1>6. Part(tab, KeepAt(mid, J))
  <2> HIDE DEF J
  <2> QED BY <1>1, <1>3, PartTransitive
<1> QED BY <1>3, <1>4, <1>5, <1>6

\* So every line that is no #TMP line is still there.
LEMMA SubmitKeeps ==
  ASSUME NEW tab \in Seq(Line)
  PROVE  /\ submit_crontab(tab) \in Seq(Line)
         /\ \A k : Has(tab, k) => Has(submit_crontab(tab), k)
<1>1. ASSUME NEW k, Has(tab, k)
      PROVE  Has(submit_crontab(tab), k)
  <2>1. PICK i \in DOMAIN tab : IsEntry(tab[i]) /\ tab[i].key = k /\ ~tab[i].tmp
    BY <1>1 DEF Has
  <2>2. tab[i] # Blank
    BY <2>1 DEF IsEntry, Blank
  <2> QED BY <2>1, <2>2, SubmitLines DEF Has
<1> QED BY <1>1, SubmitLines

-----------------------------------------------------------------------------
(* What the editing functions return is a crontab with all recurring lines *)

\* new is a crontab that has every recurring line tab has.
Keeps(tab, new) ==
  /\ new \in Seq(Line)
  /\ \A k \in RecurringKey : Has(tab, k) => Has(new, k)

\* new has the lines of tab, but for their #ONHOLD marks.
SameButMarks(tab, new) ==
  /\ new \in Seq(Line)
  /\ DOMAIN new = DOMAIN tab
  /\ \A i \in DOMAIN tab : IsEntry(new[i]) <=> IsEntry(tab[i])
  /\ \A i \in DOMAIN tab : IsEntry(tab[i]) =>
       new[i].key = tab[i].key /\ new[i].tmp = tab[i].tmp

\* A handler that calls one table function after another keeps what each of
\* them keeps.
LEMMA KeepsTransitive ==
  ASSUME NEW tab, NEW mid, NEW new, Keeps(tab, mid), Keeps(mid, new)
  PROVE  Keeps(tab, new)
BY DEF Keeps

\* A function that only sets or takes the #ONHOLD mark (hold_job, unhold_job)
\* keeps the recurring lines.
LEMMA SameButMarksKeeps ==
  ASSUME NEW tab \in Seq(Line), NEW new, SameButMarks(tab, new)
  PROVE  Keeps(tab, new)
BY DEF Keeps, SameButMarks, Has

\* An array that is written is a crontab with all the array's lines.
LEMMA SubmitCrontabKeeps ==
  ASSUME NEW tab \in Seq(Line)
  PROVE  Keeps(tab, submit_crontab(tab))
BY SubmitKeeps DEF Keeps

\* table.insert(tab, line), as clear_schedule_for and add_new_schedule use it,
\* keeps the recurring lines.
LEMMA AppendKeeps ==
  ASSUME NEW tab \in Seq(Line), NEW x \in Line
  PROVE  Keeps(tab, Append(tab, x))
<1>1. /\ Append(tab, x) \in Seq(Line)
      /\ Len(Append(tab, x)) = Len(tab) + 1
      /\ \A i \in 1 .. Len(tab) : Append(tab, x)[i] = tab[i]
  BY AppendProperties
<1>2. /\ Len(tab) \in Nat
      /\ DOMAIN tab = 1 .. Len(tab)
      /\ DOMAIN Append(tab, x) = 1 .. Len(tab) + 1
  BY <1>1, LenProperties
<1>3. \A i \in DOMAIN tab : i \in DOMAIN Append(tab, x)
  BY <1>2
<1> QED BY <1>1, <1>2, <1>3 DEF Keeps, Has

\* Reading the crontab (get_cron_jobs) keeps the recurring lines.
LEMMA CronAllKeeps ==
  ASSUME NEW tab \in Seq(Line)
  PROVE  Keeps(tab, cron_all(tab))
BY AppendKeeps DEF cron_all, Line

\* Marking lines and unmarking them changes nothing else.
LEMMA PutOnHoldLine ==
  ASSUME NEW x \in Line, IsEntry(x), NEW by \in Instigator
  PROVE  /\ PutOnHold(x, by) \in Line /\ IsEntry(PutOnHold(x, by))
         /\ PutOnHold(x, by).key = x.key /\ PutOnHold(x, by).tmp = x.tmp
<1>1. x \in Entry
  BY EntryOfLine
<1> QED BY <1>1 DEF PutOnHold, Entry, Line, IsEntry

\* unhold_job() makes a line of a line, with the same key and #TMP mark.
LEMMA TakeOffHoldLine ==
  ASSUME NEW x \in Line, IsEntry(x)
  PROVE  /\ TakeOffHold(x) \in Line /\ IsEntry(TakeOffHold(x))
         /\ TakeOffHold(x).key = x.key /\ TakeOffHold(x).tmp = x.tmp
<1>1. x \in Entry /\ << >> \in Instigator
  BY EntryOfLine DEF Instigator
<1> QED BY <1>1 DEF TakeOffHold, Entry, Line, IsEntry

\* hold_job() on any set of active lines changes nothing but their marks.
LEMMA HoldSame ==
  ASSUME NEW tab \in Seq(Line), NEW by \in Instigator,
         NEW I \in SUBSET ActiveAt(tab)
  PROVE  SameButMarks(tab, hold_lines(tab, I, by))
<1> DEFINE new == hold_lines(tab, I, by)
<1>1. Len(tab) \in Nat /\ DOMAIN tab = 1 .. Len(tab)
  BY LenProperties
<1>2. DOMAIN new = DOMAIN tab
  BY DEF hold_lines
<1>3. ASSUME NEW i \in DOMAIN tab
      PROVE  /\ new[i] \in Line
             /\ IsEntry(new[i]) <=> IsEntry(tab[i])
             /\ IsEntry(tab[i]) =>
                  new[i].key = tab[i].key /\ new[i].tmp = tab[i].tmp
  <2>1. tab[i] \in Line
    BY <1>1, ElementOfSeq
  <2>2. CASE i \in I
    <3>1. IsEntry(tab[i]) /\ new[i] = PutOnHold(tab[i], by)
      BY <2>2 DEF hold_lines, ActiveAt, Active
    <3> QED BY <2>1, <3>1, PutOnHoldLine
  <2>3. CASE i \notin I
    BY <2>1, <2>3 DEF hold_lines
  <2> QED BY <2>2, <2>3
<1>4. new \in Seq(Line)
  <2>1. new \in [1 .. Len(tab) -> Line]
    BY <1>1, <1>3 DEF hold_lines
  <2> QED BY <1>1, <2>1, SeqDef
<1> QED BY <1>2, <1>3, <1>4 DEF SameButMarks

\* unhold_job() on any set of entries changes nothing but their marks.
LEMMA UnholdSame ==
  ASSUME NEW tab \in Seq(Line), NEW I \in SUBSET (OnHoldAt(tab) \cup {0})
  PROVE  SameButMarks(tab, unhold_lines(tab, I))
<1> DEFINE new == unhold_lines(tab, I)
<1>1. Len(tab) \in Nat /\ DOMAIN tab = 1 .. Len(tab)
  BY LenProperties
<1>2. DOMAIN new = DOMAIN tab
  BY DEF unhold_lines
<1>3. ASSUME NEW i \in DOMAIN tab
      PROVE  /\ new[i] \in Line
             /\ IsEntry(new[i]) <=> IsEntry(tab[i])
             /\ IsEntry(tab[i]) =>
                  new[i].key = tab[i].key /\ new[i].tmp = tab[i].tmp
  <2>1. tab[i] \in Line /\ i # 0
    BY <1>1, ElementOfSeq
  <2>2. CASE i \in I
    <3>1. IsEntry(tab[i]) /\ new[i] = TakeOffHold(tab[i])
      BY <2>1, <2>2 DEF unhold_lines, OnHoldAt, OnHold
    <3> QED BY <2>1, <3>1, TakeOffHoldLine
  <2>3. CASE i \notin I
    BY <2>1, <2>3 DEF unhold_lines
  <2> QED BY <2>2, <2>3
<1>4. new \in Seq(Line)
  <2>1. new \in [1 .. Len(tab) -> Line]
    BY <1>1, <1>3 DEF unhold_lines
  <2> QED BY <1>1, <2>1, SeqDef
<1> QED BY <1>2, <1>3, <1>4 DEF SameButMarks

\* hold_all() and unhold_all_jobs() lose no recurring line.
LEMMA HoldAllKeeps ==
  ASSUME NEW tab \in Seq(Line)
  PROVE  Keeps(tab, hold_all(tab)) /\ Keeps(tab, unhold_all_jobs(tab))
<1>1. << >> \in Instigator
  BY DEF Instigator
<1>2. SameButMarks(tab, hold_all(tab))
  BY <1>1, HoldSame DEF hold_all
<1>3. SameButMarks(tab, unhold_all_jobs(tab))
  BY UnholdSame DEF unhold_all_jobs
<1> QED BY <1>2, <1>3, SameButMarksKeeps

\* Deleting lines that are marked #TMP or are no recurring lines.
LEMMA DeletionKeeps ==
  ASSUME NEW tab \in Seq(Line), NEW D,
         \A k \in RecurringKey : Spares(tab, D, k)
  PROVE  Keeps(tab, tblDeleteLines(tab, D))
BY DeleteKeeps DEF Keeps

\* delete_old_cron_jobs() loses #TMP lines only.
LEMMA DeleteOldKeeps ==
  ASSUME NEW tab \in Seq(Line), NEW now
  PROVE  Keeps(tab, delete_old_cron_jobs(tab, now))
<1> DEFINE D == {i \in tmp_line_numbers(tab) :
                   schedule_to_epoch(tab[i].key.sched) < now - OldAge}
<1>1. \A i \in D : tab[i].tmp
  BY DEF tmp_line_numbers
<1>2. \A k \in RecurringKey : Spares(tab, D, k)
  BY <1>1 DEF Spares
<1> HIDE DEF D
<1>3. Keeps(tab, tblDeleteLines(tab, D))
  BY <1>2, DeletionKeeps
<1> QED BY <1>3 DEF delete_old_cron_jobs, D

\* The lines the server writes are lines of a crontab.
LEMMA WrittenLines ==
  /\ \A k \in DeviceKey : DeviceLine(k, TRUE) \in Line
  /\ \A t \in Slot, b, e \in OnceKey, held \in Seq(Key) :
       /\ ClientLine(Once(t), "clear", b, e, held) \in Line
       /\ ClientLine(Once(t), "unhold", b, e, held) \in Line
<1>1. << >> \in Seq(Key) /\ << >> \in Instigator
  BY EmptySeq DEF Instigator
<1>2. ASSUME NEW k \in DeviceKey
      PROVE  DeviceLine(k, TRUE) \in Line
  BY <1>1 DEF DeviceLine, Line, Entry, Key
<1>3. ASSUME NEW t \in Slot, NEW b \in OnceKey, NEW e \in OnceKey,
             NEW held \in Seq(Key), NEW cmd \in {"clear", "unhold"}
      PROVE  ClientLine(Once(t), cmd, b, e, held) \in Line
  <2>1. [sched |-> Once(t), do |-> cmd, b |-> b, e |-> e] \in ClientKey
    BY OnceKeys DEF ClientKey
  <2> QED BY <1>1, <2>1 DEF ClientLine, Line, Entry, Key
<1> QED BY <1>2, <1>3

\* add_new_schedule()'s first array: the crontab and the new lines.
LEMMA AddBeginKeeps ==
  ASSUME NEW tab \in Seq(Line), NEW b \in DeviceKey
  PROVE  Keeps(tab, add_begin(tab, b))
BY AppendKeeps, WrittenLines DEF add_begin

\* The schedule of a clear line, written by add_new_schedule(), is one minute of
\* the year, whether or not the minute before the beginning is in last year.
LEMMA ClearTimeType ==
  ASSUME NEW b \in OnceKey, NEW year, NEW now
  PROVE  \E t \in Slot : clear_tbl(b, year, now) = Once(t)
<1>1. schedule_to_epoch(b.sched) \in Slot
  <2>1. b.sched \in Schedule /\ ~b.sched.rec
    BY OnceKeys DEF DeviceKey
  <2> QED BY <2>1, OnceKeys
<1>2. schedule_to_epoch(b.sched) - 1 \in Int
  BY <1>1 DEF Slot
<1>3. (schedule_to_epoch(b.sched) - 1) % YearLen \in Slot
  BY <1>2, SlotMod
<1> QED BY <1>1, <1>3 DEF clear_tbl

\* The clear line of a command that begins later.
LEMMA ClearLineType ==
  ASSUME NEW b \in OnceKey, NEW e \in OnceKey, NEW year, NEW now
  PROVE  ClientLine(clear_tbl(b, year, now), "clear", b, e, << >>) \in Line
<1>1. PICK t \in Slot : clear_tbl(b, year, now) = Once(t)
  BY ClearTimeType
<1>2. << >> \in Seq(Key)
  BY EmptySeq
<1>3. ClientLine(Once(t), "clear", b, e, << >>) \in Line
  BY <1>2, WrittenLines
<1> QED BY <1>1, <1>3

\* add_new_schedule() of a two-part command makes a crontab and keeps the
\* recurring lines.
LEMMA AddBeginEndKeeps ==
  ASSUME NEW tab \in Seq(Line), NEW b \in DeviceKey, NEW e \in DeviceKey,
         b.sched.rec = e.sched.rec, NEW year, NEW now
  PROVE  Keeps(tab, add_begin_end(tab, b, e, year, now))
<1> DEFINE one == add_begin(tab, b)
           both == one \o <<DeviceLine(e, TRUE)>>
<1>1. one \in Seq(Line) /\ Keeps(tab, one)
  BY AddBeginKeeps DEF Keeps
<1>2. DeviceLine(e, TRUE) \in Line
  BY WrittenLines
<1>3. both = Append(one, DeviceLine(e, TRUE))
  <2> HIDE DEF one
  <2> QED BY <1>1, <1>2, AppendIsConcat
<1>4. both \in Seq(Line) /\ Keeps(tab, both)
  <2>1. Keeps(one, Append(one, DeviceLine(e, TRUE)))
    BY <1>1, <1>2, AppendKeeps
  <2>2. Keeps(one, both)
    BY <1>3, <2>1
  <2> QED BY <1>1, <2>2, KeepsTransitive DEF Keeps
<1> HIDE DEF both
<1>5. CASE b.sched.rec \/ tbl_is_now_p(b.sched, now)
  BY <1>4, <1>5 DEF add_begin_end, both
<1>6. CASE ~(b.sched.rec \/ tbl_is_now_p(b.sched, now))
  <2> DEFINE x == ClientLine(clear_tbl(b, year, now), "clear", b, e, << >>)
  <2>1. b \in OnceKey /\ e \in OnceKey
    BY <1>6, OnceDevice
  <2>2. x \in Line
    BY <2>1, ClearLineType
  <2>3. add_begin_end(tab, b, e, year, now) = Append(both, x)
    BY <1>6 DEF add_begin_end, both
  <2> HIDE DEF x
  <2>4. Keeps(both, Append(both, x))
    BY <1>4, <2>2, AppendKeeps
  <2> QED BY <1>4, <2>3, <2>4, KeepsTransitive
<1> QED BY <1>5, <1>6

\* The arrays of get_cron_jobs(): cronjob_line_numbers has active lines only,
\* and cronjob_md5sumhexa is at least as long.
LEMMA ParallelArrays ==
  ASSUME NEW tab \in Seq(Line)
  PROVE  /\ DOMAIN cronjob_line_numbers(tab) = 1 .. Cardinality(ActiveAt(tab))
         /\ \A k \in DOMAIN cronjob_line_numbers(tab) :
              cronjob_line_numbers(tab)[k] \in ActiveAt(tab)
         /\ cronjob_md5sumhexa(tab) \in Seq(Key)
         /\ DOMAIN cronjob_line_numbers(tab) \subseteq DOMAIN cronjob_md5sumhexa(tab)
<1> DEFINE A == ActiveAt(tab)
           B == ActiveAt(tab) \cup OnHoldAt(tab)
           all == KeepAt(tab, B)
<1>1. Len(tab) \in Nat /\ DOMAIN tab = 1 .. Len(tab)
  BY LenProperties
<1>2. A \in SUBSET (1 .. Len(tab)) /\ B \in SUBSET (1 .. Len(tab)) /\ A \subseteq B
  BY <1>1 DEF ActiveAt, OnHoldAt
<1>3. \A i \in B : tab[i] \in Line /\ IsEntry(tab[i])
  BY <1>1, <1>2, ElementOfSeq DEF ActiveAt, OnHoldAt, Active, OnHold
<1> HIDE DEF A, B
<1>4. /\ IsFiniteSet(B) /\ Cardinality(A) \in Nat /\ Cardinality(B) \in Nat
      /\ Cardinality(A) <= Cardinality(B)
  <2>1. IsFiniteSet(B) /\ Cardinality(B) \in Nat /\ Cardinality(A) \in Nat
    BY <1>1, <1>2, RankInjective
  <2> QED BY <1>2, <2>1, FS_Subset
<1>5. /\ \A k \in 1 .. Cardinality(A) : Ascending(A)[k] \in A
      /\ \A k \in 1 .. Cardinality(B) : Ascending(B)[k] \in B
  BY <1>1, <1>2, AscendingOnto
<1>6. DOMAIN all = 1 .. Cardinality(B)
  BY DEF KeepAt
<1>7. \A k \in DOMAIN all : all[k].key \in Key
  <2> TAKE k \in DOMAIN all
  <2>1. all[k] = tab[Ascending(B)[k]] /\ Ascending(B)[k] \in B
    BY <1>5, <1>6 DEF KeepAt
  <2> QED BY <1>3, <2>1, EntryOfLine
<1>8. cronjob_md5sumhexa(tab) \in [1 .. Cardinality(B) -> Key]
  BY <1>6, <1>7 DEF cronjob_md5sumhexa, B
<1>9. /\ cronjob_md5sumhexa(tab) \in Seq(Key)
      /\ DOMAIN cronjob_md5sumhexa(tab) = 1 .. Cardinality(B)
  BY <1>4, <1>8, SeqDef
<1>10. DOMAIN cronjob_line_numbers(tab) = 1 .. Cardinality(A)
  BY DEF cronjob_line_numbers, Ascending, A
<1>11. DOMAIN cronjob_line_numbers(tab) \subseteq DOMAIN cronjob_md5sumhexa(tab)
  BY <1>4, <1>9, <1>10
<1>12. \A k \in DOMAIN cronjob_line_numbers(tab) : cronjob_line_numbers(tab)[k] \in A
  BY <1>5, <1>10 DEF cronjob_line_numbers, A
<1> QED BY <1>9, <1>10, <1>11, <1>12 DEF A

\* A client line that is looked up is not a recurring line of the user's.
LEMMA ClientLineSpared ==
  ASSUME NEW tab \in Seq(Line), NEW I \in SUBSET (DOMAIN tab),
         \A i \in I : IsClient(tab[i])
  PROVE  \A k \in RecurringKey : Spares(tab, {FirstOf(I)}, k)
<1>1. Len(tab) \in Nat /\ DOMAIN tab = 1 .. Len(tab)
  BY LenProperties
<1>2. FirstOf(I) \in I \cup {0}
  BY <1>1, FirstLast
<1>3. \A i \in {FirstOf(I)} \cap DOMAIN tab : i \in I
  BY <1>1, <1>2
<1>4. \A k \in RecurringKey : k.do \notin {"clear", "unhold"}
  BY DEF RecurringKey, DeviceKey, Action
<1> QED BY <1>3, <1>4 DEF Spares, IsClient

\* The last line with the md5sum of a one-shot line is not one either.
LEMMA OnceLineSpared ==
  ASSUME NEW tab \in Seq(Line), NEW b \in OnceKey
  PROVE  \A k \in RecurringKey : Spares(tab, {md5sumhexa_to_linenum(tab, b)}, k)
<1> DEFINE I == {i \in ActiveAt(tab) : tab[i].key = b}
<1>1. Len(tab) \in Nat /\ DOMAIN tab = 1 .. Len(tab)
  BY LenProperties
<1>2. I \in SUBSET (1 .. Len(tab))
  BY <1>1 DEF ActiveAt
<1>3. md5sumhexa_to_linenum(tab, b) \in I \cup {0}
  <2>1. md5sumhexa_to_linenum(tab, b) = LastOf(I)
    BY DEF md5sumhexa_to_linenum
  <2> HIDE DEF I
  <2> QED BY <1>1, <1>2, <2>1, FirstLast
<1>4. \A i \in {md5sumhexa_to_linenum(tab, b)} \cap DOMAIN tab : tab[i].key = b
  BY <1>1, <1>3
<1> QED BY <1>4, OnceKeys DEF Spares

\* The end's line is found and its schedule is a minute: the guards of
\* clear_schedule_for() leave no other way to the unhold line.
LEMMA ScheduleEndType ==
  ASSUME NEW tab \in Seq(Line), NEW b, NEW e,
         ~clear_fails(tab, b, e), ~clear_returns(tab, b, e)
  PROVE  \E t \in Slot : schedule_end(tab, e) = Once(t)
<1> DEFINE jobs == cronjob_line_numbers(tab)
           jobnum == md5sumhexa_to_jobnum(tab, e)
           x_e == tab[jobs[jobnum]]
<1>1. jobnum \in DOMAIN jobs /\ ~x_e.key.sched.rec
  BY DEF clear_fails, clear_returns, HasJobEpoch, HasEpoch
<1>2. jobs[jobnum] \in ActiveAt(tab)
  BY <1>1, ParallelArrays
<1>3. x_e \in Line /\ IsEntry(x_e)
  BY <1>2, LenProperties, ElementOfSeq DEF ActiveAt, Active
<1>4. x_e.key.sched \in Schedule
  BY <1>3, EntryOfLine
<1>5. schedule_to_epoch(x_e.key.sched) + 1 \in Int
  BY <1>1, <1>4, OnceKeys DEF Slot
<1>6. (schedule_to_epoch(x_e.key.sched) + 1) % YearLen \in Slot
  BY <1>5, SlotMod
<1> QED BY <1>6 DEF schedule_end

\* clear_schedule_for() returns a crontab, with every recurring line of the
\* one it was given: it marks lines and deletes one of the server's own.
LEMMA ClearKeeps ==
  ASSUME NEW tab \in Seq(Line), NEW b \in OnceKey, NEW e \in OnceKey, NEW now,
         ~clear_fails(tab, b, e), ~clear_returns(tab, b, e)
  PROVE  Keeps(tab, clear_schedule_for(tab, b, e, now))
<1> DEFINE jobs == cronjob_line_numbers(tab)
           hold == jobs_to_hold(tab, b, e, now)
           sums == cronjob_md5sumhexa(tab)
           held == KeepAt(sums, hold)
           lines == {jobs[k] : k \in hold}
           new == hold_lines(tab, lines, <<b, e>>)
           unhold == ClientLine(schedule_end(tab, e), "unhold", b, e, held)
           longer == Append(new, unhold)
           C == {i \in ActiveAt(tab) :
                   /\ tab[i].key.do = "clear"
                   /\ {tab[i].key.b, tab[i].key.e} \cap {b, e} # {}}
           line == linenum_of_clear_schedule(tab, b, e)
<1>1. hold \subseteq DOMAIN jobs
  BY DEF jobs_to_hold
<1>2. lines \in SUBSET ActiveAt(tab)
  BY <1>1, ParallelArrays
<1>3. hold \in SUBSET (DOMAIN sums) /\ sums \in Seq(Key)
  BY <1>1, ParallelArrays
<1>4. held \in Seq(Key)
  <2> HIDE DEF hold, sums
  <2> QED BY <1>3, KeepAtLines
<1>5. <<b, e>> \in Instigator
  BY OnceKeys DEF Instigator
<1>6. SameButMarks(tab, new)
  <2> HIDE DEF lines
  <2> QED BY <1>2, <1>5, HoldSame
<1>7. new \in Seq(Line) /\ Keeps(tab, new)
  <2> HIDE DEF new
  <2> QED BY <1>6, SameButMarksKeeps DEF Keeps
<1>8. unhold \in Line
  <2> HIDE DEF held
  <2> QED BY <1>4, ScheduleEndType, WrittenLines
<1>9. longer \in Seq(Line) /\ Keeps(new, longer)
  <2> HIDE DEF new, unhold
  <2> QED BY <1>7, <1>8, AppendKeeps DEF Keeps
<1>10. \A k \in RecurringKey : Spares(longer, {line}, k)
  <2>1. Len(tab) \in Nat /\ DOMAIN tab = 1 .. Len(tab)
    BY LenProperties
  <2>2. C \in SUBSET (DOMAIN tab) /\ line = FirstOf(C)
    BY DEF ActiveAt, linenum_of_clear_schedule
  <2>3. line \in C \cup {0}
    <3> HIDE DEF C, line
    <3> QED BY <2>1, <2>2, FirstLast
  <2>4. ASSUME line # 0
        PROVE  /\ line \in DOMAIN tab /\ IsEntry(tab[line])
               /\ tab[line].key.do = "clear"
    BY <2>3, <2>4 DEF ActiveAt, Active
  <2>5. ASSUME line # 0
        PROVE  longer[line].key = tab[line].key
    <3>1. DOMAIN new = 1 .. Len(new) /\ DOMAIN new = DOMAIN tab
      BY <1>6, <1>7, LenProperties DEF SameButMarks
    <3>2. new[line].key = tab[line].key /\ line \in 1 .. Len(new)
      BY <1>6, <2>4, <2>5, <3>1 DEF SameButMarks
    <3>3. longer[line] = new[line]
      <4> HIDE DEF new, unhold
      <4> QED BY <1>7, <1>8, <3>2, AppendProperties
    <3> QED BY <3>2, <3>3
  <2>6. 0 \notin DOMAIN longer
    <3> HIDE DEF longer
    <3> QED BY <1>9, LenProperties
  <2>7. \A k \in RecurringKey : k.do # "clear"
    BY DEF RecurringKey, DeviceKey, Action
  <2> HIDE DEF longer, line
  <2> QED BY <2>4, <2>5, <2>6, <2>7 DEF Spares
<1>11. Keeps(longer, tblDeleteLines(longer, {line}))
  <2> HIDE DEF longer, line
  <2> QED BY <1>9, <1>10, DeletionKeeps
<1>12. clear_schedule_for(tab, b, e, now) = tblDeleteLines(longer, {line})
  BY DEF clear_schedule_for
<1> HIDE DEF new, longer
<1> QED BY <1>7, <1>9, <1>11, <1>12, KeepsTransitive

\* Marks do not matter to what a deletion spares.
LEMMA SparesSame ==
  ASSUME NEW tab, NEW new, SameButMarks(tab, new), NEW D, NEW k, Spares(tab, D, k)
  PROVE  Spares(new, D, k)
BY DEF SameButMarks, Spares

\* onholdjob_linenum finds a line on hold with the md5sum if there is one.
LEMMA OnHoldLookup ==
  ASSUME NEW tab \in Seq(Line), NEW md5
  PROVE  LET I == {i \in OnHoldAt(tab) : tab[i].key = md5}
         IN  /\ onholdjob_linenum(tab, md5) \in I \cup {0}
             /\ I # {} => onholdjob_linenum(tab, md5) \in I
<1> DEFINE I == {i \in OnHoldAt(tab) : tab[i].key = md5}
<1>1. Len(tab) \in Nat /\ I \in SUBSET (1 .. Len(tab))
  BY LenProperties DEF OnHoldAt
<1>2. onholdjob_linenum(tab, md5) = LastOf(I)
  BY DEF onholdjob_linenum
<1> HIDE DEF I
<1>3. /\ onholdjob_linenum(tab, md5) \in I \cup {0}
      /\ I # {} => onholdjob_linenum(tab, md5) \in I
  BY <1>1, <1>2, FirstLast
<1> QED BY <1>3 DEF I

\* unhold_jobs_delete_jobs() returns a crontab with every recurring line of
\* the one it was given: what it deletes is one-shot or the server's own.
LEMMA UnholdKeeps ==
  ASSUME NEW tab \in Seq(Line), NEW held, NEW b \in OnceKey, NEW e \in OnceKey
  PROVE  Keeps(tab, unhold_jobs_delete_jobs(tab, held, b, e))
<1> DEFINE words == ToSet(unhold_words(held, b, e))
           lines == {onholdjob_linenum(tab, w) : w \in words}
           new == unhold_lines(tab, lines)
           U == {i \in ActiveAt(tab) :
                   /\ tab[i].key.do = "unhold"
                   /\ IF held = << >>
                      THEN <<tab[i].key.b, tab[i].key.e>> = <<b, e>>
                      ELSE \/ IsInfix(held, tab[i].held)
                           \/ IsInfix(held, <<tab[i].key.b, tab[i].key.e>>)}
           line == linenum_of_unhold_delete(tab, held, b, e)
           D == {md5sumhexa_to_linenum(tab, b), md5sumhexa_to_linenum(tab, e), line}
<1>1. Len(tab) \in Nat /\ DOMAIN tab = 1 .. Len(tab)
  BY LenProperties
<1>2. lines \in SUBSET (OnHoldAt(tab) \cup {0})
  <2>1. ASSUME NEW w \in words
        PROVE  onholdjob_linenum(tab, w) \in OnHoldAt(tab) \cup {0}
    BY OnHoldLookup
  <2> QED BY <2>1
<1>3. SameButMarks(tab, new)
  <2> HIDE DEF lines
  <2> QED BY <1>2, UnholdSame
<1>4. new \in Seq(Line) /\ Keeps(tab, new)
  <2> HIDE DEF new
  <2> QED BY <1>3, SameButMarksKeeps DEF Keeps
<1>5. \A k \in RecurringKey : Spares(tab, {line}, k)
  <2>1. U \in SUBSET (DOMAIN tab) /\ \A i \in U : IsClient(tab[i])
    BY DEF ActiveAt, Active, IsClient
  <2>2. line = FirstOf(U)
    BY DEF linenum_of_unhold_delete
  <2> HIDE DEF U, line
  <2> QED BY <2>1, <2>2, ClientLineSpared
<1>6. ASSUME NEW k \in RecurringKey
      PROVE  Spares(tab, D, k)
  <2>1. /\ Spares(tab, {md5sumhexa_to_linenum(tab, b)}, k)
        /\ Spares(tab, {md5sumhexa_to_linenum(tab, e)}, k)
        /\ Spares(tab, {line}, k)
    BY <1>5, OnceLineSpared
  <2> HIDE DEF line
  <2> QED BY <2>1 DEF Spares
<1>7. \A k \in RecurringKey : Spares(new, D, k)
  <2> HIDE DEF D, new
  <2> QED BY <1>3, <1>6, SparesSame
<1>8. Keeps(new, tblDeleteLines(new, D))
  <2> HIDE DEF D, new
  <2> QED BY <1>4, <1>7, DeletionKeeps
<1>9. unhold_jobs_delete_jobs(tab, held, b, e) = tblDeleteLines(new, D)
  BY DEF unhold_jobs_delete_jobs
<1> HIDE DEF new, D
<1> QED BY <1>4, <1>8, <1>9, KeepsTransitive

=============================================================================
