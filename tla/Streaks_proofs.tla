---------------------------- MODULE Streaks_proofs ----------------------------
(***************************************************************************)
(* Facts about update_goal_streak, for every calendar: what it can do to a *)
(* row, that it keeps the row's type and that it counts no date twice.     *)
(***************************************************************************)
EXTENDS Streaks, FiniteSetTheorems, TLAPS

-----------------------------------------------------------------------------
(* The calendar *)

LEMMA DivNat ==
    ASSUME NEW n \in Nat \ {0}, NEW a \in Nat
    PROVE  /\ a \div n \in Nat
           /\ n * (a \div n) <= a
           /\ a < n * (a \div n) + n
OBVIOUS

LEMMA DivMonotone ==
    ASSUME NEW n \in Nat \ {0}, NEW a \in Nat, NEW b \in Nat, a <= b
    PROVE  a \div n <= b \div n
<1> DEFINE p == a \div n
           q == b \div n
<1>1. p \in Nat /\ q \in Nat /\ n * p <= a /\ b < n * q + n
  BY DivNat
<1> HIDE DEF p, q
<1>2. SUFFICES ASSUME p >= q + 1 PROVE FALSE
  BY <1>1 DEF p, q
<1>3. n * p >= n * (q + 1)
  BY <1>1, <1>2
<1>4. n * (q + 1) = n * q + n
  BY <1>1
<1> QED
  BY <1>1, <1>3, <1>4

LEMMA DaysFinite == IsFiniteSet(Days)
BY CalendarAssumption, FS_Interval DEF Days

LEMMA WeekType == \A d \in Days : Week(d) \in Nat
BY CalendarAssumption, DivNat DEF Days, Week

\* The ISO week that follows another of the same year lies later: a date in
\* it is a later date.
LEMMA FollowsWeekLater ==
    ASSUME NEW l \in Days \cup {NoDate}, NEW d \in Days, FollowsWeek(l, d)
    PROVE  l # NoDate /\ l \in Days /\ l < d
<1>1. l \in Days /\ l # NoDate
  BY DEF FollowsWeek
<1>2. Week(d) \in Nat /\ Week(l) \in Nat
  BY <1>1, WeekType
<1>3. PICK y \in Int : YearStart(Week(d)) = y /\ YearStart(Week(l)) = y
  BY <1>1, <1>2, CalendarAssumption DEF FollowsWeek, IsoWeek
<1>4. Week(d) = Week(l) + 1
  BY <1>2, <1>3 DEF FollowsWeek, IsoWeek
<1>5. d <= l => Week(d) <= Week(l)
  <2>1. d \in Nat /\ l \in Nat /\ WeekLen \in Nat \ {0}
    BY <1>1, CalendarAssumption DEF Days
  <2> QED
    BY <2>1, DivMonotone DEF Week
<1> QED
  BY <1>1, <1>2, <1>4, <1>5 DEF Days

LEMMA FollowsDayLater ==
    ASSUME NEW l \in Days \cup {NoDate}, NEW d \in Days, FollowsDay(l, d)
    PROVE  l # NoDate /\ l \in Days /\ l < d
BY DEF FollowsDay, Days, NoDate

-----------------------------------------------------------------------------
(* update_goal_streak *)

\* All that update_goal_streak can do: nothing, end the current streak, or, for
\* a completion, extend it from an earlier date or start again at one.
LEMMA UpdateStreakCases ==
    ASSUME NEW type, NEW s \in StreakRow, NEW d \in Days, NEW done \in BOOLEAN
    PROVE  \/ UpdateStreak(type, s, d, done) = s
           \/ UpdateStreak(type, s, d, done) = [s EXCEPT !.cur = 0]
           \/ /\ done
              /\ \E linked \in BOOLEAN :
                    /\ UpdateStreak(type, s, d, done) = Extend(s, d, linked)
                    /\ linked => s.last \in Days /\ s.last < d
<1>1. s.last \in Days \cup {NoDate}
  BY DEF StreakRow
<1>2. CASE type = "daily"
  <2>1. UpdateStreak(type, s, d, done) = DailyStreak(s, d, done)
    BY <1>2 DEF UpdateStreak
  <2>2. FollowsDay(s.last, d) \in BOOLEAN
    BY DEF FollowsDay
  <2>3. FollowsDay(s.last, d) => s.last \in Days /\ s.last < d
    BY <1>1, FollowsDayLater
  <2> QED
    BY <2>1, <2>2, <2>3 DEF DailyStreak
<1>3. CASE type = "weekly"
  <2>1. UpdateStreak(type, s, d, done) = WeeklyStreak(s, d, done)
    BY <1>3 DEF UpdateStreak
  <2>2. FollowsWeek(s.last, d) \in BOOLEAN
    BY DEF FollowsWeek
  <2>3. FollowsWeek(s.last, d) => s.last \in Days /\ s.last < d
    BY <1>1, FollowsWeekLater
  <2> QED
    BY <2>1, <2>2, <2>3 DEF WeeklyStreak
<1>4. CASE type \notin {"daily", "weekly"}
  BY <1>4 DEF UpdateStreak
<1> QED
  BY <1>2, <1>3, <1>4

LEMMA ExtendType ==
    ASSUME NEW s \in StreakRow, NEW d \in Days, NEW linked \in BOOLEAN
    PROVE  Extend(s, d, linked) \in StreakRow
BY DEF Extend, StreakRow, Larger

LEMMA UpdateStreakType ==
    ASSUME NEW type, NEW s \in StreakRow, NEW d \in Days, NEW done \in BOOLEAN
    PROVE  UpdateStreak(type, s, d, done) \in StreakRow
<1>1. [s EXCEPT !.cur = 0] \in StreakRow
  BY DEF StreakRow
<1>2. CASE \E linked \in BOOLEAN : UpdateStreak(type, s, d, done) = Extend(s, d, linked)
  BY <1>2, ExtendType
<1> QED
  BY <1>1, <1>2, UpdateStreakCases

-----------------------------------------------------------------------------
(* One streak and the dates its goal was completed on *)

Before(E, d) == {x \in E : x <= d}

Earned(s, E) ==
    /\ s.last = NoDate => s.cur = 0
    /\ s.cur <= Cardinality(Before(E, s.last))
    /\ s.cur <= s.longest
    /\ s.longest <= Cardinality(E)

LEMMA CardinalityGrows ==
    ASSUME NEW F \in SUBSET Days, NEW E \in SUBSET F
    PROVE  /\ Cardinality(E) \in Nat
           /\ Cardinality(F) \in Nat
           /\ Cardinality(E) <= Cardinality(F)
BY DaysFinite, FS_Subset, FS_CardinalityType

\* A new completion date takes nothing away from a streak.
LEMMA EarnedGrows ==
    ASSUME NEW s \in StreakRow, NEW F \in SUBSET Days, NEW E \in SUBSET F, Earned(s, E)
    PROVE  Earned(s, F)
<1>1. Before(E, s.last) \subseteq Before(F, s.last) /\ Before(F, s.last) \subseteq Days
  BY DEF Before
<1>2. /\ Cardinality(Before(E, s.last)) \in Nat
      /\ Cardinality(Before(F, s.last)) \in Nat
      /\ Cardinality(Before(E, s.last)) <= Cardinality(Before(F, s.last))
  BY <1>1, CardinalityGrows
<1>3. Cardinality(E) \in Nat /\ Cardinality(F) \in Nat /\ Cardinality(E) <= Cardinality(F)
  BY CardinalityGrows
<1>4. s.cur \in Nat /\ s.longest \in Nat
  BY DEF StreakRow
<1> QED
  BY <1>2, <1>3, <1>4 DEF Earned

\* The heart of the matter: an extension counts a date later than any counted.
LEMMA EarnedExtend ==
    ASSUME NEW s \in StreakRow, NEW E \in SUBSET Days, NEW d \in E,
           NEW linked \in BOOLEAN, Earned(s, E),
           linked => s.last \in Days /\ s.last < d
    PROVE  Earned(Extend(s, d, linked), E)
<1> DEFINE B == Before(E, s.last)
           C == Before(E, d)
           t == Extend(s, d, linked)
<1>1. B \subseteq Days /\ C \subseteq Days /\ C \subseteq E /\ d \in C
  <2>1. d \in Days /\ d \in Int /\ d <= d
    BY CalendarAssumption DEF Days
  <2> QED
    BY <2>1 DEF Before
<1>2. IsFiniteSet(B) /\ IsFiniteSet(C)
  BY <1>1, DaysFinite, FS_Subset
<1>3. Cardinality(B) \in Nat /\ Cardinality(C) \in Nat /\ Cardinality(E) \in Nat
  BY <1>1, CardinalityGrows
<1>4. Cardinality(C) <= Cardinality(E)
  BY <1>1, CardinalityGrows
<1>5. s.cur \in Nat /\ s.longest \in Nat
  BY DEF StreakRow
<1>6. t.cur <= Cardinality(C)
  <2>1. CASE linked
    <3>1. s.last \in Int /\ d \in Int /\ s.last < d
      BY <2>1 DEF Days
    <3>2. d \notin B /\ B \cup {d} \subseteq C
      BY <1>1, <3>1 DEF Before, Days
    <3>3. Cardinality(B \cup {d}) = Cardinality(B) + 1
      BY <1>2, <3>2, FS_AddElement
    <3>4. Cardinality(B \cup {d}) <= Cardinality(C)
      BY <1>1, <3>2, CardinalityGrows
    <3>5. t.cur = s.cur + 1
      BY <2>1 DEF Extend
    <3> QED
      BY <1>3, <1>5, <3>3, <3>4, <3>5 DEF Earned
  <2>2. CASE ~linked
    <3>1. C # {}
      BY <1>1
    <3>2. Cardinality(C) >= 1
      BY <1>2, <1>3, <3>1, FS_EmptySet
    <3> QED
      BY <2>2, <3>2 DEF Extend
  <2> QED
    BY <2>1, <2>2
<1>7. t.cur \in Nat /\ t.last = d /\ t.longest = Larger(s.longest, t.cur)
  BY <1>5 DEF Extend
<1>8. d # NoDate
  BY <1>1 DEF Days, NoDate
<1> QED
  BY <1>3, <1>4, <1>5, <1>6, <1>7, <1>8 DEF Earned, Larger

LEMMA EarnedEnded ==
    ASSUME NEW s \in StreakRow, NEW E \in SUBSET Days, Earned(s, E)
    PROVE  Earned([s EXCEPT !.cur = 0], E)
<1>1. Before(E, s.last) \subseteq Days
  BY DEF Before
<1>2. Cardinality(Before(E, s.last)) \in Nat
  BY <1>1, CardinalityGrows
<1> QED
  BY <1>2 DEF Earned, StreakRow

LEMMA EarnedReset ==
    ASSUME NEW s \in StreakRow, NEW E \in SUBSET Days, Earned(s, E)
    PROVE  Reset(s) \in StreakRow /\ Earned(Reset(s), E)
<1>1. Before(E, NoDate) \subseteq Days
  BY DEF Before
<1>2. Cardinality(Before(E, NoDate)) \in Nat
  BY <1>1, CardinalityGrows
<1>3. Reset(s) = [cur |-> 0, longest |-> s.longest, last |-> NoDate]
  BY DEF Reset, StreakRow
<1>4. s.longest \in Nat /\ s.longest <= Cardinality(E)
  BY DEF StreakRow, Earned
<1> QED
  BY <1>2, <1>3, <1>4 DEF Earned, StreakRow

LEMMA EarnedUpdate ==
    ASSUME NEW type, NEW s \in StreakRow, NEW d \in Days, NEW done \in BOOLEAN,
           NEW E \in SUBSET Days, Earned(s, E), done => d \in E
    PROVE  Earned(UpdateStreak(type, s, d, done), E)
<1>1. CASE \E linked \in BOOLEAN :
              /\ UpdateStreak(type, s, d, done) = Extend(s, d, linked)
              /\ linked => s.last \in Days /\ s.last < d
      /\ done
  BY <1>1, EarnedExtend
<1> QED
  BY <1>1, EarnedEnded, UpdateStreakCases

LEMMA EarnedNew ==
    ASSUME NEW E \in SUBSET Days
    PROVE  NewStreak \in StreakRow /\ Earned(NewStreak, E)
<1>1. Before(E, NoDate) \subseteq Days
  BY DEF Before
<1>2. Cardinality(Before(E, NoDate)) \in Nat /\ Cardinality(E) \in Nat
  BY <1>1, CardinalityGrows
<1> QED
  BY <1>2 DEF Earned, NewStreak, StreakRow
=============================================================================
