---------------------------- MODULE CheckIn_proofs ----------------------------
(***************************************************************************)
(* Proofs about CheckIn, for every calendar, set of goals, users and       *)
(* reflections: the type invariant, that every streak is earned, that runs *)
(* of days and weeks have no gap, and what no step takes from a streak.    *)
(***************************************************************************)
EXTENDS CheckIn, Streaks_proofs

-----------------------------------------------------------------------------
(* What one check-in makes of the rows of one goal *)

CellRow == [event : EventRow, streak : StreakRow, said : SUBSET BOOLEAN]

\* The goal's completion dates once the cell is written.
Dates(E, c, d) == IF AlreadyDone(c.event) THEN E \cup {d} ELSE E

LEMMA EntryType ==
    ASSUME NEW c \in CellRow, NEW type, NEW r \in Reflections, NEW d \in Days,
           NEW done \in BOOLEAN
    PROVE  CheckInEntry(c, type, r, d, done) \in CellRow
<1>1. [mark |-> IF done THEN "yes" ELSE "no", by |-> r] \in EventRow
  BY DEF EventRow
<1>2. UpdateStreak(type, c.streak, d, done) \in StreakRow
  BY UpdateStreakType DEF CellRow
<1>3. c.said \cup {done} \in SUBSET BOOLEAN
  BY DEF CellRow
<1> QED
  BY <1>1, <1>2, <1>3 DEF CheckInEntry, CellRow

LEMMA EntryEarned ==
    ASSUME NEW c \in CellRow, NEW type, NEW r \in Reflections, NEW d \in Days,
           NEW done \in BOOLEAN, NEW E \in SUBSET Days, Earned(c.streak, Dates(E, c, d))
    PROVE  LET t == CheckInEntry(c, type, r, d, done)
           IN  Earned(t.streak, Dates(E, t, d))
<1> DEFINE t == CheckInEntry(c, type, r, d, done)
<1>1. CASE AlreadyDone(c.event)
  BY <1>1 DEF CheckInEntry
<1>2. CASE ~AlreadyDone(c.event)
  <2>1. /\ t.streak = UpdateStreak(type, c.streak, d, done)
        /\ t.event = [mark |-> IF done THEN "yes" ELSE "no", by |-> r]
    BY <1>2 DEF CheckInEntry
  <2>2. Dates(E, c, d) = E /\ Dates(E, t, d) = IF done THEN E \cup {d} ELSE E
    BY <1>2, <2>1 DEF Dates, AlreadyDone
  <2>3. Dates(E, t, d) \in SUBSET Days /\ E \subseteq Dates(E, t, d)
    BY <2>2
  <2>4. c.streak \in StreakRow
    BY DEF CellRow
  <2>5. Earned(c.streak, Dates(E, t, d))
    BY <2>2, <2>3, <2>4, EarnedGrows
  <2>6. done => d \in Dates(E, t, d)
    BY <2>2
  <2> HIDE DEF t
  <2> QED
    BY <2>1, <2>3, <2>4, <2>5, <2>6, EarnedUpdate DEF t
<1> QED
  BY <1>1, <1>2

\* The flags of one goal are none, one or two entries, taken in order.
LEMMA EntriesCases ==
    ASSUME NEW c, NEW type, NEW r, NEW d, NEW flags \in Flags
    PROVE  \/ CheckInEntries(c, type, r, d, flags) = c
           \/ \E a \in BOOLEAN :
                  CheckInEntries(c, type, r, d, flags) = CheckInEntry(c, type, r, d, a)
           \/ \E a, b \in BOOLEAN :
                  CheckInEntries(c, type, r, d, flags)
                      = CheckInEntry(CheckInEntry(c, type, r, d, a), type, r, d, b)
<1>1. CASE flags = <<>>
  BY <1>1 DEF CheckInEntries
<1>2. ASSUME NEW a \in BOOLEAN, flags = <<a>>
      PROVE  CheckInEntries(c, type, r, d, flags) = CheckInEntry(c, type, r, d, a)
  <2>1. flags # <<>> /\ Len(flags) = 1 /\ flags[1] = a
    BY <1>2
  <2> QED
    BY <2>1 DEF CheckInEntries
<1>3. ASSUME NEW a \in BOOLEAN, NEW b \in BOOLEAN, flags = <<a, b>>
      PROVE  CheckInEntries(c, type, r, d, flags)
                 = CheckInEntry(CheckInEntry(c, type, r, d, a), type, r, d, b)
  <2>1. flags # <<>> /\ Len(flags) # 1 /\ flags[1] = a /\ flags[2] = b
    BY <1>3
  <2> QED
    BY <2>1 DEF CheckInEntries
<1>4. \/ flags = <<>>
      \/ \E a \in BOOLEAN : flags = <<a>>
      \/ \E a, b \in BOOLEAN : flags = <<a, b>>
  BY DEF Flags
<1> QED
  BY <1>1, <1>2, <1>3, <1>4

LEMMA EntriesEarned ==
    ASSUME NEW c \in CellRow, NEW type, NEW r \in Reflections, NEW d \in Days,
           NEW flags \in Flags, NEW E \in SUBSET Days, Earned(c.streak, Dates(E, c, d))
    PROVE  /\ CheckInEntries(c, type, r, d, flags) \in CellRow
           /\ Earned(CheckInEntries(c, type, r, d, flags).streak,
                     Dates(E, CheckInEntries(c, type, r, d, flags), d))
<1>1. ASSUME NEW a \in BOOLEAN
      PROVE  LET t == CheckInEntry(c, type, r, d, a)
             IN  t \in CellRow /\ Earned(t.streak, Dates(E, t, d))
  BY EntryType, EntryEarned
<1>2. ASSUME NEW a \in BOOLEAN, NEW b \in BOOLEAN
      PROVE  LET t == CheckInEntry(CheckInEntry(c, type, r, d, a), type, r, d, b)
             IN  t \in CellRow /\ Earned(t.streak, Dates(E, t, d))
  <2> DEFINE f == CheckInEntry(c, type, r, d, a)
  <2>1. f \in CellRow /\ Earned(f.streak, Dates(E, f, d))
    BY <1>1
  <2> HIDE DEF f
  <2>2. LET t == CheckInEntry(f, type, r, d, b)
        IN  t \in CellRow /\ Earned(t.streak, Dates(E, t, d))
    BY <2>1, EntryType, EntryEarned
  <2> QED
    BY <2>2 DEF f
<1> QED
  BY <1>1, <1>2, EntriesCases

-----------------------------------------------------------------------------
(* The invariant and its steps *)

AllEarned == \A g \in Goals, u \in Users : Earned(streak[g][u], everDone[g][u])

EarnedInv == TypeOK /\ AllEarned

LEMMA EarnedInit == Init => EarnedInv
<1> SUFFICES ASSUME Init PROVE EarnedInv
  OBVIOUS
<1>1. NoEvent \in EventRow /\ Absent \in ReflectionRow
  BY DEF NoEvent, EventRow, Absent, ReflectionRow
<1>2. NewStreak \in StreakRow /\ Earned(NewStreak, {})
  BY EarnedNew
<1>3. 0 \in Days
  BY CalendarAssumption DEF Days
<1>4. TypeOK
  BY <1>1, <1>2, <1>3 DEF Init, TypeOK, Statuses, FreqTypes
<1>5. AllEarned
  BY <1>2 DEF Init, AllEarned
<1> QED
  BY <1>4, <1>5 DEF EarnedInv

LEMMA CellEarned ==
    ASSUME EarnedInv, NEW g \in Goals, NEW u \in Users, NEW r \in Reflections,
           NEW d \in Days, NEW flags \in Flags
    PROVE  /\ Cell(g, u, r, d, flags) \in CellRow
           /\ Earned(Cell(g, u, r, d, flags).streak,
                     Dates(everDone[g][u], Cell(g, u, r, d, flags), d))
<1> DEFINE c == [event |-> event[g][u][d], streak |-> streak[g][u], said |-> {}]
           E == everDone[g][u]
<1>1. streak[g][u] \in StreakRow /\ event[g][u][d] \in EventRow /\ E \in SUBSET Days
  BY DEF EarnedInv, TypeOK
<1>2. c \in CellRow
  BY <1>1 DEF CellRow
<1>3. Earned(streak[g][u], E)
  BY DEF EarnedInv, AllEarned
<1>4. Dates(E, c, d) \in SUBSET Days /\ E \subseteq Dates(E, c, d)
  BY <1>1 DEF Dates
<1>5. c.streak = streak[g][u]
  OBVIOUS
<1>6. Earned(c.streak, Dates(E, c, d))
  BY <1>1, <1>3, <1>4, <1>5, EarnedGrows
<1>7. Cell(g, u, r, d, flags) = CheckInEntries(c, ftype[g], r, d, flags)
  BY DEF Cell
<1> HIDE DEF c, E
<1> QED
  BY <1>1, <1>2, <1>6, <1>7, EntriesEarned DEF E

LEMMA AddReflectionEarned ==
    ASSUME EarnedInv, NEW u \in Users, NEW r \in Reflections, NEW d \in Days,
           NEW payload \in [Goals -> Flags], AddReflection(u, r, d, payload)
    PROVE  EarnedInv'
<1> DEFINE t(g) == Cell(g, u, r, d, payload[g])
<1>1. \A g \in Goals : /\ t(g) \in CellRow
                       /\ Earned(t(g).streak, Dates(everDone[g][u], t(g), d))
  BY CellEarned
<1>2. \A g \in Goals : t(g).event \in EventRow /\ t(g).streak \in StreakRow
  BY <1>1 DEF CellRow
<1>3. event' = [g \in Goals |-> [event[g] EXCEPT ![u][d] = t(g).event]]
  BY DEF AddReflection
<1>4. streak' = [g \in Goals |-> [streak[g] EXCEPT ![u] = t(g).streak]]
  BY DEF AddReflection
<1>5. \A g \in Goals : event'[g][u][d] = t(g).event
  BY <1>3 DEF EarnedInv, TypeOK
<1>6. everDone' = [g \in Goals |-> [everDone[g] EXCEPT ![u] = Dates(@, t(g), d)]]
  BY <1>5 DEF AddReflection, Dates
<1> HIDE DEF t
<1>7. event' \in [Goals -> [Users -> [Days -> EventRow]]]
  BY <1>2, <1>3 DEF EarnedInv, TypeOK
<1>8. streak' \in [Goals -> [Users -> StreakRow]]
  BY <1>2, <1>4 DEF EarnedInv, TypeOK
<1>9. everDone' \in [Goals -> [Users -> SUBSET Days]]
  BY <1>6 DEF EarnedInv, TypeOK, Dates
<1>10. reflection' \in [Reflections -> ReflectionRow]
  BY DEF EarnedInv, TypeOK, AddReflection, ReflectionRow
<1>11. TypeOK'
  BY <1>7, <1>8, <1>9, <1>10 DEF EarnedInv, TypeOK, AddReflection, goalVars
<1>12. AllEarned'
  <2> SUFFICES ASSUME NEW g \in Goals, NEW w \in Users
               PROVE  Earned(streak'[g][w], everDone'[g][w])
    BY DEF AllEarned
  <2>1. CASE w = u
    <3>1. streak'[g][w] = t(g).streak /\ everDone'[g][w] = Dates(everDone[g][u], t(g), d)
      BY <1>4, <1>6, <2>1 DEF EarnedInv, TypeOK
    <3> QED
      BY <1>1, <3>1 DEF t
  <2>2. CASE w # u
    <3>1. streak'[g][w] = streak[g][w] /\ everDone'[g][w] = everDone[g][w]
      BY <1>4, <1>6, <2>2 DEF EarnedInv, TypeOK
    <3> QED
      BY <3>1 DEF EarnedInv, AllEarned
  <2> QED
    BY <2>1, <2>2
<1> QED
  BY <1>11, <1>12 DEF EarnedInv

LEMMA RemoveReflectionEarned ==
    ASSUME EarnedInv, NEW r \in Reflections, RemoveReflection(r)
    PROVE  EarnedInv'
<1>1. event' \in [Goals -> [Users -> [Days -> EventRow]]]
  BY DEF EarnedInv, TypeOK, RemoveReflection, NoEvent, EventRow
<1>2. reflection' \in [Reflections -> ReflectionRow]
  BY DEF EarnedInv, TypeOK, RemoveReflection, Absent, ReflectionRow
<1>3. TypeOK'
  BY <1>1, <1>2 DEF EarnedInv, TypeOK, RemoveReflection, goalVars
<1>4. AllEarned'
  BY DEF EarnedInv, AllEarned, RemoveReflection
<1> QED
  BY <1>3, <1>4 DEF EarnedInv

LEMMA InsertGoalsEarned ==
    ASSUME EarnedInv, NEW u \in Users, NEW new \in SUBSET Goals,
           NEW types \in [new -> CreateTypes], NEW values \in [new -> FreqValues],
           InsertGoals(u, types, values)
    PROVE  EarnedInv'
<1>1. \A g \in new : types[g] \in FreqTypes /\ values[g] \in FreqValues
  BY RowAssumption DEF FreqTypes
<1>2. DOMAIN types = new
  OBVIOUS
<1>3. TypeOK'
  BY <1>1, <1>2 DEF EarnedInv, TypeOK, InsertGoals, checkInVars, Statuses
<1>4. AllEarned'
  BY DEF EarnedInv, AllEarned, InsertGoals, checkInVars
<1> QED
  BY <1>3, <1>4 DEF EarnedInv

LEMMA CreateGoalEarned ==
    ASSUME EarnedInv, NEW u \in Users, NEW g \in Goals, NEW t \in CreateTypes,
           NEW v \in FreqValues, CreateGoal(u, g, t, v)
    PROVE  EarnedInv'
<1> DEFINE types  == [h \in {g} |-> t]
           values == [h \in {g} |-> v]
<1>1. {g} \in SUBSET Goals /\ types \in [{g} -> CreateTypes] /\ values \in [{g} -> FreqValues]
  OBVIOUS
<1>2. InsertGoals(u, types, values)
  BY DEF CreateGoal
<1> QED
  BY <1>1, <1>2, InsertGoalsEarned

LEMMA UpdateGoalEarned ==
    ASSUME EarnedInv, NEW u \in Users, NEW g \in Goals, NEW st \in PatchStatuses,
           NEW t \in PatchTypes, NEW v \in FreqValues \cup {Unset, NoValue},
           UpdateGoal(u, g, st, t, v)
    PROVE  EarnedInv'
<1> DEFINE stored == CASE t = "unset" -> ftype[g]
                       [] t = "null"  -> "other"
                       [] OTHER       -> t
<1>1. stored \in FreqTypes
  BY RowAssumption DEF FreqTypes, EarnedInv, TypeOK
<1>2. StoredValue(g, v) \in FreqValues \cup {NoValue}
  BY DEF StoredValue, EarnedInv, TypeOK
<1>3. (IF st = "unset" THEN status[g] ELSE st) \in Statuses
  BY RowAssumption DEF Statuses, EarnedInv, TypeOK
<1>4. /\ status' = [status EXCEPT ![g] = IF st = "unset" THEN @ ELSE st]
      /\ ftype' = [ftype EXCEPT ![g] = stored]
      /\ fvalue' = [fvalue EXCEPT ![g] = StoredValue(g, v)]
      /\ everTypes' = [everTypes EXCEPT ![g] = @ \cup {stored}]
      /\ UNCHANGED <<today, members, creator, event, streak, reflection, everDone>>
  BY DEF UpdateGoal, checkInVars
<1> HIDE DEF stored
<1>5. TypeOK'
  BY <1>1, <1>2, <1>3, <1>4 DEF EarnedInv, TypeOK
<1>6. AllEarned'
  BY <1>4 DEF EarnedInv, AllEarned
<1> QED
  BY <1>5, <1>6 DEF EarnedInv

LEMMA DeleteGoalEarned ==
    ASSUME EarnedInv, NEW g \in Goals, DeleteGoal(g)
    PROVE  EarnedInv'
<1>1. NoEvent \in EventRow
  BY DEF NoEvent, EventRow
<1>2. NewStreak \in StreakRow /\ Earned(NewStreak, {})
  BY EarnedNew
<1>3. reflection' \in [Reflections -> ReflectionRow]
  BY DEF EarnedInv, TypeOK, DeleteGoal, ReflectionRow
<1>4. /\ event' \in [Goals -> [Users -> [Days -> EventRow]]]
      /\ streak' \in [Goals -> [Users -> StreakRow]]
      /\ everDone' \in [Goals -> [Users -> SUBSET Days]]
  BY <1>1, <1>2 DEF EarnedInv, TypeOK, DeleteGoal
<1>5. TypeOK'
  BY <1>3, <1>4 DEF EarnedInv, TypeOK, DeleteGoal, Statuses, FreqTypes
<1>6. AllEarned'
  <2> SUFFICES ASSUME NEW h \in Goals, NEW w \in Users
               PROVE  Earned(streak'[h][w], everDone'[h][w])
    BY DEF AllEarned
  <2>1. CASE h = g
    <3>1. streak'[h][w] = NewStreak /\ everDone'[h][w] = {}
      BY <2>1 DEF EarnedInv, TypeOK, DeleteGoal
    <3> QED
      BY <1>2, <3>1
  <2>2. CASE h # g
    <3>1. streak'[h][w] = streak[h][w] /\ everDone'[h][w] = everDone[h][w]
      BY <2>2 DEF EarnedInv, TypeOK, DeleteGoal
    <3> QED
      BY <3>1 DEF EarnedInv, AllEarned
  <2> QED
    BY <2>1, <2>2
<1> QED
  BY <1>5, <1>6 DEF EarnedInv

LEMMA ReconcileEarned ==
    ASSUME EarnedInv, ReconcileDaily \/ ReconcileWeekly
    PROVE  EarnedInv'
<1>1. \A g \in Goals, u \in Users :
          streak'[g][u] \in {streak[g][u], Reset(streak[g][u])}
  BY DEF ReconcileDaily, ReconcileWeekly, ResetWhere, EarnedInv, TypeOK
<1>2. /\ streak' = [g \in Goals |-> [u \in Users |-> streak'[g][u]]]
      /\ UNCHANGED <<today, members, goalVars, event, reflection, everDone>>
  BY DEF ReconcileDaily, ReconcileWeekly, ResetWhere
<1>3. ASSUME NEW g \in Goals, NEW u \in Users
      PROVE  streak'[g][u] \in StreakRow /\ Earned(streak'[g][u], everDone[g][u])
  <2>1. /\ streak[g][u] \in StreakRow
        /\ everDone[g][u] \in SUBSET Days
        /\ Earned(streak[g][u], everDone[g][u])
    BY DEF EarnedInv, TypeOK, AllEarned
  <2> QED
    BY <1>1, <2>1, EarnedReset
<1>4. TypeOK'
  BY <1>2, <1>3 DEF EarnedInv, TypeOK, goalVars
<1>5. AllEarned'
  BY <1>2, <1>3 DEF AllEarned
<1> QED
  BY <1>4, <1>5 DEF EarnedInv

LEMMA EarnedStep == EarnedInv /\ [Next]_vars => EarnedInv'
<1> SUFFICES ASSUME EarnedInv, [Next]_vars PROVE EarnedInv'
  OBVIOUS
<1>1. CASE \E u \in Users, r \in Reflections, d \in Days, payload \in [Goals -> Flags] :
              AddReflection(u, r, d, payload)
  BY <1>1, AddReflectionEarned
<1>2. CASE \/ \E u \in Users, r \in Reflections : DeleteReflection(u, r)
           \/ \E r \in Reflections : ModerateReflection(r) \/ DeleteCheckin(r)
  BY <1>2, RemoveReflectionEarned DEF DeleteReflection, ModerateReflection, DeleteCheckin
<1>3. CASE \E u \in Users, g \in Goals, t \in CreateTypes, v \in FreqValues :
              CreateGoal(u, g, t, v)
  BY <1>3, CreateGoalEarned
<1>4. CASE \E u \in Users, new \in SUBSET Goals :
              \E types \in [new -> CreateTypes], values \in [new -> FreqValues] :
                  CreateGoalsBatch(u, types, values)
  BY <1>4, InsertGoalsEarned DEF CreateGoalsBatch
<1>5. CASE \E u \in Users, g \in Goals, st \in PatchStatuses, t \in PatchTypes,
               v \in FreqValues \cup {Unset, NoValue} : UpdateGoal(u, g, st, t, v)
  BY <1>5, UpdateGoalEarned
<1>6. CASE \E g \in Goals : DeleteGoal(g) \/ AdminDeleteGoal(g)
  BY <1>6, DeleteGoalEarned DEF AdminDeleteGoal
<1>7. CASE ReconcileDaily \/ ReconcileWeekly
  BY <1>7, ReconcileEarned
<1>8. CASE NextDay
  <2>1. TypeOK'
    BY <1>8, CalendarAssumption DEF NextDay, EarnedInv, TypeOK, Days, goalVars, checkInVars
  <2>2. AllEarned'
    BY <1>8 DEF NextDay, EarnedInv, AllEarned, checkInVars
  <2> QED
    BY <2>1, <2>2 DEF EarnedInv
<1>9. CASE \E u \in Movers : SetMembership(u)
  <2>1. TypeOK'
    BY <1>9, RowAssumption DEF SetMembership, EarnedInv, TypeOK, goalVars, checkInVars
  <2>2. AllEarned'
    BY <1>9 DEF SetMembership, EarnedInv, AllEarned, checkInVars
  <2> QED
    BY <2>1, <2>2 DEF EarnedInv
<1>10. CASE UNCHANGED vars
  BY <1>10 DEF vars, goalVars, checkInVars, EarnedInv, TypeOK, AllEarned
<1> QED
  BY <1>1, <1>2, <1>3, <1>4, <1>5, <1>6, <1>7, <1>8, <1>9, <1>10 DEF Next

LEMMA EarnedAlways == Spec => []EarnedInv
BY EarnedInit, EarnedStep, PTL DEF Spec

\* Rows keep their types: no request, whatever it carries, and no job stores a
\* value outside the columns of its table.
THEOREM TypeCorrect == Spec => []TypeOK
<1>1. EarnedInv => TypeOK
  BY DEF EarnedInv
<1> QED
  BY <1>1, EarnedAlways, PTL

\* update_goal_streak and the reconciliation jobs keep every streak earned.
THEOREM StreaksEarned == Spec => []StreakEarned
<1>1. EarnedInv => StreakEarned
  BY DEF EarnedInv, AllEarned, Earned, Before, StreakEarned
<1> QED
  BY <1>1, EarnedAlways, PTL

\* longest_streak covers current_streak and is earned.
THEOREM LongestAlwaysCovers == Spec => []LongestCovers
<1>1. EarnedInv => LongestCovers
  BY DEF EarnedInv, AllEarned, Earned, LongestCovers
<1> QED
  BY <1>1, EarnedAlways, PTL

-----------------------------------------------------------------------------
(* Runs without a gap *)

\* The days a daily streak counts, and the weeks a weekly one does, back from
\* the last one.
DayRun(s, E) == \A k \in 0 .. s.cur - 1 : s.last - k \in E

WeekRun(s, E) == \A k \in 0 .. s.cur - 1 : \E x \in E :
    IsoWeek(x) = [IsoWeek(s.last) EXCEPT !.week = @ - k]

RunTypes == {"daily", "weekly"}

Run(type, s, E) == IF type = "daily" THEN DayRun(s, E) ELSE WeekRun(s, E)

\* everTypes says which types the streak may have been counted under.
Typed == \A g \in Goals :
    /\ status[g] # "absent" => ftype[g] \in everTypes[g]
    /\ status[g] = "absent" => everTypes[g] = {} /\ \A u \in Users : streak[g][u].cur = 0

Runs == \A g \in Goals, u \in Users, type \in RunTypes :
    everTypes[g] = {type} => Run(type, streak[g][u], everDone[g][u])

RunInv == EarnedInv /\ Typed /\ Runs

LEMMA RunGrows ==
    ASSUME NEW type, NEW s, NEW E, NEW F, E \subseteq F, Run(type, s, E)
    PROVE  Run(type, s, F)
BY DEF Run, DayRun, WeekRun

LEMMA RunStops == \A type, s, E : s.cur = 0 => DayRun(s, E) /\ Run(type, s, E)
BY DEF Run, DayRun, WeekRun

\* A completion on the day after the last one extends the run by that day, any
\* other starts a run of one day.
LEMMA DailyStreakRun ==
    ASSUME NEW s \in StreakRow, NEW d \in Days, NEW done \in BOOLEAN, NEW E \in SUBSET Days,
           DayRun(s, E), done => d \in E
    PROVE  DayRun(DailyStreak(s, d, done), E)
<1>1. s.cur \in Nat /\ d \in Int /\ (s.last \in Int)
  BY DEF StreakRow, Days, NoDate
<1>2. CASE s.last = d
  BY <1>2 DEF DailyStreak
<1>3. CASE s.last # d /\ done
  <2>1. DailyStreak(s, d, done) = Extend(s, d, FollowsDay(s.last, d))
    BY <1>3 DEF DailyStreak
  <2>2. CASE FollowsDay(s.last, d)
    <3> DEFINE t == DailyStreak(s, d, done)
    <3>1. t.cur = s.cur + 1 /\ t.last = d /\ s.last = d - 1
      BY <2>1, <2>2 DEF Extend, FollowsDay
    <3> HIDE DEF t
    <3>2. ASSUME NEW k \in 0 .. t.cur - 1, k # 0
          PROVE  t.last - k \in E
      <4>1. k - 1 \in 0 .. s.cur - 1 /\ t.last - k = s.last - (k - 1)
        BY <1>1, <3>1, <3>2
      <4> QED
        BY <4>1 DEF DayRun
    <3>3. t.last - 0 \in E
      BY <1>1, <1>3, <3>1
    <3>4. DayRun(t, E)
      BY <3>2, <3>3 DEF DayRun
    <3> QED
      BY <3>4 DEF t
  <2>3. CASE ~FollowsDay(s.last, d)
    <3>1. DailyStreak(s, d, done).cur = 1 /\ DailyStreak(s, d, done).last = d
      BY <2>1, <2>3 DEF Extend
    <3>2. d - 0 \in E
      BY <1>1, <1>3
    <3> QED
      BY <3>1, <3>2 DEF DayRun
  <2> QED
    BY <2>2, <2>3
<1>4. CASE s.last # d /\ ~done
  <2>1. DailyStreak(s, d, done) \in {s, [s EXCEPT !.cur = 0]}
    BY <1>4 DEF DailyStreak
  <2>2. [s EXCEPT !.cur = 0].cur = 0
    BY DEF StreakRow
  <2> QED
    BY <2>1, <2>2, RunStops
<1> QED
  BY <1>2, <1>3, <1>4

LEMMA IsoWeekType == \A d \in Days : IsoWeek(d) \in [year : Int, week : Int]
BY CalendarAssumption, WeekType DEF IsoWeek

\* A completion in a later week of the same ISO year extends the run by that
\* week if it is the next one, a second one in a week changes nothing, and any
\* other starts a run of one week.
LEMMA WeeklyStreakRun ==
    ASSUME NEW s \in StreakRow, NEW d \in Days, NEW done \in BOOLEAN, NEW E \in SUBSET Days,
           WeekRun(s, E), done => d \in E
    PROVE  WeekRun(WeeklyStreak(s, d, done), E)
<1>1. s.cur \in Nat /\ s.last \in Days \cup {NoDate}
  BY DEF StreakRow
<1>2. IsoWeek(d) \in [year : Int, week : Int]
  BY IsoWeekType
<1>3. \E x \in {d} : IsoWeek(x) = [IsoWeek(d) EXCEPT !.week = @ - 0]
  BY <1>2
<1>4. CASE ~done \/ SameWeek(s.last, d)
  BY <1>4 DEF WeeklyStreak
<1>5. CASE done /\ ~SameWeek(s.last, d)
  <2> DEFINE t == WeeklyStreak(s, d, done)
  <2>1. t = Extend(s, d, FollowsWeek(s.last, d))
    BY <1>5 DEF WeeklyStreak
  <2>2. CASE FollowsWeek(s.last, d)
    <3>1. t.cur = s.cur + 1 /\ t.last = d
      BY <2>1, <2>2 DEF Extend
    <3> HIDE DEF t
    <3>2. s.last \in Days
      BY <1>1, <2>2 DEF FollowsWeek
    <3>3. IsoWeek(s.last) \in [year : Int, week : Int]
      BY <3>2, IsoWeekType
    <3>4. /\ IsoWeek(d).year = IsoWeek(s.last).year
          /\ IsoWeek(d).week = IsoWeek(s.last).week + 1
      BY <2>2 DEF FollowsWeek
    <3>5. ASSUME NEW k \in 0 .. t.cur - 1, k # 0
          PROVE  \E x \in E : IsoWeek(x) = [IsoWeek(t.last) EXCEPT !.week = @ - k]
      <4>1. k - 1 \in 0 .. s.cur - 1
        BY <1>1, <3>1, <3>5
      <4>2. PICK x \in E : IsoWeek(x) = [IsoWeek(s.last) EXCEPT !.week = @ - (k - 1)]
        BY <4>1 DEF WeekRun
      <4>3. [IsoWeek(s.last) EXCEPT !.week = @ - (k - 1)] = [IsoWeek(d) EXCEPT !.week = @ - k]
        BY <1>2, <3>3, <3>4
      <4> QED
        BY <3>1, <4>2, <4>3
    <3>6. WeekRun(t, E)
      BY <1>3, <1>5, <3>1, <3>5 DEF WeekRun
    <3> QED
      BY <3>6 DEF t
  <2>3. CASE ~FollowsWeek(s.last, d)
    <3>1. t.cur = 1 /\ t.last = d
      BY <2>1, <2>3 DEF Extend
    <3> HIDE DEF t
    <3>2. WeekRun(t, E)
      BY <1>3, <1>5, <3>1 DEF WeekRun
    <3> QED
      BY <3>2 DEF t
  <2> QED
    BY <2>2, <2>3
<1> QED
  BY <1>4, <1>5

LEMMA UpdateStreakRun ==
    ASSUME NEW type \in RunTypes, NEW s \in StreakRow, NEW d \in Days, NEW done \in BOOLEAN,
           NEW E \in SUBSET Days, Run(type, s, E), done => d \in E
    PROVE  Run(type, UpdateStreak(type, s, d, done), E)
<1>1. CASE type = "daily"
  BY <1>1, DailyStreakRun DEF Run, UpdateStreak
<1>2. CASE type = "weekly"
  BY <1>2, WeeklyStreakRun DEF Run, UpdateStreak
<1> QED
  BY <1>1, <1>2 DEF RunTypes

LEMMA EntryRun ==
    ASSUME NEW type \in RunTypes, NEW c \in CellRow, NEW r \in Reflections, NEW d \in Days, NEW done \in BOOLEAN,
           NEW E \in SUBSET Days, Run(type, c.streak, Dates(E, c, d))
    PROVE  LET t == CheckInEntry(c, type, r, d, done)
           IN  Run(type, t.streak, Dates(E, t, d))
<1> DEFINE t == CheckInEntry(c, type, r, d, done)
<1>1. CASE AlreadyDone(c.event)
  BY <1>1 DEF CheckInEntry
<1>2. CASE ~AlreadyDone(c.event)
  <2>1. /\ t.streak = UpdateStreak(type, c.streak, d, done)
        /\ t.event = [mark |-> IF done THEN "yes" ELSE "no", by |-> r]
    BY <1>2 DEF CheckInEntry
  <2>2. Dates(E, c, d) = E /\ Dates(E, t, d) = IF done THEN E \cup {d} ELSE E
    BY <1>2, <2>1 DEF Dates, AlreadyDone
  <2>3. /\ Dates(E, t, d) \in SUBSET Days
        /\ Run(type, c.streak, Dates(E, t, d))
        /\ done => d \in Dates(E, t, d)
    BY <2>2, RunGrows
  <2>4. c.streak \in StreakRow
    BY DEF CellRow
  <2> HIDE DEF t
  <2> QED
    BY <2>1, <2>3, <2>4, UpdateStreakRun DEF t
<1> QED
  BY <1>1, <1>2

LEMMA EntriesRun ==
    ASSUME NEW type \in RunTypes, NEW c \in CellRow, NEW r \in Reflections, NEW d \in Days,
           NEW flags \in Flags, NEW E \in SUBSET Days, Run(type, c.streak, Dates(E, c, d))
    PROVE  Run(type, CheckInEntries(c, type, r, d, flags).streak,
               Dates(E, CheckInEntries(c, type, r, d, flags), d))
<1>1. ASSUME NEW a \in BOOLEAN
      PROVE  LET t == CheckInEntry(c, type, r, d, a)
             IN  t \in CellRow /\ Run(type, t.streak, Dates(E, t, d))
  BY EntryType, EntryRun
<1>2. ASSUME NEW a \in BOOLEAN, NEW b \in BOOLEAN
      PROVE  LET t == CheckInEntry(CheckInEntry(c, type, r, d, a), type, r, d, b)
             IN  Run(type, t.streak, Dates(E, t, d))
  <2> DEFINE f == CheckInEntry(c, type, r, d, a)
  <2>1. f \in CellRow /\ Run(type, f.streak, Dates(E, f, d))
    BY <1>1
  <2> HIDE DEF f
  <2>2. LET t == CheckInEntry(f, type, r, d, b)
        IN  Run(type, t.streak, Dates(E, t, d))
    BY <2>1, EntryRun
  <2> QED
    BY <2>2 DEF f
<1> QED
  BY <1>1, <1>2, EntriesCases

-----------------------------------------------------------------------------
(* The invariant and its steps *)

LEMMA RunInit == Init => RunInv
<1> SUFFICES ASSUME Init PROVE RunInv
  OBVIOUS
<1>1. NewStreak.cur = 0
  BY DEF NewStreak
<1>2. Typed /\ Runs
  BY <1>1 DEF Init, Typed, Runs
<1> QED
  BY <1>2, EarnedInit DEF RunInv

\* A goal that is not there is left out of the payload, and so are its rows.
LEMMA AddReflectionRuns ==
    ASSUME RunInv, NEW u \in Users, NEW r \in Reflections, NEW d \in Days,
           NEW payload \in [Goals -> Flags], AddReflection(u, r, d, payload)
    PROVE  Typed' /\ Runs'
<1> DEFINE t(g) == Cell(g, u, r, d, payload[g])
<1>1. EarnedInv
  BY DEF RunInv
<1>2. event' = [g \in Goals |-> [event[g] EXCEPT ![u][d] = t(g).event]]
  BY DEF AddReflection
<1>3. streak' = [g \in Goals |-> [streak[g] EXCEPT ![u] = t(g).streak]]
  BY DEF AddReflection
<1>4. \A g \in Goals : event'[g][u][d] = t(g).event
  BY <1>1, <1>2 DEF EarnedInv, TypeOK
<1>5. everDone' = [g \in Goals |-> [everDone[g] EXCEPT ![u] = Dates(@, t(g), d)]]
  BY <1>4 DEF AddReflection, Dates
<1>6. \A g \in Goals : status[g] = "absent" => t(g).streak = streak[g][u]
  BY DEF AddReflection, Accepted, Cell, CheckInEntries
<1>7. ASSUME NEW g \in Goals, NEW type \in RunTypes, everTypes[g] = {type}
      PROVE  Run(type, t(g).streak, Dates(everDone[g][u], t(g), d))
  <2> DEFINE c == [event |-> event[g][u][d], streak |-> streak[g][u], said |-> {}]
             E == everDone[g][u]
  <2>1. ftype[g] = type
    BY <1>7 DEF RunInv, Typed
  <2>2. streak[g][u] \in StreakRow /\ event[g][u][d] \in EventRow /\ E \in SUBSET Days
    BY <1>1 DEF EarnedInv, TypeOK
  <2>3. c \in CellRow /\ c.streak = streak[g][u]
    BY <2>2 DEF CellRow
  <2>4. Run(type, streak[g][u], E) /\ E \subseteq Dates(E, c, d)
    BY <1>7 DEF RunInv, Runs, Dates
  <2>5. Run(type, c.streak, Dates(E, c, d))
    BY <2>3, <2>4, RunGrows
  <2>6. t(g) = CheckInEntries(c, type, r, d, payload[g])
    BY <2>1 DEF Cell
  <2>7. payload[g] \in Flags
    OBVIOUS
  <2> HIDE DEF c, E, t
  <2> QED
    BY <2>2, <2>3, <2>5, <2>6, <2>7, EntriesRun DEF E
<1> HIDE DEF t
<1>8. UNCHANGED <<status, ftype, everTypes>>
  BY DEF AddReflection, goalVars
<1>9. Typed'
  BY <1>1, <1>3, <1>6, <1>8 DEF RunInv, EarnedInv, TypeOK, Typed
<1>10. Runs'
  <2> SUFFICES ASSUME NEW g \in Goals, NEW w \in Users, NEW type \in RunTypes,
                      everTypes[g] = {type}
               PROVE  Run(type, streak'[g][w], everDone'[g][w])
    BY <1>8 DEF Runs
  <2>1. CASE w = u
    <3>1. streak'[g][w] = t(g).streak /\ everDone'[g][w] = Dates(everDone[g][u], t(g), d)
      BY <1>1, <1>3, <1>5, <2>1 DEF EarnedInv, TypeOK
    <3> QED
      BY <1>7, <3>1
  <2>2. CASE w # u
    <3>1. streak'[g][w] = streak[g][w] /\ everDone'[g][w] = everDone[g][w]
      BY <1>1, <1>3, <1>5, <2>2 DEF EarnedInv, TypeOK
    <3> QED
      BY <3>1 DEF RunInv, Runs
  <2> QED
    BY <2>1, <2>2
<1> QED
  BY <1>9, <1>10

LEMMA InsertGoalsRuns ==
    ASSUME RunInv, NEW u, NEW new \in SUBSET Goals, NEW types, NEW values,
           DOMAIN types = new, InsertGoals(u, types, values)
    PROVE  Typed' /\ Runs'
<1>1. /\ \A g \in new : status[g] = "absent"
      /\ status' = [g \in Goals |-> IF g \in new THEN "active" ELSE status[g]]
      /\ ftype' = [g \in Goals |-> IF g \in new THEN types[g] ELSE ftype[g]]
      /\ everTypes' = [g \in Goals |-> IF g \in new THEN {types[g]} ELSE everTypes[g]]
      /\ streak' = streak /\ everDone' = everDone
  BY DEF InsertGoals, checkInVars
<1>2. Typed'
  BY <1>1 DEF RunInv, Typed
<1>3. Runs'
  <2> SUFFICES ASSUME NEW g \in Goals, NEW w \in Users, NEW type \in RunTypes,
                      everTypes'[g] = {type}
               PROVE  Run(type, streak[g][w], everDone[g][w])
    BY <1>1 DEF Runs
  <2>1. CASE g \in new
    BY <1>1, <2>1, RunStops DEF RunInv, Typed
  <2>2. CASE g \notin new
    BY <1>1, <2>2 DEF RunInv, Runs
  <2> QED
    BY <2>1, <2>2
<1> QED
  BY <1>2, <1>3

LEMMA UpdateGoalRuns ==
    ASSUME RunInv, NEW u, NEW g \in Goals, NEW st \in PatchStatuses, NEW t, NEW v,
           UpdateGoal(u, g, st, t, v)
    PROVE  Typed' /\ Runs'
<1>1. PICK stored : /\ ftype' = [ftype EXCEPT ![g] = stored]
                    /\ everTypes' = [everTypes EXCEPT ![g] = @ \cup {stored}]
  BY DEF UpdateGoal
<1>2. /\ status[g] # "absent"
      /\ status' = [status EXCEPT ![g] = IF st = "unset" THEN @ ELSE st]
      /\ streak' = streak /\ everDone' = everDone
  BY DEF UpdateGoal, checkInVars
<1>3. st # "absent"
  BY RowAssumption
<1>4. /\ status \in [Goals -> Statuses] /\ ftype \in [Goals -> FreqTypes]
      /\ everTypes \in [Goals -> SUBSET FreqTypes]
  BY DEF RunInv, EarnedInv, TypeOK
<1>5. Typed'
  BY <1>1, <1>2, <1>3, <1>4 DEF RunInv, Typed
<1>6. ASSUME NEW h \in Goals, NEW type \in RunTypes, everTypes'[h] = {type}
      PROVE  everTypes[h] = {type}
  <2>1. CASE h = g
    <3>1. everTypes[g] \cup {stored} = {type}
      BY <1>1, <1>4, <1>6, <2>1
    <3>2. everTypes[g] # {}
      BY <1>2 DEF RunInv, Typed
    <3> QED
      BY <2>1, <3>1, <3>2
  <2>2. CASE h # g
    BY <1>1, <1>4, <1>6, <2>2
  <2> QED
    BY <2>1, <2>2
<1>7. Runs'
  BY <1>2, <1>6 DEF RunInv, Runs
<1> QED
  BY <1>5, <1>7

LEMMA DeleteGoalRuns ==
    ASSUME RunInv, NEW g \in Goals, DeleteGoal(g)
    PROVE  Typed' /\ Runs'
<1>1. /\ status' = [status EXCEPT ![g] = "absent"]
      /\ ftype' = [ftype EXCEPT ![g] = "other"]
      /\ everTypes' = [everTypes EXCEPT ![g] = {}]
      /\ streak' = [streak EXCEPT ![g] = [u \in Users |-> NewStreak]]
      /\ everDone' = [everDone EXCEPT ![g] = [u \in Users |-> {}]]
  BY DEF DeleteGoal
<1>2. EarnedInv /\ NewStreak.cur = 0
  BY DEF RunInv, NewStreak
<1>3. \A h \in Goals : h # g => /\ status'[h] = status[h] /\ ftype'[h] = ftype[h]
                                /\ everTypes'[h] = everTypes[h]
                                /\ streak'[h] = streak[h] /\ everDone'[h] = everDone[h]
  BY <1>1, <1>2 DEF EarnedInv, TypeOK
<1>4. /\ status'[g] = "absent" /\ everTypes'[g] = {}
      /\ \A u \in Users : streak'[g][u].cur = 0
  BY <1>1, <1>2 DEF EarnedInv, TypeOK
<1>5. Typed'
  BY <1>3, <1>4 DEF RunInv, Typed
<1>6. Runs'
  BY <1>3, <1>4 DEF RunInv, Runs
<1> QED
  BY <1>5, <1>6

LEMMA ReconcileRuns ==
    ASSUME RunInv, ReconcileDaily \/ ReconcileWeekly
    PROVE  Typed' /\ Runs'
<1>1. \A g \in Goals, u \in Users :
          streak'[g][u] = streak[g][u] \/ streak'[g][u].cur = 0
  BY DEF ReconcileDaily, ReconcileWeekly, ResetWhere, Reset
<1>2. UNCHANGED <<status, ftype, everTypes, everDone>>
  BY DEF ReconcileDaily, ReconcileWeekly, ResetWhere, goalVars
<1>3. Typed'
  BY <1>1, <1>2 DEF RunInv, Typed
<1>4. Runs'
  <2> SUFFICES ASSUME NEW g \in Goals, NEW u \in Users, NEW type \in RunTypes,
                      everTypes[g] = {type}
               PROVE  Run(type, streak'[g][u], everDone[g][u])
    BY <1>2 DEF Runs
  <2>1. Run(type, streak[g][u], everDone[g][u])
    BY DEF RunInv, Runs
  <2> QED
    BY <1>1, <2>1, RunStops
<1> QED
  BY <1>3, <1>4

LEMMA RunStep == RunInv /\ [Next]_vars => RunInv'
<1> SUFFICES ASSUME RunInv, [Next]_vars PROVE RunInv'
  OBVIOUS
<1> SUFFICES Typed' /\ Runs'
  BY EarnedStep DEF RunInv
<1>1. CASE \E u \in Users, r \in Reflections, d \in Days, payload \in [Goals -> Flags] :
              AddReflection(u, r, d, payload)
  BY <1>1, AddReflectionRuns
<1>2. CASE \E u \in Users, g \in Goals, t \in CreateTypes, v \in FreqValues :
              CreateGoal(u, g, t, v)
  <2>1. PICK u \in Users, g \in Goals, t \in CreateTypes, v \in FreqValues :
            CreateGoal(u, g, t, v)
    BY <1>2
  <2> DEFINE types  == [h \in {g} |-> t]
             values == [h \in {g} |-> v]
  <2>2. {g} \in SUBSET Goals /\ DOMAIN types = {g}
    OBVIOUS
  <2>3. InsertGoals(u, types, values)
    BY <2>1 DEF CreateGoal
  <2> HIDE DEF types, values
  <2> QED
    BY <2>2, <2>3, InsertGoalsRuns
<1>3. CASE \E u \in Users, new \in SUBSET Goals :
              \E types \in [new -> CreateTypes], values \in [new -> FreqValues] :
                  CreateGoalsBatch(u, types, values)
  BY <1>3, InsertGoalsRuns DEF CreateGoalsBatch
<1>4. CASE \E u \in Users, g \in Goals, st \in PatchStatuses, t \in PatchTypes,
              v \in FreqValues \cup {Unset, NoValue} : UpdateGoal(u, g, st, t, v)
  BY <1>4, UpdateGoalRuns
<1>5. CASE \E g \in Goals : DeleteGoal(g) \/ AdminDeleteGoal(g)
  BY <1>5, DeleteGoalRuns DEF AdminDeleteGoal
<1>6. CASE ReconcileDaily \/ ReconcileWeekly
  BY <1>6, ReconcileRuns
<1>7. CASE \/ \E u \in Users, r \in Reflections : DeleteReflection(u, r)
           \/ \E r \in Reflections : ModerateReflection(r) \/ DeleteCheckin(r)
           \/ NextDay
           \/ \E u \in Movers : SetMembership(u)
           \/ UNCHANGED vars
  <2>1. UNCHANGED <<status, ftype, everTypes, streak, everDone>>
    BY <1>7 DEF DeleteReflection, ModerateReflection, DeleteCheckin, RemoveReflection,
                NextDay, SetMembership, vars, goalVars, checkInVars
  <2> QED
    BY <2>1 DEF RunInv, Typed, Runs
<1> QED
  BY <1>1, <1>2, <1>3, <1>4, <1>5, <1>6, <1>7 DEF Next

LEMMA RunAlways == Spec => []RunInv
BY RunInit, RunStep, PTL DEF Spec

\* A daily streak is a run of days, whatever is deleted, backfilled, paused or
\* reset on the way.
THEOREM DailyRunsUnbroken == Spec => []DailyRun
<1>1. RunInv => DailyRun
  BY DEF RunInv, Runs, Run, RunTypes, DayRun, DailyRun
<1> QED
  BY <1>1, RunAlways, PTL

\* A weekly streak is a run of ISO weeks within one ISO year.
THEOREM WeeklyRunsUnbroken == Spec => []WeeklyRun
<1>1. RunInv => WeeklyRun
  BY DEF RunInv, Runs, Run, RunTypes, WeekRun, WeeklyRun
<1> QED
  BY <1>1, RunAlways, PTL

-----------------------------------------------------------------------------
(* What a step may not do to a streak *)

LEMMA UpdateStreakLonger ==
    ASSUME NEW type, NEW s \in StreakRow, NEW d \in Days, NEW done \in BOOLEAN
    PROVE  UpdateStreak(type, s, d, done).longest >= s.longest
<1> DEFINE t == UpdateStreak(type, s, d, done)
<1>1. s.longest \in Nat /\ [s EXCEPT !.cur = 0].longest = s.longest
  BY DEF StreakRow
<1>2. ASSUME NEW linked \in BOOLEAN
      PROVE  Extend(s, d, linked).longest >= s.longest
  BY DEF Extend, Larger, StreakRow
<1>3. \/ t = s \/ t = [s EXCEPT !.cur = 0]
      \/ \E linked \in BOOLEAN : t = Extend(s, d, linked)
  BY UpdateStreakCases
<1> HIDE DEF t
<1>4. t = [s EXCEPT !.cur = 0] => t.longest = s.longest
  BY <1>1
<1>5. (\E linked \in BOOLEAN : t = Extend(s, d, linked)) => t.longest >= s.longest
  BY <1>2
<1>6. t.longest >= s.longest
  BY <1>1, <1>3, <1>4, <1>5
<1> QED
  BY <1>6 DEF t

LEMMA EntryLonger ==
    ASSUME NEW c \in CellRow, NEW type, NEW r, NEW d \in Days, NEW done \in BOOLEAN
    PROVE  CheckInEntry(c, type, r, d, done).streak.longest >= c.streak.longest
<1>1. c.streak \in StreakRow
  BY DEF CellRow
<1>2. c.streak.longest \in Nat
  BY <1>1 DEF StreakRow
<1>3. CheckInEntry(c, type, r, d, done).streak
          \in {c.streak, UpdateStreak(type, c.streak, d, done)}
  BY DEF CheckInEntry
<1> QED
  BY <1>1, <1>2, <1>3, UpdateStreakLonger

LEMMA EntriesLonger ==
    ASSUME NEW c \in CellRow, NEW type, NEW r \in Reflections, NEW d \in Days,
           NEW flags \in Flags
    PROVE  CheckInEntries(c, type, r, d, flags).streak.longest >= c.streak.longest
<1>1. \A x \in CellRow : x.streak.longest \in Nat
  BY DEF CellRow, StreakRow
<1>2. ASSUME NEW a \in BOOLEAN
      PROVE  LET t == CheckInEntry(c, type, r, d, a)
             IN  t \in CellRow /\ t.streak.longest >= c.streak.longest
  BY EntryType, EntryLonger
<1>3. ASSUME NEW a \in BOOLEAN, NEW b \in BOOLEAN
      PROVE  LET t == CheckInEntry(CheckInEntry(c, type, r, d, a), type, r, d, b)
             IN  t.streak.longest >= c.streak.longest
  <2> DEFINE f == CheckInEntry(c, type, r, d, a)
             t == CheckInEntry(f, type, r, d, b)
  <2>1. f \in CellRow /\ f.streak.longest >= c.streak.longest
    BY <1>2
  <2> HIDE DEF f
  <2>2. t \in CellRow /\ t.streak.longest >= f.streak.longest
    BY <2>1, EntryType, EntryLonger
  <2> HIDE DEF t
  <2>3. t.streak.longest >= c.streak.longest
    BY <1>1, <2>1, <2>2
  <2> QED
    BY <2>3 DEF t, f
<1> QED
  BY <1>1, <1>2, <1>3, EntriesCases

\* LongestMonotone and ExtendableKept, as steps.
LongestStep == \A g \in Goals, u \in Users :
    status'[g] # "absent" => streak'[g][u].longest >= streak[g][u].longest

KeptStep == \A g \in Goals, u \in Users :
    /\ ftype[g] = "daily"
    /\ streak[g][u].last >= today - 2
    /\ streak'[g][u].cur < streak[g][u].cur
    => \/ status'[g] = "absent"
       \/ \E r \in Reflections : ~Exists(r) /\ reflection'[r].owner = u

LEMMA AddReflectionKeeps ==
    ASSUME EarnedInv, NEW u \in Users, NEW r \in Reflections, NEW d \in Days,
           NEW payload \in [Goals -> Flags], AddReflection(u, r, d, payload)
    PROVE  LongestStep /\ KeptStep
<1> DEFINE t(g) == Cell(g, u, r, d, payload[g])
<1>1. ASSUME NEW g \in Goals
      PROVE  t(g).streak.longest >= streak[g][u].longest
  <2> DEFINE c == [event |-> event[g][u][d], streak |-> streak[g][u], said |-> {}]
  <2>1. streak[g][u] \in StreakRow /\ event[g][u][d] \in EventRow
    BY DEF EarnedInv, TypeOK
  <2>2. c \in CellRow /\ c.streak = streak[g][u]
    BY <2>1 DEF CellRow
  <2>3. t(g) = CheckInEntries(c, ftype[g], r, d, payload[g]) /\ payload[g] \in Flags
    BY DEF Cell
  <2> HIDE DEF c, t
  <2> QED
    BY <2>2, <2>3, EntriesLonger
<1>2. streak' = [g \in Goals |-> [streak[g] EXCEPT ![u] = t(g).streak]]
  BY DEF AddReflection
<1> HIDE DEF t
<1>3. streak \in [Goals -> [Users -> StreakRow]]
  BY DEF EarnedInv, TypeOK
<1>4. \A g \in Goals : streak'[g][u] = t(g).streak
  BY <1>2, <1>3
<1>5. \A g \in Goals, w \in Users : w # u => streak'[g][w] = streak[g][w]
  BY <1>2, <1>3
<1>6. \A g \in Goals, w \in Users : streak[g][w].longest \in Nat /\ streak[g][w].cur \in Nat
  BY <1>3 DEF StreakRow
<1>7. LongestStep
  BY <1>1, <1>4, <1>5, <1>6 DEF LongestStep
<1>8. ~Exists(r) /\ reflection'[r].owner = u
  BY DEF AddReflection, EarnedInv, TypeOK
<1>9. KeptStep
  BY <1>5, <1>6, <1>8 DEF KeptStep
<1> QED
  BY <1>7, <1>9

\* A job resets no streak that a check-in for yesterday can extend, and leaves
\* longest_streak alone.
LEMMA ReconcileKeeps ==
    ASSUME EarnedInv, ReconcileDaily \/ ReconcileWeekly
    PROVE  LongestStep /\ KeptStep
<1>1. \A g \in Goals, u \in Users :
          /\ streak[g][u].longest \in Nat /\ streak[g][u].cur \in Nat
          /\ streak[g][u].last \in Int /\ today \in Int
  BY CalendarAssumption DEF EarnedInv, TypeOK, StreakRow, Days, NoDate
<1>2. \A g \in Goals, u \in Users :
          \/ streak'[g][u] = streak[g][u]
          \/ /\ streak'[g][u] = Reset(streak[g][u])
             /\ Lapsed(g, u) \/ MissedQuota(g, u)
  BY DEF ReconcileDaily, ReconcileWeekly, ResetWhere
<1>3. \A s : Reset(s).longest = s.longest
  BY DEF Reset
<1>4. LongestStep
  BY <1>1, <1>2, <1>3 DEF LongestStep
<1>5. ASSUME NEW g \in Goals, NEW u \in Users, ftype[g] = "daily",
             streak[g][u].last >= today - 2
      PROVE  ~(streak'[g][u].cur < streak[g][u].cur)
  <2>1. ~Lapsed(g, u)
    BY <1>1, <1>5 DEF Lapsed
  <2>2. ~MissedQuota(g, u)
    BY <1>5 DEF MissedQuota
  <2> QED
    BY <1>1, <1>2, <2>1, <2>2
<1>6. KeptStep
  BY <1>5 DEF KeptStep
<1> QED
  BY <1>4, <1>6

LEMMA KeepsStep == EarnedInv /\ [Next]_vars => LongestStep /\ KeptStep
<1> SUFFICES ASSUME EarnedInv, [Next]_vars PROVE LongestStep /\ KeptStep
  OBVIOUS
<1>1. CASE \E u \in Users, r \in Reflections, d \in Days, payload \in [Goals -> Flags] :
              AddReflection(u, r, d, payload)
  BY <1>1, AddReflectionKeeps
<1>2. CASE ReconcileDaily \/ ReconcileWeekly
  BY <1>2, ReconcileKeeps
<1>3. ASSUME NEW g \in Goals, DeleteGoal(g)
      PROVE  LongestStep /\ KeptStep
  <2>1. /\ status'[g] = "absent"
        /\ \A h \in Goals : h # g => streak'[h] = streak[h]
    BY <1>3 DEF DeleteGoal, EarnedInv, TypeOK
  <2>2. \A h \in Goals, u \in Users : streak[h][u].longest \in Nat /\ streak[h][u].cur \in Nat
    BY DEF EarnedInv, TypeOK, StreakRow
  <2> QED
    BY <2>1, <2>2 DEF LongestStep, KeptStep
<1>4. CASE streak' = streak
  <2>1. \A h \in Goals, u \in Users : streak[h][u].longest \in Nat /\ streak[h][u].cur \in Nat
    BY DEF EarnedInv, TypeOK, StreakRow
  <2> QED
    BY <1>4, <2>1 DEF LongestStep, KeptStep
<1>5. \/ \E u \in Users, r \in Reflections, d \in Days, payload \in [Goals -> Flags] :
             AddReflection(u, r, d, payload)
      \/ ReconcileDaily \/ ReconcileWeekly
      \/ \E g \in Goals : DeleteGoal(g)
      \/ streak' = streak
  BY DEF Next, DeleteReflection, ModerateReflection, DeleteCheckin, RemoveReflection,
         CreateGoal, CreateGoalsBatch, InsertGoals, UpdateGoal, AdminDeleteGoal,
         NextDay, SetMembership, vars, checkInVars
<1> QED
  BY <1>1, <1>2, <1>3, <1>4, <1>5

\* longest_streak never falls while the goal exists.
THEOREM LongestNeverFalls == Spec => LongestMonotone
<1>1. EarnedInv /\ [Next]_vars => [LongestStep]_vars
  BY KeepsStep
<1> QED
  BY <1>1, EarnedAlways, PTL DEF Spec, LongestMonotone, LongestStep

\* No job and no other user's check-in cuts a daily streak that can be extended.
THEOREM ExtendableStreaksKept == Spec => ExtendableKept
<1>1. EarnedInv /\ [Next]_vars => [KeptStep]_vars
  BY KeepsStep
<1> QED
  BY <1>1, EarnedAlways, PTL DEF Spec, ExtendableKept, KeptStep
=============================================================================
