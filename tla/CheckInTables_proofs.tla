------------------------- MODULE CheckInTables_proofs -------------------------
(***************************************************************************)
(* Proofs about the three tables that add_reflection keeps together, and   *)
(* about the pages that read them, for every calendar, set of goals, users *)
(* and reflections.                                                        *)
(***************************************************************************)
EXTENDS PodViews, CheckIn_proofs

-----------------------------------------------------------------------------
(* What the entries of one payload say *)

\* Either the entries of reflection r have left the rows c0 as they were, or c0
\* was not completed, the event is r's, and r's snapshots have what it says.
Says(c0, c, r) ==
    \/ c = c0
    \/ /\ ~AlreadyDone(c0.event)
       /\ c.event.by = r
       /\ c.event.mark \in {"no", "yes"}
       /\ AlreadyDone(c.event) \in c.said
       /\ TRUE \in c.said => AlreadyDone(c.event)

LEMMA EntrySays ==
    ASSUME NEW c0, c0.said = {}, NEW c, NEW type, NEW r, NEW d, NEW done \in BOOLEAN,
           Says(c0, c, r)
    PROVE  Says(c0, CheckInEntry(c, type, r, d, done), r)
<1> DEFINE t == CheckInEntry(c, type, r, d, done)
<1>1. CASE AlreadyDone(c.event)
  BY <1>1 DEF CheckInEntry
<1>2. CASE ~AlreadyDone(c.event)
  <2>1. /\ t.event = [mark |-> IF done THEN "yes" ELSE "no", by |-> r]
        /\ t.said = c.said \cup {done}
    BY <1>2 DEF CheckInEntry
  <2>2. ~AlreadyDone(c0.event) /\ TRUE \notin c.said
    BY <1>2 DEF Says
  <2>3. /\ t.event.by = r /\ t.event.mark = IF done THEN "yes" ELSE "no"
        /\ AlreadyDone(t.event) = done
    BY <2>1 DEF AlreadyDone
  <2> HIDE DEF t
  <2>4. AlreadyDone(t.event) \in t.said /\ (TRUE \in t.said => AlreadyDone(t.event))
    BY <2>1, <2>2, <2>3
  <2>5. t.event.mark \in {"no", "yes"}
    BY <2>3
  <2>6. Says(c0, t, r)
    BY <2>2, <2>3, <2>4, <2>5 DEF Says
  <2> QED
    BY <2>6 DEF t
<1> QED
  BY <1>1, <1>2

LEMMA EntriesSay ==
    ASSUME NEW c, c.said = {}, NEW type, NEW r, NEW d, NEW flags \in Flags
    PROVE  Says(c, CheckInEntries(c, type, r, d, flags), r)
<1>1. Says(c, c, r)
  BY DEF Says
<1>2. ASSUME NEW a \in BOOLEAN
      PROVE  Says(c, CheckInEntry(c, type, r, d, a), r)
  BY <1>1, EntrySays
<1>3. ASSUME NEW a \in BOOLEAN, NEW b \in BOOLEAN
      PROVE  Says(c, CheckInEntry(CheckInEntry(c, type, r, d, a), type, r, d, b), r)
  BY <1>2, EntrySays
<1> QED
  BY <1>1, <1>2, <1>3, EntriesCases

-----------------------------------------------------------------------------
(* The invariant and its steps *)

\* A reflection that is not there has taken no snapshots.
SaidByRows == \A r \in Reflections :
    reflection[r].said # {} => reflection[r].owner \in Users /\ reflection[r].date \in Days

TablesInv == TypeOK /\ EventBacked /\ CompletedOnce /\ SaidByRows

\* EventBacked, of one event.
LEMMA BackedBy ==
    ASSUME EventBacked, NEW g \in Goals, NEW u \in Users, NEW d \in Days,
           event[g][u][d].mark # "none"
    PROVE  /\ event[g][u][d].by \in Reflections
           /\ reflection[event[g][u][d].by].owner = u
           /\ reflection[event[g][u][d].by].date = d
<1>1. /\ event[g][u][d].by \in Reflections
      /\ reflection[event[g][u][d].by].owner = u
      /\ reflection[event[g][u][d].by].date = d
      /\ <<g, AlreadyDone(event[g][u][d])>> \in reflection[event[g][u][d].by].said
  BY Zenon DEF EventBacked
<1> QED
  BY Zenon, <1>1

LEMMA BackedSays ==
    ASSUME EventBacked, NEW g \in Goals, NEW u \in Users, NEW d \in Days,
           event[g][u][d].mark # "none"
    PROVE  <<g, AlreadyDone(event[g][u][d])>> \in reflection[event[g][u][d].by].said
BY Zenon DEF EventBacked

LEMMA TablesInit == Init => TablesInv
<1> SUFFICES ASSUME Init PROVE TablesInv
  OBVIOUS
<1>1. TypeOK
  BY EarnedInit DEF EarnedInv
<1>2. EventBacked /\ CompletedOnce /\ SaidByRows
  BY DEF Init, EventBacked, CompletedOnce, SaidByRows, NoEvent, Absent
<1> QED
  BY <1>1, <1>2 DEF TablesInv

LEMMA AddReflectionTables ==
    ASSUME TablesInv, TypeOK', NEW u \in Users, NEW r \in Reflections, NEW d \in Days,
           NEW payload \in [Goals -> Flags], AddReflection(u, r, d, payload)
    PROVE  TablesInv' /\ \A g \in Goals, w \in Users, e \in Days :
                             AlreadyDone(event[g][w][e]) => event'[g][w][e] = event[g][w][e]
<1> DEFINE c(g) == [event |-> event[g][u][d], streak |-> streak[g][u], said |-> {}]
           t(g) == Cell(g, u, r, d, payload[g])
<1>1. \A g \in Goals : Says(c(g), t(g), r)
  <2> TAKE g \in Goals
  <2>1. c(g).said = {} /\ payload[g] \in Flags
    OBVIOUS
  <2>2. t(g) = CheckInEntries(c(g), ftype[g], r, d, payload[g])
    BY DEF Cell
  <2> HIDE DEF c, t
  <2> QED
    BY <2>1, <2>2, EntriesSay
<1>2. ASSUME NEW g \in Goals
      PROVE  \/ t(g).event = event[g][u][d] /\ t(g).said = {}
             \/ /\ ~AlreadyDone(event[g][u][d])
                /\ t(g).event.by = r
                /\ t(g).event.mark \in {"no", "yes"}
                /\ AlreadyDone(t(g).event) \in t(g).said
                /\ TRUE \in t(g).said => AlreadyDone(t(g).event)
  <2>1. c(g).event = event[g][u][d] /\ c(g).said = {}
    OBVIOUS
  <2>2. Says(c(g), t(g), r)
    BY <1>1
  <2> HIDE DEF c, t
  <2> QED
    BY <2>1, <2>2 DEF Says
<1>3. event' = [g \in Goals |-> [event[g] EXCEPT ![u][d] = t(g).event]]
  BY DEF AddReflection
<1>4. /\ reflection' = [reflection EXCEPT ![r] =
               [owner |-> u, date |-> d,
                said |-> {p \in Goals \X BOOLEAN : p[2] \in t(p[1]).said}]]
      /\ reflection[r].owner = NoUser
  BY DEF AddReflection, Exists
<1> HIDE DEF c, t
<1>5. /\ event \in [Goals -> [Users -> [Days -> EventRow]]]
      /\ event' \in [Goals -> [Users -> [Days -> EventRow]]]
      /\ reflection \in [Reflections -> ReflectionRow]
  BY DEF TablesInv, TypeOK
<1>6. \A g \in Goals : event'[g][u][d] = t(g).event
  BY <1>3, <1>5
<1>7. \A g \in Goals, w \in Users, e \in Days :
          w # u \/ e # d => event'[g][w][e] = event[g][w][e]
  BY <1>3, <1>5
<1>8. /\ reflection'[r].owner = u /\ reflection'[r].date = d
      /\ \A g \in Goals, b \in BOOLEAN : <<g, b>> \in reflection'[r].said <=> b \in t(g).said
      /\ \A q \in Reflections : q # r => reflection'[q] = reflection[q]
  BY <1>4, <1>5
<1>9. ASSUME NEW g \in Goals, NEW w \in Users, NEW e \in Days, event[g][w][e].mark # "none"
      PROVE  event[g][w][e].by \in Reflections /\ event[g][w][e].by # r
  <2>1. EventBacked
    BY DEF TablesInv
  <2>2. event[g][w][e].by \in Reflections /\ reflection[event[g][w][e].by].owner = w
    BY <1>9, <2>1, BackedBy
  <2> QED
    BY <1>4, <2>2, RowAssumption
<1>10. EventBacked'
  <2> SUFFICES ASSUME NEW g \in Goals, NEW w \in Users, NEW e \in Days,
                      event'[g][w][e].mark # "none"
               PROVE  /\ event'[g][w][e].by \in Reflections
                      /\ reflection'[event'[g][w][e].by].owner = w
                      /\ reflection'[event'[g][w][e].by].date = e
                      /\ <<g, AlreadyDone(event'[g][w][e])>>
                            \in reflection'[event'[g][w][e].by].said
    BY DEF EventBacked
  <2>1. CASE event'[g][w][e] = event[g][w][e]
    <3>1. event[g][w][e].by \in Reflections /\ event[g][w][e].by # r
      BY <1>9, <2>1
    <3>2. reflection'[event[g][w][e].by] = reflection[event[g][w][e].by]
      BY <1>8, <3>1
    <3> QED
      BY <2>1, <3>1, <3>2, BackedBy, BackedSays DEF TablesInv
  <2>2. CASE event'[g][w][e] # event[g][w][e]
    <3>1. w = u /\ e = d
      BY <1>7, <2>2
    <3>2. t(g).event.by = r /\ AlreadyDone(t(g).event) \in t(g).said
      BY <1>2, <1>6, <2>2, <3>1
    <3>3. AlreadyDone(t(g).event) \in BOOLEAN
      BY DEF AlreadyDone
    <3> QED
      BY <1>6, <1>8, <3>1, <3>2, <3>3
  <2> QED
    BY <2>1, <2>2
<1>11. ASSUME NEW g \in Goals, NEW w \in Users, NEW e \in Days, AlreadyDone(event[g][w][e])
       PROVE  event'[g][w][e] = event[g][w][e]
  BY <1>2, <1>6, <1>7, <1>11
<1>12. CompletedOnce'
  <2> SUFFICES ASSUME NEW q \in Reflections, NEW g \in Goals, <<g, TRUE>> \in reflection'[q].said
               PROVE  event'[g][reflection'[q].owner][reflection'[q].date]
                          = [mark |-> "yes", by |-> q]
    BY DEF CompletedOnce
  <2>1. CASE q = r
    <3>1. TRUE \in t(g).said
      BY <1>8, <2>1
    <3>2. t(g).event.by = r /\ t(g).event.mark = "yes"
      BY <1>2, <3>1 DEF AlreadyDone
    <3>3. t(g).event \in EventRow
      BY <1>5, <1>6
    <3>4. t(g).event = [mark |-> "yes", by |-> r]
      BY <3>2, <3>3 DEF EventRow
    <3> QED
      BY <1>6, <1>8, <2>1, <3>4
  <2>2. CASE q # r
    <3>1. reflection'[q] = reflection[q]
      BY <1>8, <2>2
    <3>2. reflection[q].owner \in Users /\ reflection[q].date \in Days
      BY <3>1 DEF TablesInv, SaidByRows
    <3>3. event[g][reflection[q].owner][reflection[q].date] = [mark |-> "yes", by |-> q]
      BY <3>1 DEF TablesInv, CompletedOnce
    <3>4. AlreadyDone(event[g][reflection[q].owner][reflection[q].date])
      BY <3>3 DEF AlreadyDone
    <3> QED
      BY <1>11, <3>1, <3>2, <3>3, <3>4
  <2> QED
    BY <2>1, <2>2
<1>13. SaidByRows'
  BY <1>8 DEF TablesInv, SaidByRows
<1> QED
  BY <1>10, <1>11, <1>12, <1>13 DEF TablesInv

LEMMA RemoveReflectionTables ==
    ASSUME TablesInv, TypeOK', NEW r \in Reflections, RemoveReflection(r)
    PROVE  TablesInv' /\ \A g \in Goals, u \in Users, d \in Days :
                             AlreadyDone(event[g][u][d]) =>
                                 \/ event'[g][u][d] = event[g][u][d]
                                 \/ reflection'[event[g][u][d].by] = Absent
<1>1. \A g \in Goals, u \in Users, d \in Days :
          event'[g][u][d] = IF event[g][u][d].by = r THEN NoEvent ELSE event[g][u][d]
  BY DEF RemoveReflection
<1>2. /\ reflection'[r] = Absent
      /\ \A q \in Reflections : q # r => reflection'[q] = reflection[q]
  BY DEF TablesInv, TypeOK, RemoveReflection
<1>3. NoEvent.mark = "none" /\ Absent.said = {}
  BY DEF NoEvent, Absent
<1>4. EventBacked'
  <2> SUFFICES ASSUME NEW g \in Goals, NEW u \in Users, NEW d \in Days,
                      event'[g][u][d].mark # "none"
               PROVE  /\ event'[g][u][d].by \in Reflections
                      /\ reflection'[event'[g][u][d].by].owner = u
                      /\ reflection'[event'[g][u][d].by].date = d
                      /\ <<g, AlreadyDone(event'[g][u][d])>>
                            \in reflection'[event'[g][u][d].by].said
    BY DEF EventBacked
  <2>1. event[g][u][d].by # r /\ event'[g][u][d] = event[g][u][d]
    BY <1>1, <1>3
  <2> QED
    BY <1>2, <2>1, BackedBy, BackedSays DEF TablesInv
<1>5. CompletedOnce'
  <2> SUFFICES ASSUME NEW q \in Reflections, NEW g \in Goals, <<g, TRUE>> \in reflection'[q].said
               PROVE  event'[g][reflection'[q].owner][reflection'[q].date]
                          = [mark |-> "yes", by |-> q]
    BY DEF CompletedOnce
  <2>1. q # r /\ reflection'[q] = reflection[q]
    BY <1>2, <1>3
  <2>2. reflection[q].owner \in Users /\ reflection[q].date \in Days
    BY <2>1 DEF TablesInv, SaidByRows
  <2>3. event[g][reflection[q].owner][reflection[q].date] = [mark |-> "yes", by |-> q]
    BY <2>1 DEF TablesInv, CompletedOnce
  <2> QED
    BY <1>1, <2>1, <2>2, <2>3
<1>6. SaidByRows'
  BY <1>2, <1>3 DEF TablesInv, SaidByRows
<1> QED
  BY <1>1, <1>2, <1>4, <1>5, <1>6 DEF TablesInv

LEMMA DeleteGoalTables ==
    ASSUME TablesInv, TypeOK', NEW g \in Goals, DeleteGoal(g)
    PROVE  TablesInv' /\ \A h \in Goals, u \in Users, d \in Days :
                             h # g => event'[h][u][d] = event[h][u][d]
<1>1. /\ \A u \in Users, d \in Days : event'[g][u][d].mark = "none"
      /\ \A h \in Goals : h # g => event'[h] = event[h]
  BY DEF TablesInv, TypeOK, DeleteGoal, NoEvent
<1>2. \A r \in Reflections :
          /\ reflection'[r].owner = reflection[r].owner
          /\ reflection'[r].date = reflection[r].date
          /\ reflection'[r].said = {p \in reflection[r].said : p[1] # g}
  BY DEF TablesInv, TypeOK, DeleteGoal, ReflectionRow
<1>3. \A r \in Reflections, h \in Goals, b \in BOOLEAN :
          <<h, b>> \in reflection'[r].said <=> <<h, b>> \in reflection[r].said /\ h # g
  BY <1>2
<1>4. \A e : AlreadyDone(e) \in BOOLEAN
  BY DEF AlreadyDone
<1>5. EventBacked'
  <2> SUFFICES ASSUME NEW h \in Goals, NEW u \in Users, NEW d \in Days,
                      event'[h][u][d].mark # "none"
               PROVE  /\ event'[h][u][d].by \in Reflections
                      /\ reflection'[event'[h][u][d].by].owner = u
                      /\ reflection'[event'[h][u][d].by].date = d
                      /\ <<h, AlreadyDone(event'[h][u][d])>>
                            \in reflection'[event'[h][u][d].by].said
    BY DEF EventBacked
  <2>1. h # g /\ event'[h][u][d] = event[h][u][d]
    BY <1>1
  <2> QED
    BY <1>2, <1>3, <1>4, <2>1, BackedBy, BackedSays DEF TablesInv
<1>6. CompletedOnce'
  <2> SUFFICES ASSUME NEW r \in Reflections, NEW h \in Goals, <<h, TRUE>> \in reflection'[r].said
               PROVE  event'[h][reflection'[r].owner][reflection'[r].date]
                          = [mark |-> "yes", by |-> r]
    BY DEF CompletedOnce
  <2>1. <<h, TRUE>> \in reflection[r].said /\ h # g
    BY <1>3
  <2>2. event[h][reflection[r].owner][reflection[r].date] = [mark |-> "yes", by |-> r]
    BY <2>1 DEF TablesInv, CompletedOnce
  <2>3. event'[h] = event[h]
    BY <1>1, <2>1
  <2> QED
    BY <1>2, <2>2, <2>3
<1>7. SaidByRows'
  BY <1>2 DEF TablesInv, SaidByRows
<1> QED
  BY <1>1, <1>5, <1>6, <1>7 DEF TablesInv

\* What a step may do to a completion: CompletionSticks, as a step.
Sticks == \A g \in Goals, u \in Users, d \in Days :
    AlreadyDone(event[g][u][d]) =>
        \/ event'[g][u][d] = event[g][u][d]
        \/ status'[g] = "absent"
        \/ reflection'[event[g][u][d].by] = Absent

LEMMA TablesStep == EarnedInv /\ TablesInv /\ [Next]_vars => TablesInv' /\ Sticks
<1> SUFFICES ASSUME EarnedInv, TablesInv, [Next]_vars PROVE TablesInv' /\ Sticks
  OBVIOUS
<1>1. TypeOK'
  BY EarnedStep DEF EarnedInv
<1>2. CASE \E u \in Users, r \in Reflections, d \in Days, payload \in [Goals -> Flags] :
              AddReflection(u, r, d, payload)
  BY <1>1, <1>2, AddReflectionTables DEF Sticks
<1>3. CASE \/ \E u \in Users, r \in Reflections : DeleteReflection(u, r)
           \/ \E r \in Reflections : ModerateReflection(r) \/ DeleteCheckin(r)
  <2>1. PICK r \in Reflections : RemoveReflection(r)
    BY <1>3 DEF DeleteReflection, ModerateReflection, DeleteCheckin
  <2> QED
    BY <1>1, <2>1, RemoveReflectionTables DEF Sticks
<1>4. CASE \E g \in Goals : DeleteGoal(g) \/ AdminDeleteGoal(g)
  <2>1. PICK g \in Goals : DeleteGoal(g)
    BY <1>4 DEF AdminDeleteGoal
  <2>2. status'[g] = "absent"
    BY <2>1 DEF DeleteGoal, TablesInv, TypeOK
  <2> QED
    BY <1>1, <2>1, <2>2, DeleteGoalTables DEF Sticks
<1>5. CASE \/ \E u \in Users, g \in Goals, t \in CreateTypes, v \in FreqValues :
                  CreateGoal(u, g, t, v)
           \/ \E u \in Users, new \in SUBSET Goals :
                  \E types \in [new -> CreateTypes], values \in [new -> FreqValues] :
                      CreateGoalsBatch(u, types, values)
           \/ \E u \in Users, g \in Goals, st \in PatchStatuses, t \in PatchTypes,
                  v \in FreqValues \cup {Unset, NoValue} : UpdateGoal(u, g, st, t, v)
           \/ ReconcileDaily \/ ReconcileWeekly \/ NextDay
           \/ \E u \in Movers : SetMembership(u)
           \/ UNCHANGED vars
  <2>1. UNCHANGED <<event, reflection>>
    BY <1>5 DEF CreateGoal, CreateGoalsBatch, InsertGoals, UpdateGoal, ReconcileDaily,
                ReconcileWeekly, ResetWhere, NextDay, SetMembership, vars, checkInVars
  <2>2. EventBacked'
    BY <2>1 DEF TablesInv, EventBacked
  <2>3. CompletedOnce'
    BY <2>1 DEF TablesInv, CompletedOnce
  <2>4. SaidByRows' /\ Sticks
    BY <2>1 DEF TablesInv, SaidByRows, Sticks
  <2> QED
    BY <1>1, <2>2, <2>3, <2>4 DEF TablesInv
<1> QED
  BY <1>2, <1>3, <1>4, <1>5 DEF Next

LEMMA TablesAlways == Spec => []TablesInv
BY EarnedAlways, TablesInit, TablesStep, PTL DEF Spec

\* Every progress event belongs to a live reflection of the same user and date
\* that says what the event says.
THEOREM EventsAreBacked == Spec => []EventBacked
<1>1. TablesInv => EventBacked
  BY DEF TablesInv
<1> QED
  BY <1>1, TablesAlways, PTL

\* At most one live reflection says that a goal was completed on a date, and the
\* event of the date is its.
THEOREM CompletedOnlyOnce == Spec => []CompletedOnce
<1>1. TablesInv => CompletedOnce
  BY DEF TablesInv
<1> QED
  BY <1>1, TablesAlways, PTL

\* No check-in takes a completion back.
THEOREM CompletionsStick == Spec => CompletionSticks
<1>1. EarnedInv /\ TablesInv /\ [Next]_vars => [Sticks]_vars
  BY TablesStep
<1> QED
  BY <1>1, EarnedAlways, TablesAlways, PTL DEF Spec, CompletionSticks, Sticks

-----------------------------------------------------------------------------
(* The pages *)

\* The reflections that say a goal was done on a date.
SaidDone(g, u, d) ==
    {r \in Reflections : /\ reflection[r].owner = u
                         /\ reflection[r].date = d
                         /\ <<g, TRUE>> \in reflection[r].said}

\* They are the event's, if it is done.
LEMMA SaidIsDone ==
    ASSUME TablesInv, NEW g \in Goals, NEW u \in Users, NEW d \in Days
    PROVE  SaidDone(g, u, d) =
               IF AlreadyDone(event[g][u][d]) THEN {event[g][u][d].by} ELSE {}
<1> DEFINE e == event[g][u][d]
<1>1. ASSUME NEW r \in SaidDone(g, u, d)
      PROVE  AlreadyDone(e) /\ e.by = r
  <2>1. /\ r \in Reflections /\ <<g, TRUE>> \in reflection[r].said
        /\ reflection[r].owner = u /\ reflection[r].date = d
    BY DEF SaidDone
  <2>2. e = [mark |-> "yes", by |-> r]
    BY <2>1 DEF TablesInv, CompletedOnce
  <2> QED
    BY <2>2 DEF AlreadyDone
<1>2. ASSUME AlreadyDone(e)
      PROVE  e.by \in SaidDone(g, u, d)
  <2>1. EventBacked /\ e.mark # "none"
    BY <1>2 DEF AlreadyDone, TablesInv
  <2>2. e.by \in Reflections /\ reflection[e.by].owner = u /\ reflection[e.by].date = d
    BY <2>1, BackedBy
  <2>3. <<g, AlreadyDone(e)>> \in reflection[e.by].said
    BY <2>1, BackedSays
  <2>4. <<g, TRUE>> \in reflection[e.by].said
    <3>1. AlreadyDone(e) = TRUE
      BY <1>2 DEF AlreadyDone
    <3> QED
      BY <2>3, <3>1
  <2> QED
    BY <2>2, <2>4 DEF SaidDone
<1> HIDE DEF e
<1>3. SaidDone(g, u, d) = IF AlreadyDone(e) THEN {e.by} ELSE {}
  BY <1>1, <1>2
<1> QED
  BY <1>3 DEF e

\* The goal's page counts them on the dates that it shows.
LEMMA AchievedIsDone ==
    ASSUME TablesInv, NEW g \in Goals, NEW u \in Users, NEW d \in Days
    PROVE  AchievedOn(g, u, d) =
               IF d \in DetailDays /\ AlreadyDone(event[g][u][d]) THEN {event[g][u][d].by} ELSE {}
<1>1. AchievedOn(g, u, d) = IF d \in DetailDays THEN SaidDone(g, u, d) ELSE {}
  BY DEF AchievedOn, SaidDone
<1>2. SaidDone(g, u, d) = IF AlreadyDone(event[g][u][d]) THEN {event[g][u][d].by} ELSE {}
  BY SaidIsDone
<1> QED
  BY <1>1, <1>2

LEMMA LevelIsDone ==
    ASSUME TablesInv, NEW g \in Goals, NEW u \in Users, NEW d \in Days
    PROVE  /\ Cardinality(AchievedOn(g, u, d)) =
                  IF d \in DetailDays /\ AlreadyDone(event[g][u][d]) THEN 1 ELSE 0
           /\ Level(g, u, d) = 4 <=> d \in DetailDays /\ AlreadyDone(event[g][u][d])
           /\ Mark(g, u, d) = "yes" <=> AlreadyDone(event[g][u][d])
<1>1. Cardinality(AchievedOn(g, u, d)) =
          IF d \in DetailDays /\ AlreadyDone(event[g][u][d]) THEN 1 ELSE 0
  BY AchievedIsDone, FS_EmptySet, FS_Singleton
<1>2. Level(g, u, d) = 4 <=> d \in DetailDays /\ AlreadyDone(event[g][u][d])
  BY <1>1 DEF Level
<1>3. Mark(g, u, d) = "yes" <=> AlreadyDone(event[g][u][d])
  BY DEF Mark, AlreadyDone
<1> QED
  BY <1>1, <1>2, <1>3

\* The last seven days and yesterday are among the days of the heat map.
LEMMA SevenOfThirty ==
    ASSUME TypeOK
    PROVE  LastSeven \subseteq DetailDays /\ EffectiveDate \in DetailDays
<1>1. today \in Int
  BY DEF TypeOK, Days
<1> QED
  BY <1>1 DEF LastSeven, DetailDays, HeatDays, EffectiveDate

\* Where no check-in answered "no", update_goal's query finds the snapshots that
\* get_goal's finds.
LEMMA AnsweredIsAchieved ==
    ASSUME NEW g, NEW u, NEW d, NeverDenied(g, u, d)
    PROVE  AnsweredOn(g, u, d) = AchievedOn(g, u, d)
<1>1. AchievedOn(g, u, d) \subseteq AnsweredOn(g, u, d)
  BY DEF AchievedOn, AnsweredOn
<1>2. ASSUME NEW r \in AnsweredOn(g, u, d) PROVE r \in AchievedOn(g, u, d)
  <2>1. <<g, FALSE>> \notin reflection[r].said
    BY <1>2 DEF NeverDenied
  <2>2. PICK b \in BOOLEAN : <<g, b>> \in reflection[r].said
    BY <1>2 DEF AnsweredOn
  <2>3. <<g, TRUE>> \in reflection[r].said
    BY <2>1, <2>2
  <2> QED
    BY <1>2, <2>3 DEF AnsweredOn, AchievedOn
<1> QED
  BY <1>1, <1>2

\* Its answer then shows the level of the page.
LEMMA UpdateShowsLevel ==
    ASSUME TablesInv, NEW g \in Goals, NEW u \in Users, NEW d \in Days, NeverDenied(g, u, d)
    PROVE  UpdateLevels(g, u, d) = {Level(g, u, d)}
<1> DEFINE answered == AnsweredOn(g, u, d)
           counted(s) == {p \in s \X BOOLEAN : <<g, p[2]>> \in reflection[p[1]].said}
<1>1. answered = AchievedOn(g, u, d)
  BY AnsweredIsAchieved
<1>2. CASE answered = {}
  <2>1. counted({}) = {}
    OBVIOUS
  <2>2. Cardinality({}) = 0
    BY FS_EmptySet
  <2>3. Level(g, u, d) = 0
    BY <1>1, <1>2, <2>2 DEF Level
  <2>4. UpdateLevels(g, u, d) = {0}
    BY <1>2, <2>1, <2>2 DEF UpdateLevels
  <2> QED
    BY <2>3, <2>4
<1>3. CASE answered # {}
  <2>1. PICK r : AchievedOn(g, u, d) = {r}
    <3>1. AchievedOn(g, u, d) = {event[g][u][d].by}
      BY <1>1, <1>3, AchievedIsDone
    <3> HIDE DEF answered
    <3> QED
      BY <3>1, Zenon
  <2>2. <<g, FALSE>> \notin reflection[r].said /\ <<g, TRUE>> \in reflection[r].said
    <3>1. r \in AchievedOn(g, u, d) /\ r \in AnsweredOn(g, u, d)
      BY <1>1, <2>1
    <3>2. <<g, FALSE>> \notin reflection[r].said
      BY <3>1 DEF NeverDenied
    <3>3. <<g, TRUE>> \in reflection[r].said
      <4> HIDE DEF answered
      <4> QED
        BY <3>1 DEF AchievedOn
    <3> QED
      BY <3>2, <3>3
  <2>3. counted({r}) = {<<r, TRUE>>}
    <3>1. ASSUME NEW p \in {r} \X BOOLEAN
          PROVE  <<g, p[2]>> \in reflection[p[1]].said <=> p = <<r, TRUE>>
      <4>1. p = <<r, TRUE>> \/ p = <<r, FALSE>>
        <5>1. p = <<p[1], p[2]>> /\ p[1] \in {r} /\ p[2] \in BOOLEAN
          OBVIOUS
        <5>2. p[1] = r
          BY <5>1
        <5>3. p[2] = TRUE \/ p[2] = FALSE
          BY <5>1, Zenon
        <5> QED
          BY <5>1, <5>2, <5>3, Zenon
      <4>2. <<r, TRUE>>[1] = r /\ <<r, TRUE>>[2] = TRUE /\ <<r, FALSE>>[1] = r /\ <<r, FALSE>>[2] = FALSE
        OBVIOUS
      <4>3. <<r, TRUE>> # <<r, FALSE>>
        BY <4>2
      <4> QED
        BY <2>2, <4>1, <4>2, <4>3, Zenon
    <3>2. <<r, TRUE>> \in {r} \X BOOLEAN
      OBVIOUS
    <3> QED
      BY <3>1, <3>2, Zenon
  <2>4. Cardinality({r}) = 1 /\ Cardinality({<<r, TRUE>>}) = 1
    BY FS_Singleton
  <2>5. Level(g, u, d) = 4
    BY <2>1, <2>4 DEF Level
  <2>6. AnsweredOn(g, u, d) = {r}
    BY <1>1, <2>1
  <2>7. \E p \in {<<r, TRUE>>} : p[2]
    OBVIOUS
  <2>8. UpdateLevels(g, u, d) = {4}
    BY <2>3, <2>4, <2>6, <2>7 DEF UpdateLevels
  <2> QED
    BY <2>5, <2>8
<1> QED
  BY <1>2, <1>3

\* The goal lists, which read events, and the goal's page, which reads snapshots,
\* never disagree on a date that the page shows, nor does update_goal's answer on
\* dates that nobody answered with "no".
THEOREM ViewsAlwaysAgree == Spec => []ViewsAgree
<1>1. ASSUME TypeOK, TablesInv PROVE ViewsAgree
  <2> SUFFICES ASSUME NEW g \in Goals, NEW u \in Users
               PROVE  /\ \A d \in Days \cap DetailDays : Mark(g, u, d) = "yes" <=> Level(g, u, d) = 4
                      /\ Last7(g, u) = Cardinality({d \in Days \cap LastSeven : Mark(g, u, d) = "yes"})
                      /\ Listed(g, u) /\ ftype[g] \in {"daily", "weekly"} /\ EffectiveDate \in Days =>
                            (MyTodayStatus(g, u) = "yes" <=> Level(g, u, EffectiveDate) = 4)
                      /\ \A d \in Days \cap DetailDays :
                            NeverDenied(g, u, d) => UpdateLevels(g, u, d) = {Level(g, u, d)}
                      /\ (\A d \in Days \cap LastSeven : NeverDenied(g, u, d)) =>
                            UpdateLast7(g, u) = Last7(g, u)
    BY DEF ViewsAgree
  <2>1. \A d \in Days \cap DetailDays : Mark(g, u, d) = "yes" <=> Level(g, u, d) = 4
    BY <1>1, LevelIsDone
  <2>2. Listed(g, u) /\ ftype[g] \in {"daily", "weekly"} =>
            (MyTodayStatus(g, u) = "yes" <=> Mark(g, u, EffectiveDate) = "yes")
    BY DEF MyTodayStatus
  <2>3. EffectiveDate \in DetailDays /\ LastSeven \subseteq DetailDays
    BY <1>1, SevenOfThirty
  <2>4. \A d \in Days \cap LastSeven : AchievedOn(g, u, d) # {} <=> Mark(g, u, d) = "yes"
    <3> TAKE d \in Days \cap LastSeven
    <3>1. d \in DetailDays
      BY <2>3
    <3>2. AchievedOn(g, u, d) = IF AlreadyDone(event[g][u][d]) THEN {event[g][u][d].by} ELSE {}
      BY <1>1, <3>1, AchievedIsDone
    <3>3. Mark(g, u, d) = "yes" <=> AlreadyDone(event[g][u][d])
      BY <1>1, LevelIsDone
    <3> QED
      BY <3>2, <3>3
  <2>5. {d \in Days \cap LastSeven : AchievedOn(g, u, d) # {}}
            = {d \in Days \cap LastSeven : Mark(g, u, d) = "yes"}
    BY <2>4
  <2>6. Last7(g, u) = Cardinality({d \in Days \cap LastSeven : Mark(g, u, d) = "yes"})
    BY <2>5 DEF Last7
  <2>7. ASSUME Listed(g, u), ftype[g] \in {"daily", "weekly"}, EffectiveDate \in Days
        PROVE  MyTodayStatus(g, u) = "yes" <=> Level(g, u, EffectiveDate) = 4
    BY <2>1, <2>2, <2>3, <2>7
  <2>8. ASSUME NEW d \in Days \cap DetailDays, NeverDenied(g, u, d)
        PROVE  UpdateLevels(g, u, d) = {Level(g, u, d)}
    BY <1>1, <2>8, UpdateShowsLevel
  <2>9. ASSUME \A d \in Days \cap LastSeven : NeverDenied(g, u, d)
        PROVE  UpdateLast7(g, u) = Last7(g, u)
    <3>1. \A d \in Days \cap LastSeven : AnsweredOn(g, u, d) = AchievedOn(g, u, d)
      BY <2>9, AnsweredIsAchieved
    <3>2. {d \in Days \cap LastSeven : AnsweredOn(g, u, d) # {}}
              = {d \in Days \cap LastSeven : AchievedOn(g, u, d) # {}}
      BY <3>1
    <3> QED
      BY <3>2 DEF UpdateLast7, Last7
  <2> QED
    BY <2>1, <2>6, <2>7, <2>8, <2>9
<1>2. TablesInv => TypeOK
  BY DEF TablesInv
<1> QED
  BY <1>1, <1>2, TablesAlways, PTL

\* The feed shows a goal as done on a date in the items of its event's post, and
\* in these only, and so does the post's page unless the check-in answered twice.
THEOREM PostsAlwaysTell == Spec => []PostsTell
<1>1. ASSUME TablesInv, NEW g \in Goals, NEW u \in Users, NEW d \in Days,
             NEW photos \in [Reflections -> 0 .. MaxPhotos]
      PROVE  LET shown == {i \in Feed({u}, {d}, photos) : g \in FeedChecked(i.post)}
             IN  /\ shown = IF Mark(g, u, d) = "yes" THEN Items(event[g][u][d].by, photos) ELSE {}
                 /\ \A i \in shown : <<g, FALSE>> \notin reflection[i.post].said =>
                       \A f \in PostGoals(i.post) : f[g]
  <2> DEFINE shown == {i \in Feed({u}, {d}, photos) : g \in FeedChecked(i.post)}
  <2>1. Feed({u}, {d}, photos) = UNION {Items(r, photos) : r \in CheckIns(u, {d})}
    BY DEF Feed
  <2>2. \A r : \A i \in Items(r, photos) : i.post = r
    BY DEF Items
  <2>3. \A r : r \in SaidDone(g, u, d) <=> r \in CheckIns(u, {d}) /\ g \in FeedChecked(r)
    BY DEF CheckIns, FeedChecked, SaidDone
  <2>4. shown = UNION {Items(r, photos) : r \in SaidDone(g, u, d)}
    <3>1. ASSUME NEW i \in shown
          PROVE  i \in UNION {Items(r, photos) : r \in SaidDone(g, u, d)}
      <4>1. g \in FeedChecked(i.post) /\ i \in Feed({u}, {d}, photos)
        BY <3>1
      <4>2. PICK r \in CheckIns(u, {d}) : i \in Items(r, photos)
        BY <2>1, <4>1
      <4>3. r \in SaidDone(g, u, d)
        BY <2>2, <2>3, <4>1, <4>2
      <4> QED
        BY <4>2, <4>3
    <3>2. ASSUME NEW r \in SaidDone(g, u, d), NEW i \in Items(r, photos)
          PROVE  i \in shown
      <4>1. r \in CheckIns(u, {d}) /\ g \in FeedChecked(r) /\ i.post = r
        BY <2>2, <2>3
      <4>2. i \in Feed({u}, {d}, photos)
        BY <2>1, <4>1
      <4> QED
        BY <4>1, <4>2
    <3> HIDE DEF shown
    <3> QED
      BY <3>1, <3>2
  <2>5. shown = IF Mark(g, u, d) = "yes" THEN Items(event[g][u][d].by, photos) ELSE {}
    <3>1. SaidDone(g, u, d) = IF Mark(g, u, d) = "yes" THEN {event[g][u][d].by} ELSE {}
      BY <1>1, SaidIsDone, LevelIsDone
    <3> HIDE DEF shown
    <3> QED
      BY <2>4, <3>1
  <2>6. \A i \in shown : i.post \in SaidDone(g, u, d)
    BY <2>1, <2>2, <2>3
  <2>7. ASSUME NEW r \in SaidDone(g, u, d), <<g, FALSE>> \notin reflection[r].said,
               NEW f \in PostGoals(r)
        PROVE  f[g]
    <3>1. <<g, TRUE>> \in reflection[r].said
      BY DEF SaidDone
    <3>2. g \in {p[1] : p \in reflection[r].said}
      BY <3>1
    <3>3. f[g] \in BOOLEAN /\ <<g, f[g]>> \in reflection[r].said
      BY <3>2 DEF PostGoals
    <3>4. f[g] # FALSE
      BY <2>7, <3>3
    <3> QED
      BY <3>3, <3>4
  <2> QED
    BY <2>5, <2>6, <2>7
<1>2. TablesInv => PostsTell
  BY <1>1 DEF PostsTell
<1> QED
  BY <1>2, TablesAlways, PTL

-----------------------------------------------------------------------------
(* Mondays *)

LEMMA ModUnique ==
    ASSUME NEW n \in Nat \ {0}, NEW a \in Int, NEW q \in Int, NEW r \in 0 .. n - 1,
           a = n * q + r
    PROVE  a % n = r
OBVIOUS

LEMMA DayBefore ==
    ASSUME NEW n \in Nat \ {0}, NEW a \in Nat \ {0}, a % n = 0
    PROVE  (a - 1) % n = n - 1
<1> DEFINE q == a \div n
<1>1. a % n = a - n * (a \div n) /\ q \in Int
  OBVIOUS
<1>2. a = n * q
  BY <1>1
<1> HIDE DEF q
<1>3. a - 1 = n * (q - 1) + (n - 1)
  BY <1>1, <1>2
<1>4. a - 1 \in Int /\ q - 1 \in Int /\ n - 1 \in 0 .. n - 1
  BY <1>1
<1> QED
  BY <1>3, <1>4, ModUnique

LEMMA DoneFinite ==
    \A g, u, ds : LET done == {d \in ds \cap Days : AlreadyDone(event[g][u][d])}
                  IN  IsFiniteSet(done) /\ Cardinality(done) \in Nat
<1> TAKE g, u, ds
<1> DEFINE done == {d \in ds \cap Days : AlreadyDone(event[g][u][d])}
<1>1. done \in SUBSET Days
  OBVIOUS
<1> HIDE DEF done
<1>2. IsFiniteSet(done) /\ Cardinality(done) \in Nat
  BY <1>1, DaysFinite, FS_Subset, FS_CardinalityType
<1> QED
  BY <1>2 DEF done

\* On a Monday the list's week is the one the weekly job closes, and both ask
\* for the same number of days of a goal that the list shows.
THEOREM MondaysAgree == Spec => []MondayAgrees
<1>1. ASSUME TypeOK, today % WeekLen = 0, today > 0
      PROVE  ShownWeek = ClosedWeek
  <2>1. today \in Nat \ {0} /\ WeekLen \in Nat \ {0}
    BY <1>1, CalendarAssumption DEF TypeOK, Days
  <2>2. (today - 1) % WeekLen = WeekLen - 1
    BY <1>1, <2>1, DayBefore
  <2>3. ShownWeek = (today - WeekLen) .. (today - 1)
    BY <2>1, <2>2 DEF ShownWeek, EffectiveDate
  <2>4. ClosedWeek = (today - WeekLen) .. (today - 1)
    BY <1>1, <2>1 DEF ClosedWeek
  <2> QED
    BY <2>3, <2>4
<1>2. ASSUME TypeOK, ShownWeek = ClosedWeek, NEW g \in Goals, NEW u \in Users,
             Listed(g, u), ftype[g] = "weekly", fvalue[g] # 0, streak[g][u].cur > 0
      PROVE  MissedQuota(g, u) <=> PodTodayStatus(g, u) = "no"
  <2> DEFINE k == DaysAchieved(g, u)
  <2>1. Cardinality({d \in ClosedWeek \cap Days : AlreadyDone(event[g][u][d])}) = k
    BY <1>2 DEF DaysAchieved
  <2>2. k \in Nat
    BY DoneFinite DEF DaysAchieved
  <2>3. Required(g) = (IF fvalue[g] = NoValue THEN 1 ELSE fvalue[g]) /\ Required(g) \in Int
    <3>1. fvalue[g] \in Int
      <4>1. fvalue \in [Goals -> FreqValues \cup {NoValue}]
        BY <1>2 DEF TypeOK
      <4>2. \A v \in FreqValues : v \in Int
        BY RowAssumption
      <4>3. fvalue[g] \in FreqValues \/ fvalue[g] = NoValue
        BY <4>1
      <4>4. NoValue \in Int
        BY DEF NoValue
      <4> QED
        BY <4>2, <4>3, <4>4
    <3>2. Required(g) = (IF fvalue[g] = NoValue THEN 1 ELSE fvalue[g])
      BY <1>2 DEF Required
    <3> QED
      BY <3>1, <3>2
  <2>4. MissedQuota(g, u) <=> k < Required(g)
    BY <1>2, <2>1 DEF MissedQuota
  <2>5. PodTodayStatus(g, u) = "no" <=> ~ (k >= Required(g))
    <3>1. PodTodayStatus(g, u) =
              IF k >= (IF fvalue[g] = NoValue THEN 1 ELSE fvalue[g]) THEN "yes" ELSE "no"
      BY <1>2 DEF PodTodayStatus
    <3> HIDE DEF k
    <3> QED
      BY <2>3, <3>1
  <2> HIDE DEF k
  <2>6. k < Required(g) <=> ~ (k >= Required(g))
    BY <2>2, <2>3
  <2> QED
    BY <2>4, <2>5, <2>6
<1>3. TypeOK => MondayAgrees
  BY <1>1, <1>2 DEF MondayAgrees
<1> QED
  BY <1>3, TypeCorrect, PTL

-----------------------------------------------------------------------------
(* The statistics *)

LEMMA ModRange ==
    ASSUME NEW n \in Nat \ {0}, NEW a \in Int
    PROVE  a % n \in 0 .. n - 1
OBVIOUS

LEMMA DivBound ==
    ASSUME NEW n \in Nat, NEW k \in Nat \ {0}, n >= k
    PROVE  (n * 100) \div k \in Nat /\ (n * 100) \div k >= 100
<1> DEFINE q == (n * 100) \div k
<1>1. n * 100 \in Nat
  OBVIOUS
<1>2. q \in Nat /\ n * 100 < k * q + k
  BY <1>1, DivNat
<1> HIDE DEF q
<1>3. q <= 99 => k * q <= k * 99
  BY <1>2
<1>4. q >= 100
  BY <1>2, <1>3
<1> QED
  BY <1>2, <1>4 DEF q

\* A finite, non-empty set of numbers has a largest one: an element with as few
\* larger ones as possible has none.
LEMMA MaxOfFinite ==
    ASSUME NEW S \in SUBSET Nat, IsFiniteSet(S), S # {}
    PROVE  Max(S) \in S /\ \A y \in S : Max(S) >= y
<1> DEFINE Above(x) == {y \in S : y > x}
           R == StrictSubsetOrdering(S)
           F == FiniteSubsetsOf(S)
           T == {U \in F : \E x \in S : U = Above(x)}
<1>1. IsWellFoundedOn(R, F)
  BY FS_StrictSubsetOrderingWellFounded
<1>2. \A x \in S : Above(x) \in T
  <2> TAKE x \in S
  <2>1. Above(x) \in SUBSET S
    OBVIOUS
  <2>2. Above(x) \in F
    BY <2>1, FS_Subset DEF FiniteSubsetsOf
  <2> QED
    BY <2>2
<1>3. T \subseteq F /\ T # {}
  BY <1>2
<1>4. PICK U \in T : \A V \in T : ~ (<<V, U>> \in R)
  <2> HIDE DEF R, F, T
  <2> QED
    BY <1>1, <1>3, WFMin
<1>5. PICK x \in S : U = Above(x)
  BY <1>4
<1>6. ASSUME NEW y \in S, y > x PROVE FALSE
  <2>1. Above(y) \in T
    BY <1>2
  <2>2. Above(y) \subseteq U /\ y \in U /\ y \notin Above(y)
    <3>1. \A z \in S : z \in Int
      OBVIOUS
    <3>2. \A z \in S : z > y => z > x
      BY <1>6, <3>1
    <3>3. y \in U /\ y \notin Above(y)
      BY <1>5, <1>6, <3>1
    <3>4. Above(y) \subseteq U
      BY <1>5, <3>2
    <3> QED
      BY <3>3, <3>4
  <2>3. Above(y) \in SUBSET S /\ U \in SUBSET S
    BY <1>5
  <2>4. <<Above(y), U>> \in R
    <3> HIDE DEF Above
    <3> QED
      BY <2>2, <2>3 DEF StrictSubsetOrdering
  <2> QED
    BY <1>4, <2>1, <2>4
<1>7. \A y \in S : x >= y
  BY <1>6
<1>8. \E m \in S : \A y \in S : m >= y
  BY <1>7
<1> QED
  BY <1>8 DEF Max

\* The dates done among ds are as many check-ins of ds: the reflections that
\* brought their events differ in their dates.
LEMMA DoneAreCheckIns ==
    ASSUME TablesInv, IsFiniteSet(Reflections), NEW g \in Goals, NEW u \in Users,
           NEW ds, NEW done \in SUBSET (ds \cap Days),
           \A d \in done : AlreadyDone(event[g][u][d])
    PROVE  /\ IsFiniteSet(CheckIns(u, ds)) /\ Cardinality(CheckIns(u, ds)) \in Nat
           /\ Cardinality(done) \in Nat
           /\ Cardinality(done) <= Cardinality(CheckIns(u, ds))
<1> DEFINE C == CheckIns(u, ds)
           f == [d \in done |-> event[g][u][d].by]
<1>1. \A d \in done : /\ f[d] \in Reflections
                      /\ reflection[f[d]].owner = u /\ reflection[f[d]].date = d
  <2> TAKE d \in done
  <2>1. EventBacked /\ event[g][u][d].mark # "none"
    BY DEF AlreadyDone, TablesInv
  <2> QED
    BY <2>1, BackedBy
<1>2. C \in SUBSET Reflections
  BY DEF CheckIns
<1>3. IsFiniteSet(C) /\ Cardinality(C) \in Nat
  BY <1>2, FS_Subset, FS_CardinalityType
<1>4. \A d \in done : f[d] \in C
  BY <1>1 DEF CheckIns
<1>5. \A a, b \in done : f[a] = f[b] => a = b
  BY <1>1
<1>6. f \in Injection(done, C)
  BY <1>4, <1>5 DEF Injection, IsInjective
<1> HIDE DEF C, f
<1>7. IsFiniteSet(done) /\ Cardinality(done) <= Cardinality(C)
  BY <1>3, <1>6, FS_Injection
<1>8. Cardinality(done) \in Nat
  BY <1>7, FS_CardinalityType
<1> QED
  BY <1>3, <1>7, <1>8 DEF C

LEMMA MaxStreakCovers ==
    ASSUME RunInv, IsFiniteSet(Goals), NEW g \in Goals, NEW u \in Users
    PROVE  MaxStreak(u) \in Nat /\ MaxStreak(u) >= streak[g][u].cur
<1> DEFINE L == {h \in Goals : status[h] # "absent"}
           f == [h \in L |-> streak[h][u].cur]
           S == {streak[h][u].cur : h \in L}
<1>1. \A h \in Goals : streak[h][u].cur \in Nat
  BY DEF RunInv, EarnedInv, TypeOK, StreakRow
<1>2. IsFiniteSet(L)
  <2>1. L \in SUBSET Goals
    OBVIOUS
  <2> QED
    BY <2>1, FS_Subset
<1>3. f \in Surjection(L, S)
  BY DEF Surjection
<1> HIDE DEF f
<1>4. IsFiniteSet(S)
  BY <1>2, <1>3, FS_Surjection
<1>5. IsFiniteSet({0} \cup S)
  BY <1>4, FS_Union, FS_Singleton
<1>6. {0} \cup S \in SUBSET Nat
  BY <1>1
<1>7. /\ Max({0} \cup S) \in {0} \cup S
      /\ \A y \in {0} \cup S : Max({0} \cup S) >= y
  BY <1>5, <1>6, MaxOfFinite
<1>8. streak[g][u].cur \in {0} \cup S
  BY DEF RunInv, Typed
<1>9. MaxStreak(u) = Max({0} \cup S)
  BY DEF MaxStreak
<1> QED
  BY <1>6, <1>7, <1>8, <1>9

LEMMA SubsetSmaller ==
    ASSUME NEW S, NEW T, T \subseteq Days, S \subseteq T
    PROVE  /\ IsFiniteSet(S) /\ Cardinality(S) \in Nat /\ Cardinality(T) \in Nat
           /\ Cardinality(S) <= Cardinality(T)
<1>1. IsFiniteSet(T)
  BY DaysFinite, FS_Subset
<1> QED
  BY <1>1, FS_Subset, FS_CardinalityType

LEMMA WeekCovers ==
    ASSUME TypeOK, TablesInv, IsFiniteSet(Reflections), NEW g \in Goals, NEW u \in Users
    PROVE  /\ DaysAchieved(g, u) <= WeeklyCheckIns(u)
           /\ DaysAchieved(g, u) >= DaysElapsed => CheckInsPct(u) = 100
           /\ DaysAchieved(g, u) > 0 => u \in MembersCheckedIn
<1> DEFINE ds == StatsWeek(EffectiveDate)
           done == {d \in ShownWeek \cap Days : AlreadyDone(event[g][u][d])}
<1>1. ShownWeek = ds
  BY DEF ShownWeek, StatsWeek
<1>2. done \in SUBSET (ds \cap Days) /\ \A d \in done : AlreadyDone(event[g][u][d])
  BY <1>1
<1> DEFINE k == DaysAchieved(g, u)
           n == WeeklyCheckIns(u)
<1>3. k = Cardinality(done) /\ n = Cardinality(CheckIns(u, ds))
  BY DEF DaysAchieved, WeeklyCheckIns
<1> HIDE DEF done, ds, k, n
<1>4. k \in Nat /\ n \in Nat /\ k <= n
  BY <1>2, <1>3, DoneAreCheckIns
<1>5. DaysElapsed \in Nat \ {0}
  <2>1. EffectiveDate \in Int /\ WeekLen \in Nat \ {0}
    BY CalendarAssumption DEF EffectiveDate, TypeOK, Days
  <2>2. EffectiveDate % WeekLen \in 0 .. WeekLen - 1
    BY <2>1, ModRange
  <2> QED
    BY <2>1, <2>2 DEF DaysElapsed
<1>6. ASSUME k >= DaysElapsed PROVE CheckInsPct(u) = 100
  <2> DEFINE pct == (n * 100) \div DaysElapsed
  <2>1. n >= DaysElapsed
    BY <1>4, <1>5, <1>6
  <2>2. pct \in Nat /\ pct >= 100
    BY <1>4, <1>5, <2>1, DivBound
  <2>3. CheckInsPct(u) = IF pct > 100 THEN 100 ELSE pct
    BY DEF CheckInsPct, n
  <2> HIDE DEF pct
  <2> QED
    BY <2>2, <2>3
<1>7. ASSUME k > 0 PROVE u \in MembersCheckedIn
  <2>1. done # {}
    BY <1>3, <1>7, FS_EmptySet
  <2>2. PICK d \in done : TRUE
    BY <2>1
  <2>3. d \in ds \cap Days /\ AlreadyDone(event[g][u][d])
    BY <1>2
  <2>4. EventBacked /\ event[g][u][d].mark # "none"
    BY <2>3 DEF AlreadyDone, TablesInv
  <2>5. PICK r \in Reflections : reflection[r].owner = u /\ reflection[r].date = d
    BY <2>3, <2>4, BackedBy
  <2> QED
    BY <2>3, <2>5 DEF MembersCheckedIn, ds
<1> QED
  BY <1>4, <1>6, <1>7 DEF k, n

LEMMA HeatCovers ==
    ASSUME TablesInv, IsFiniteSet(Reflections), NEW g \in Goals, NEW u \in Users,
           NEW d \in ContributionDays \cap Days, AlreadyDone(event[g][u][d])
    PROVE  Contribution(u, d) > 0
<1> DEFINE n == Cardinality(CheckIns(u, {d}))
<1>1. {d} \in SUBSET ({d} \cap Days) /\ \A e \in {d} : AlreadyDone(event[g][u][e])
  OBVIOUS
<1>2. n \in Nat /\ Cardinality({d}) <= n
  BY <1>1, DoneAreCheckIns
<1>3. n \in Nat /\ n >= 1
  BY <1>2, FS_Singleton
<1>4. Contribution(u, d) = Intensity(n)
  BY DEF Contribution
<1> HIDE DEF n
<1>5. Intensity(n) > 0
  BY <1>3 DEF Intensity
<1> QED
  BY <1>4, <1>5

\* The days of the last seven that a page shows as done have a check-in.
LEMMA LastDaysCover ==
    ASSUME TablesInv, IsFiniteSet(Reflections), NEW g \in Goals, NEW u \in Users,
           NEW S, S \subseteq Days \cap LastSeven,
           \A d \in S : AlreadyDone(event[g][u][d])
    PROVE  Cardinality(S) <= DaysCheckedIn(u)
<1> DEFINE T == {d \in Days \cap LastSeven : CheckIns(u, {d}) # {}}
<1>1. \A d \in S : CheckIns(u, {d}) # {}
  <2> TAKE d \in S
  <2>1. d \in Days /\ EventBacked /\ event[g][u][d].mark # "none"
    BY DEF AlreadyDone, TablesInv
  <2>2. event[g][u][d].by \in CheckIns(u, {d})
    BY <2>1, BackedBy DEF CheckIns
  <2> QED
    BY <2>2
<1>2. S \subseteq T /\ T \subseteq Days
  BY <1>1
<1> HIDE DEF T
<1>3. Cardinality(S) <= Cardinality(T)
  BY <1>2, SubsetSmaller
<1> QED
  BY <1>3 DEF DaysCheckedIn, T

LEMMA AdminLast7Days ==
    ASSUME TypeOK, TablesInv, NEW g \in Goals, NEW u \in Users
    PROVE  {d \in Days \cap LastSeven : AchievedOn(g, u, d) # {}}
               = {d \in {x \in Days : Level(g, u, x) = 4} :
                     AdminLevel(g, u, d) = 4 /\ d >= today - 6}
<1>1. \A d \in Days : d \in Int /\ today \in Int
  BY DEF TypeOK, Days
<1>2. \A d \in Days : AchievedOn(g, u, d) # {}
                          <=> d \in DetailDays /\ AlreadyDone(event[g][u][d])
  BY AchievedIsDone
<1>3. \A d \in Days : Level(g, u, d) = 4 <=> d \in DetailDays /\ AlreadyDone(event[g][u][d])
  BY LevelIsDone
<1>4. \A d \in Days : AdminLevel(g, u, d) = 4
                          <=> d \in ContributionDays /\ d \in DetailDays /\ AlreadyDone(event[g][u][d])
  BY LevelIsDone DEF AdminLevel
<1>5. ContributionDays = DetailDays
  BY DEF ContributionDays, DetailDays
<1>6. \A d \in Days : d \in LastSeven <=> d \in DetailDays /\ d >= today - 6
  BY <1>1 DEF LastSeven, DetailDays, HeatDays
<1> QED
  BY <1>2, <1>3, <1>4, <1>5, <1>6

\* No page counts less than another shows, for any finite number of goals and
\* reflections.
THEOREM StatisticsCover ==
    ASSUME IsFiniteSet(Goals), IsFiniteSet(Reflections)
    PROVE  Spec => []StatsCover
<1>1. ASSUME RunInv, TablesInv, NEW g \in Goals, NEW u \in Users
      PROVE  LET done == {d \in Days : Level(g, u, d) = 4}
             IN  /\ DaysAchieved(g, u) <= WeeklyCheckIns(u)
                 /\ DaysAchieved(g, u) >= DaysElapsed => CheckInsPct(u) = 100
                 /\ DaysAchieved(g, u) > 0 => u \in MembersCheckedIn
                 /\ \A d \in done \cap ContributionDays : Contribution(u, d) > 0
                 /\ Cardinality(done \cap LastSeven) <= DaysCheckedIn(u)
                 /\ Score(u) >= 10 * streak[g][u].cur + Cardinality(done)
                 /\ AdminLast7(g, u)
                        = Cardinality({d \in done : AdminLevel(g, u, d) = 4 /\ d >= today - 6})
                 /\ AdminLast7(g, u) <= DaysCheckedIn(u)
                 /\ AdminUser(u).checkIns >= Cardinality(done)
                 /\ AdminUser(u).streak >= streak[g][u].cur
  <2> DEFINE done == {d \in Days : Level(g, u, d) = 4}
             last == {d \in Days \cap LastSeven : AchievedOn(g, u, d) # {}}
  <2>1. TypeOK
    BY <1>1 DEF TablesInv
  <2>2. \A d \in done : d \in Days /\ AlreadyDone(event[g][u][d])
    BY <1>1, LevelIsDone
  <2>3. \A d \in last : /\ d \in Days \cap LastSeven
                        /\ AlreadyDone(event[g][u][d])
    BY <1>1, AchievedIsDone
  <2>4. AdminLast7(g, u) = Cardinality(last)
    BY DEF AdminLast7
  <2>5. last = {d \in done : AdminLevel(g, u, d) = 4 /\ d >= today - 6}
    BY <1>1, <2>1, AdminLast7Days
  <2> DEFINE m == MaxStreak(u)
             c == Cardinality(CheckIns(u, Days))
             k == Cardinality(done)
             s == streak[g][u].cur
  <2>6. Score(u) = m * 10 + c /\ AdminUser(u).checkIns = c /\ AdminUser(u).streak = m
    BY DEF Score, AdminUser
  <2> HIDE DEF done, last, m, c, k, s
  <2>7. done \in SUBSET (Days \cap Days)
    BY <2>2
  <2>8. k \in Nat /\ c \in Nat /\ k <= c
    BY <1>1, <2>2, <2>7, DoneAreCheckIns DEF k, c
  <2>9. m \in Nat /\ m >= s
    BY <1>1, MaxStreakCovers DEF m, s
  <2>10. s \in Nat
    BY <2>1 DEF TypeOK, StreakRow, s
  <2>11. Score(u) >= 10 * s + k
    BY <2>6, <2>8, <2>9, <2>10
  <2>12. AdminUser(u).checkIns >= k /\ AdminUser(u).streak >= s
    BY <2>6, <2>8, <2>9
  <2>13. Cardinality(last) <= DaysCheckedIn(u)
    BY <1>1, <2>3, LastDaysCover
  <2>14. Cardinality(done \cap LastSeven) <= DaysCheckedIn(u)
    BY <1>1, <2>2, LastDaysCover
  <2>15. \A d \in done \cap ContributionDays : Contribution(u, d) > 0
    BY <1>1, <2>2, HeatCovers
  <2>16. /\ DaysAchieved(g, u) <= WeeklyCheckIns(u)
         /\ DaysAchieved(g, u) >= DaysElapsed => CheckInsPct(u) = 100
         /\ DaysAchieved(g, u) > 0 => u \in MembersCheckedIn
    BY <1>1, <2>1, WeekCovers
  <2> USE DEF k, s
  <2> QED
    BY <2>4, <2>5, <2>11, <2>12, <2>13, <2>14, <2>15, <2>16 DEF done
<1>2. RunInv /\ TablesInv => StatsCover
  BY <1>1, Zenon DEF StatsCover
<1> QED
  BY <1>2, RunAlways, TablesAlways, PTL
=============================================================================
