------------------------------- MODULE CheckIn -------------------------------
(***************************************************************************)
(* Goals, reflections (check-ins), progress events and streaks of one pod, *)
(* with every request and every reconciliation job taken as one database   *)
(* transaction:                                                            *)
(*   app/modules/goals/service.py, app/modules/reflections/service.py,     *)
(*   app/services/goal_streak_reconciliation_service_{daily,weekly}.py.    *)
(* Module CheckInSessions takes the same requests apart at their awaits.   *)
(*                                                                         *)
(* A request that is refused (HTTP 4xx, or an exception turned into a 400  *)
(* after which the session is rolled back) changes nothing: it is a        *)
(* stuttering step and has no action of its own.                           *)
(***************************************************************************)
EXTENDS Streaks, FiniteSets, Sequences

CONSTANTS
    Goals,          \* identifiers of pod_goals rows
    Users,          \* users that may be members of the pod
    Movers,         \* bound: the users whose membership changes
    NoUser,         \* the creator of a goal that does not exist
    Reflections,    \* identifiers of reflections rows
    NoReflection,   \* reflection_id of an event that does not exist
    FreqValues,     \* the frequency_value integers that clients send
    CreateTypes,    \* the frequency_type strings of a POST: some of FreqTypes
    PatchTypes,     \* the frequency_type of a PATCH: "unset", "null" or a string
    PatchStatuses,  \* the status of a PATCH: "unset" or a status
    MaxRepeats      \* bound: how often a payload repeats a goal, 1 or 2

NoValue == -1                   \* NULL frequency_value
Unset   == -2                   \* a frequency_value missing from a PATCH body

ASSUME RowAssumption ==
    /\ Movers \subseteq Users
    /\ NoUser \notin Users
    /\ NoReflection \notin Reflections
    /\ FreqValues \subseteq Nat
    /\ CreateTypes \subseteq {"daily", "weekly", "other"}
    /\ PatchTypes \subseteq {"unset", "null", "daily", "weekly"}
    /\ PatchStatuses \subseteq {"unset", "active", "paused"}
    /\ MaxRepeats \in {1, 2}

\* "other" stands for NULL and for every string but "daily" and "weekly".
FreqTypes == {"daily", "weekly", "other"}
Statuses  == {"absent", "active", "paused"}  \* "paused": any status but active

VARIABLES
    today,       \* date.today() of the server
    members,     \* users with an active pod_members row
    status,      \* pod_goals.status, "absent" when there is no row
    ftype,       \* pod_goals.frequency_type
    fvalue,      \* pod_goals.frequency_value
    creator,     \* pod_goals.created_by
    event,       \* goal_progress_events: goal, user, date -> row
    streak,      \* goal_streaks: goal, user -> row
    reflection,  \* reflections with their reflection_goals
    everDone,    \* history: dates a completion was ever recorded for
    everTypes    \* history: frequency types the goal has had

goalVars    == <<status, ftype, fvalue, creator, everTypes>>
checkInVars == <<event, streak, reflection, everDone>>
vars == <<today, members, goalVars, checkInVars>>

-----------------------------------------------------------------------------
(* Rows *)

\* An event carries completed ("yes"/"no") and the reflection it came from.
NoEvent  == [mark |-> "none", by |-> NoReflection]
EventRow == [mark : {"none", "no", "yes"}, by : Reflections \cup {NoReflection}]

\* said: the reflection_goals snapshots <<goal, completed>>.
Absent        == [owner |-> NoUser, date |-> NoDate, said |-> {}]
ReflectionRow == [owner : Users \cup {NoUser}, date : Days \cup {NoDate},
                  said : SUBSET (Goals \X BOOLEAN)]

Exists(r) == reflection[r].owner # NoUser

-----------------------------------------------------------------------------
(* add_reflection *)

AlreadyDone(e) == e.mark = "yes"

FaultyRewrite(c, type, r, d, done) ==
    [event  |-> [mark |-> IF done THEN "yes" ELSE "no", by |-> r],
     streak |-> UpdateStreak(type, c.streak, d, done),
     said   |-> c.said \cup {done}]
FaultySkip(c, type, r, d, done) ==
    IF AlreadyDone(c.event) /\ done THEN c ELSE FaultyRewrite(c, type, r, d, done)

\* One element of goals_payload, on the goal's event and streak of that user
\* and date and on the snapshots the reflection has taken of the goal.
CheckInEntry(c, type, r, d, done) ==
    IF AlreadyDone(c.event) THEN c
    ELSE [event  |-> [mark |-> IF done THEN "yes" ELSE "no", by |-> r],
          streak |-> UpdateStreak(type, c.streak, d, done),
          said   |-> c.said \cup {done}]

\* The completed flags a payload holds for one goal, in payload order. The
\* entries of different goals touch different rows.
Flags == {<<>>} \cup {<<b>> : b \in BOOLEAN}
         \cup IF MaxRepeats = 1 THEN {} ELSE {<<a, b>> : a, b \in BOOLEAN}

CheckInEntries(c, type, r, d, flags) ==
    LET First == CheckInEntry(c, type, r, d, flags[1])
    IN  CASE flags = <<>>    -> c
          [] Len(flags) = 1  -> First
          [] OTHER           -> CheckInEntry(First, type, r, d, flags[2])

\* What the goal's rows become under the flags sent for it.
Cell(g, u, r, d, flags) ==
    CheckInEntries([event |-> event[g][u][d], streak |-> streak[g][u], said |-> {}],
                   ftype[g], r, d, flags)

Accepted(u, payload) ==
    /\ u \in members
    /\ \A g \in Goals : payload[g] # <<>> => status[g] = "active"

AddReflection(u, r, d, payload) ==
    /\ Accepted(u, payload)
    /\ ~Exists(r)
    /\ event'  = [g \in Goals |->
                    [event[g] EXCEPT ![u][d] = Cell(g, u, r, d, payload[g]).event]]
    /\ streak' = [g \in Goals |->
                    [streak[g] EXCEPT ![u] = Cell(g, u, r, d, payload[g]).streak]]
    /\ reflection' = [reflection EXCEPT ![r] =
                    [owner |-> u, date |-> d,
                     said  |-> {p \in Goals \X BOOLEAN :
                                  p[2] \in Cell(p[1], u, r, d, payload[p[1]]).said}]]
    /\ everDone' = [g \in Goals |->
                    [everDone[g] EXCEPT ![u] =
                        IF AlreadyDone(event'[g][u][d]) THEN @ \cup {d} ELSE @]]
    /\ UNCHANGED <<today, members, goalVars>>

-----------------------------------------------------------------------------
(* Deleting a reflection *)

FaultyRemove(r) ==
    /\ Exists(r)
    /\ reflection' = [reflection EXCEPT ![r] = Absent]
    /\ UNCHANGED <<today, members, goalVars, event, streak, everDone>>

\* The row goes, and with it, by ON DELETE CASCADE, the events whose
\* reflection_id it is. The streaks are left as they are.
RemoveReflection(r) ==
    /\ Exists(r)
    /\ reflection' = [reflection EXCEPT ![r] = Absent]
    /\ event' = [g \in Goals |-> [u \in Users |-> [d \in Days |->
                    IF event[g][u][d].by = r THEN NoEvent ELSE event[g][u][d]]]]
    /\ UNCHANGED <<today, members, goalVars, streak, everDone>>

\* delete_reflection, and delete_pod_update by its author
DeleteReflection(u, r) ==
    /\ u \in members
    /\ reflection[r].owner = u
    /\ RemoveReflection(r)

\* delete_pod_update by a pod owner or admin, delete_checkin by a site admin:
\* these do not ask whether the author is still a member.
ModerateReflection(r) == RemoveReflection(r)
DeleteCheckin(r)      == RemoveReflection(r)

-----------------------------------------------------------------------------
(* Goals *)

ValidFrequency(type, value) ==
    \/ type = "daily"  /\ value \in {NoValue, 1}
    \/ type = "weekly" /\ value \in 1 .. WeekLen

\* The rows of new goals, from the frequencies a request gives them. Only the
\* update path validates a frequency.
InsertGoals(u, types, values) ==
    LET new == DOMAIN types
    IN  /\ u \in members
        /\ \A g \in new : status[g] = "absent"
        /\ status'    = [g \in Goals |-> IF g \in new THEN "active" ELSE status[g]]
        /\ ftype'     = [g \in Goals |-> IF g \in new THEN types[g] ELSE ftype[g]]
        /\ fvalue'    = [g \in Goals |-> IF g \in new THEN values[g] ELSE fvalue[g]]
        /\ creator'   = [g \in Goals |-> IF g \in new THEN u ELSE creator[g]]
        /\ everTypes' = [g \in Goals |-> IF g \in new THEN {types[g]} ELSE everTypes[g]]
        /\ UNCHANGED <<today, members, checkInVars>>

CreateGoal(u, g, type, value) == InsertGoals(u, [h \in {g} |-> type], [h \in {g} |-> value])

\* All the goals of a batch or, when one is refused, none.
CreateGoalsBatch(u, types, values) ==
    /\ Cardinality(DOMAIN types) \in 1 .. 5
    /\ InsertGoals(u, types, values)

FaultyStoredValue(g, value) == value

StoredValue(g, value) == IF value = Unset THEN fvalue[g] ELSE value

\* A PATCH names each field, sends null for it, or leaves it out ("unset").
\* Validation takes null for "unset"; the assignment stores it. (The flag
\* is_active of the participant's row is only shown. What the answer shows of the
\* check-ins is in GoalViews: UpdateLevels, UpdateLast7.)
UpdateGoal(u, g, st, type, value) ==
    LET finalType   == IF type \in {"unset", "null"} THEN ftype[g] ELSE type
        finalValue  == IF value \in {Unset, NoValue} THEN fvalue[g] ELSE value
        storedType  == CASE type = "unset" -> ftype[g]
                         [] type = "null"  -> "other"
                         [] OTHER          -> type
    IN  /\ status[g] # "absent"
        /\ u \in members
        /\ creator[g] = u
        /\ ValidFrequency(finalType, finalValue)
        /\ status'    = [status EXCEPT ![g] = IF st = "unset" THEN @ ELSE st]
        /\ ftype'     = [ftype EXCEPT ![g] = storedType]
        /\ fvalue'    = [fvalue EXCEPT ![g] = StoredValue(g, value)]
        /\ everTypes' = [everTypes EXCEPT ![g] = @ \cup {storedType}]
        /\ UNCHANGED <<today, members, creator, checkInVars>>

\* delete_goal (any signed-in user, no membership check): participants,
\* streaks, events and snapshots of the goal go with it.
DeleteGoal(g) ==
    /\ status[g] # "absent"
    /\ status'    = [status EXCEPT ![g] = "absent"]
    /\ ftype'     = [ftype EXCEPT ![g] = "other"]
    /\ fvalue'    = [fvalue EXCEPT ![g] = NoValue]
    /\ creator'   = [creator EXCEPT ![g] = NoUser]
    /\ everTypes' = [everTypes EXCEPT ![g] = {}]
    /\ event'     = [event EXCEPT ![g] = [u \in Users |-> [d \in Days |-> NoEvent]]]
    /\ streak'    = [streak EXCEPT ![g] = [u \in Users |-> NewStreak]]
    /\ everDone'  = [everDone EXCEPT ![g] = [u \in Users |-> {}]]
    /\ reflection' = [r \in Reflections |->
                        [reflection[r] EXCEPT !.said = {p \in @ : p[1] # g}]]
    /\ UNCHANGED <<today, members>>

\* delete_goal of the admin module
AdminDeleteGoal(g) == DeleteGoal(g)

-----------------------------------------------------------------------------
(* Streak reconciliation *)

FaultyLapsed(g, u) ==
    /\ ftype[g] = "daily"
    /\ streak[g][u].last # NoDate
    /\ streak[g][u].last < today - 1
    /\ streak[g][u].cur > 0

Lapsed(g, u) ==
    /\ ftype[g] = "daily"
    /\ streak[g][u].last # NoDate
    /\ streak[g][u].last < today - 2
    /\ streak[g][u].cur > 0

\* The last fully closed Monday..Sunday week.
ClosedWeek == LET end == today - (today % WeekLen) - 1
              IN  (end - WeekLen + 1) .. end

Required(g) == IF fvalue[g] \in {NoValue, 0} THEN 1 ELSE fvalue[g]

MissedQuota(g, u) ==
    /\ ftype[g] = "weekly"
    /\ streak[g][u].cur > 0
    /\ Cardinality({d \in ClosedWeek \cap Days : AlreadyDone(event[g][u][d])}) < Required(g)

ResetWhere(Broken(_, _)) ==
    /\ streak' = [g \in Goals |-> [u \in Users |->
                    IF Broken(g, u) THEN Reset(streak[g][u]) ELSE streak[g][u]]]
    /\ UNCHANGED <<today, members, goalVars, event, reflection, everDone>>

ReconcileDaily  == ResetWhere(Lapsed)
ReconcileWeekly == ResetWhere(MissedQuota)

-----------------------------------------------------------------------------
(* The environment: the calendar and the pod's membership *)

NextDay ==
    /\ today < LastDay
    /\ today' = today + 1
    /\ UNCHANGED <<members, goalVars, checkInVars>>

SetMembership(u) ==
    /\ members' = IF u \in members THEN members \ {u} ELSE members \cup {u}
    /\ UNCHANGED <<today, goalVars, checkInVars>>

Init ==
    /\ today = 0
    /\ members = Users
    /\ status    = [g \in Goals |-> "absent"]
    /\ ftype     = [g \in Goals |-> "other"]
    /\ fvalue    = [g \in Goals |-> NoValue]
    /\ creator   = [g \in Goals |-> NoUser]
    /\ everTypes = [g \in Goals |-> {}]
    /\ event     = [g \in Goals |-> [u \in Users |-> [d \in Days |-> NoEvent]]]
    /\ streak    = [g \in Goals |-> [u \in Users |-> NewStreak]]
    /\ everDone  = [g \in Goals |-> [u \in Users |-> {}]]
    /\ reflection = [r \in Reflections |-> Absent]

Next ==
    \/ \E u \in Users, r \in Reflections, d \in Days, payload \in [Goals -> Flags] :
          AddReflection(u, r, d, payload)
    \/ \E u \in Users, r \in Reflections : DeleteReflection(u, r)
    \/ \E r \in Reflections : ModerateReflection(r) \/ DeleteCheckin(r)
    \/ \E u \in Users, g \in Goals, t \in CreateTypes, v \in FreqValues :
          CreateGoal(u, g, t, v)
    \/ \E u \in Users, new \in SUBSET Goals :
          \E types \in [new -> CreateTypes], values \in [new -> FreqValues] :
              CreateGoalsBatch(u, types, values)
    \/ \E u \in Users, g \in Goals, st \in PatchStatuses,
          t \in PatchTypes, v \in FreqValues \cup {Unset, NoValue} :
          UpdateGoal(u, g, st, t, v)
    \/ \E g \in Goals : DeleteGoal(g) \/ AdminDeleteGoal(g)
    \/ ReconcileDaily
    \/ ReconcileWeekly
    \/ NextDay
    \/ \E u \in Movers : SetMembership(u)

Spec == Init /\ [][Next]_vars

-----------------------------------------------------------------------------
(* Properties *)

\* Every row has the columns of its table.
TypeOK ==
    /\ today \in Days
    /\ members \subseteq Users
    /\ status \in [Goals -> Statuses]
    /\ ftype \in [Goals -> FreqTypes]
    /\ fvalue \in [Goals -> FreqValues \cup {NoValue}]
    /\ creator \in [Goals -> Users \cup {NoUser}]
    /\ everTypes \in [Goals -> SUBSET FreqTypes]
    /\ event \in [Goals -> [Users -> [Days -> EventRow]]]
    /\ streak \in [Goals -> [Users -> StreakRow]]
    /\ everDone \in [Goals -> [Users -> SUBSET Days]]
    /\ reflection \in [Reflections -> ReflectionRow]

\* A streak is earned: current_streak never exceeds the number of different
\* dates, up to last_completed_date, that a completion was recorded for. So no
\* order of check-ins, backfills, deletions, frequency changes and resets
\* makes update_goal_streak count a date twice.
StreakEarned ==
    \A g \in Goals, u \in Users :
        LET s == streak[g][u]
        IN  /\ s.last = NoDate => s.cur = 0
            /\ s.cur <= Cardinality({d \in everDone[g][u] : d <= s.last})

\* longest_streak is a high-water mark of current_streak, and is earned too.
LongestCovers ==
    \A g \in Goals, u \in Users :
        LET s == streak[g][u]
        IN  /\ s.cur <= s.longest
            /\ s.longest <= Cardinality(everDone[g][u])

\* The streak of a goal that has only ever been daily is a run of days without
\* a gap that ends at last_completed_date.
DailyRun ==
    \A g \in Goals, u \in Users :
        everTypes[g] = {"daily"} =>
            \A k \in 0 .. streak[g][u].cur - 1 : streak[g][u].last - k \in everDone[g][u]

\* The streak of a goal that has only ever been weekly is a run of ISO weeks
\* of one ISO year without a gap, each with a completion.
WeeklyRun ==
    \A g \in Goals, u \in Users :
        everTypes[g] = {"weekly"} =>
            \A k \in 0 .. streak[g][u].cur - 1 : \E d \in everDone[g][u] :
                LET end == IsoWeek(streak[g][u].last)
                IN  IsoWeek(d) = [end EXCEPT !.week = @ - k]

\* add_reflection keeps its three tables together: an event belongs to a
\* reflection of the same user and date that says what the event says.
EventBacked ==
    \A g \in Goals, u \in Users, d \in Days :
        LET e == event[g][u][d]
        IN  e.mark # "none" =>
                /\ e.by \in Reflections
                /\ reflection[e.by].owner = u
                /\ reflection[e.by].date = d
                /\ <<g, AlreadyDone(e)>> \in reflection[e.by].said

\* However often a user checks in for a date, at most one live reflection says
\* that the goal was completed on it, and the event is that reflection's. The
\* goal detail counts these snapshots per date and shows a date with two as
\* not achieved (get_goal).
CompletedOnce ==
    \A r \in Reflections, g \in Goals :
        <<g, TRUE>> \in reflection[r].said =>
            event[g][reflection[r].owner][reflection[r].date] = [mark |-> "yes", by |-> r]

\* A later check-in never takes a completion back ("already completed today ->
\* skip everything"): only deleting the reflection or the goal does.
CompletionSticks ==
    [][\A g \in Goals, u \in Users, d \in Days :
          AlreadyDone(event[g][u][d]) =>
              \/ event'[g][u][d] = event[g][u][d]
              \/ status'[g] = "absent"
              \/ reflection'[event[g][u][d].by] = Absent]_vars

\* longest_streak never falls while the goal exists.
LongestMonotone ==
    [][\A g \in Goals, u \in Users :
          status'[g] # "absent" => streak'[g][u].longest >= streak[g][u].longest]_vars

\* A daily streak that a check-in for yesterday or later can still extend is
\* cut short by nothing but a check-in of its own user, or the goal's end.
ExtendableKept ==
    [][\A g \in Goals, u \in Users :
          /\ ftype[g] = "daily"
          /\ streak[g][u].last >= today - 2
          /\ streak'[g][u].cur < streak[g][u].cur
          => \/ status'[g] = "absent"
             \/ \E r \in Reflections : ~Exists(r) /\ reflection'[r].owner = u]_vars

-----------------------------------------------------------------------------
(* What a comment says, and the code does not do *)

\* "# consecutive week" (reflections/service.py): a completion in the week after
\* the streak's last one makes the streak longer.
ConsecutiveWeekExtends ==
    [][\A g \in Goals, u \in Users :
          LET s == streak[g][u]  t == streak'[g][u]
          IN  /\ ftype[g] = "weekly" /\ s.cur > 0 /\ t.cur > 0
              /\ Week(t.last) = Week(s.last) + 1
              => t.cur = s.cur + 1]_vars
=============================================================================
