------------------------------ MODULE GoalViews ------------------------------
(***************************************************************************)
(* What the goal pages show of the rows of CheckIn: the two goal lists and *)
(* the goal detail of app/modules/goals/service.py. Read-only operators.   *)
(***************************************************************************)
EXTENDS CheckIn

\* "today" of the user interface: check-ins are submitted for the day before.
EffectiveDate == today - 1

FaultyShownWeek == LET start == today - (today % WeekLen)
                   IN  start .. (start + WeekLen - 1)

\* The Monday..Sunday week of the effective date.
ShownWeek == LET start == EffectiveDate - (EffectiveDate % WeekLen)
             IN  start .. (start + WeekLen - 1)

Mark(g, u, d) == IF d \in Days THEN event[g][u][d].mark ELSE "none"

\* days_achieved_this_week
DaysAchieved(g, u) == Cardinality({d \in ShownWeek \cap Days : AlreadyDone(event[g][u][d])})

\* The goals of the lists: active ones, of participants who are active members.
\* A goal's creator is its only participant.
Listed(g, u) == status[g] = "active" /\ creator[g] = u /\ u \in members

\* today_status in the list of one's own goals: "none" stands for NULL.
MyTodayStatus(g, u) ==
    CASE ~Listed(g, u)       -> "unlisted"
      [] ftype[g] = "daily"  -> Mark(g, u, EffectiveDate)
      [] ftype[g] = "weekly" -> IF Mark(g, u, EffectiveDate) = "yes" THEN "yes" ELSE "no"
      [] OTHER               -> "none"

\* today_status in the list of everybody's goals
PodTodayStatus(g, u) ==
    CASE ~Listed(g, u)       -> "unlisted"
      [] ftype[g] = "daily"  -> Mark(g, u, EffectiveDate)
      [] ftype[g] = "weekly" -> IF DaysAchieved(g, u) >= (IF fvalue[g] = NoValue THEN 1 ELSE fvalue[g])
                                THEN "yes" ELSE "no"
      [] OTHER               -> "none"

-----------------------------------------------------------------------------
(* The goal's page *)

HeatDays == 30

\* start_date .. end_date of the heat map
DetailDays == (today - HeatDays) .. today

\* seven_days_ago .. today
LastSeven == (today - 6) .. today

\* The reflections that the answer to update_goal counts for a date: its query
\* does not ask for completed == True.
AnsweredOn(g, u, d) ==
    {r \in Reflections : /\ d \in DetailDays
                         /\ reflection[r].owner = u
                         /\ reflection[r].date = d
                         /\ \E b \in BOOLEAN : <<g, b>> \in reflection[r].said}

\* The reflections that get_goal counts for a date of its heat map.
AchievedOn(g, u, d) ==
    {r \in Reflections : /\ d \in DetailDays
                         /\ reflection[r].owner = u
                         /\ reflection[r].date = d
                         /\ <<g, TRUE>> \in reflection[r].said}

\* The heat map shows a date only when exactly one snapshot is counted.
Level(g, u, d) == IF Cardinality(AchievedOn(g, u, d)) = 1 THEN 4 ELSE 0

\* days_achieved_last_7
Last7(g, u) == Cardinality({d \in Days \cap LastSeven : AchievedOn(g, u, d) # {}})

\* The same two in the answer to update_goal. A payload that says no twice has
\* left two snapshots, which "said" does not tell from one.
UpdateLevels(g, u, d) ==
    LET counted == {p \in AnsweredOn(g, u, d) \X BOOLEAN : <<g, p[2]>> \in reflection[p[1]].said}
    IN  CASE Cardinality(counted) # 1    -> {0}
          [] \E p \in counted : p[2]     -> {4}
          [] OTHER                       -> IF MaxRepeats = 1 THEN {4} ELSE {0, 4}

UpdateLast7(g, u) == Cardinality({d \in Days \cap LastSeven : AnsweredOn(g, u, d) # {}})

-----------------------------------------------------------------------------
(* Properties *)

\* No check-in of the date answered "no".
NeverDenied(g, u, d) == \A r \in AnsweredOn(g, u, d) : <<g, FALSE>> \notin reflection[r].said

\* The lists read progress events, the goal's page reads snapshots of
\* reflections: on no date that the page shows do they disagree on whether the
\* goal was achieved. The "updated detail response" of update_goal, which forgets
\* to ask for completed snapshots, shows what the page shows as long as no
\* check-in of these dates answered "no".
ViewsAgree ==
    \A g \in Goals, u \in Users :
        /\ \A d \in Days \cap DetailDays : Mark(g, u, d) = "yes" <=> Level(g, u, d) = 4
        /\ Last7(g, u) = Cardinality({d \in Days \cap LastSeven : Mark(g, u, d) = "yes"})
        /\ Listed(g, u) /\ ftype[g] \in {"daily", "weekly"} /\ EffectiveDate \in Days =>
              (MyTodayStatus(g, u) = "yes" <=> Level(g, u, EffectiveDate) = 4)
        /\ \A d \in Days \cap DetailDays :
              NeverDenied(g, u, d) => UpdateLevels(g, u, d) = {Level(g, u, d)}
        /\ (\A d \in Days \cap LastSeven : NeverDenied(g, u, d)) => UpdateLast7(g, u) = Last7(g, u)

\* On a Monday the weekly job resets, among the streaks of the goals that the
\* pod's list shows, exactly those it then shows as missed: both look at the
\* week that just closed. (With frequency_value 0 the list asks for no day, the
\* job for one. The job also resets goals that no list shows.)
MondayAgrees ==
    today % WeekLen = 0 /\ today > 0 =>
        \A g \in Goals, u \in Users :
            Listed(g, u) /\ ftype[g] = "weekly" /\ fvalue[g] # 0 /\ streak[g][u].cur > 0 =>
                (MissedQuota(g, u) <=> PodTodayStatus(g, u) = "no")
=============================================================================
