------------------------------ MODULE PodViews ------------------------------
(***************************************************************************)
(* What the pages of a pod show of the rows of CheckIn: the statistics and *)
(* the contribution heat map (app/modules/pod_stats/service.py), the score *)
(* of the leaderboard (pods/service.py), the feed of posts and one post    *)
(* (pod_updates/service.py). Read-only operators.                          *)
(*                                                                         *)
(* Each page counts for itself: some count progress events, some count     *)
(* reflections, some read the snapshots that reflections took of goals.    *)
(***************************************************************************)
EXTENDS GoalViews, FiniteSetsExt

\* One's reflections with a date among ds, also those that list_my_reflections
\* returns.
CheckIns(u, ds) == {r \in Reflections : reflection[r].owner = u /\ reflection[r].date \in ds}

-----------------------------------------------------------------------------
(* Statistics *)

FaultyStatsWeek(d) == (d - WeekLen + 1) .. d

\* _start_end_of_week
StatsWeek(d) == LET start == d - (d % WeekLen) IN start .. (start + WeekLen - 1)

WeeklyCheckIns(u) == Cardinality(CheckIns(u, StatsWeek(EffectiveDate)))

DaysElapsed == (EffectiveDate % WeekLen) + 1

\* check_ins_pct counts check-ins, several of one date too, against days.
CheckInsPct(u) == LET pct == (WeeklyCheckIns(u) * 100) \div DaysElapsed
                  IN  IF pct > 100 THEN 100 ELSE pct

\* members_checked_in: the authors of the week, also those that have left.
MembersCheckedIn == {reflection[r].owner : r \in
                        {q \in Reflections : reflection[q].date \in StatsWeek(EffectiveDate)}}

\* The thirty days before today, and today.
ContributionDays == (today - HeatDays) .. today

Intensity(n) == CASE n <= 2        -> n
                  [] n \in {3, 4}  -> 3
                  [] OTHER         -> 4

Contribution(u, d) ==
    IF d \in ContributionDays THEN Intensity(Cardinality(CheckIns(u, {d}))) ELSE 0

\* days_checkedin_last_7
DaysCheckedIn(u) == Cardinality({d \in Days \cap LastSeven : CheckIns(u, {d}) # {}})

-----------------------------------------------------------------------------
(* The leaderboard *)

MaxStreak(u) == Max({0} \cup {streak[g][u].cur : g \in {h \in Goals : status[h] # "absent"}})

Score(u) == MaxStreak(u) * 10 + Cardinality(CheckIns(u, Days))

-----------------------------------------------------------------------------
(* Administration: the list of users, and a goal's page *)

AdminUser(u) == [checkIns |-> Cardinality(CheckIns(u, Days)), streak |-> MaxStreak(u)]

\* The level that the page shows, of the thirty days and today only.
AdminLevel(g, u, d) ==
    IF d \in ContributionDays /\ Cardinality(AchievedOn(g, u, d)) = 1 THEN 4 ELSE 0

\* days_achieved_last_7
AdminLast7(g, u) ==
    Cardinality({d \in Days \cap LastSeven : AchievedOn(g, u, d) # {}})

-----------------------------------------------------------------------------
(* Posts *)

\* bound: the photos of one reflection, each uploaded by a request of its own
MaxPhotos == 2

\* The feed joins the photos of a reflection and groups by them: one item per
\* photo, or one without a photo.
Items(r, photos) == {[post |-> r, photo |-> k] : k \in IF photos[r] = 0 THEN {0} ELSE 1 .. photos[r]}

\* The feed, filtered by author and by date.
Feed(authors, ds, photos) ==
    UNION {Items(r, photos) : r \in UNION {CheckIns(u, ds) : u \in authors}}

FaultyFeedChecked(r) == {p[1] : p \in reflection[r].said}

\* The goals that each item of a reflection shows as done.
FeedChecked(r) == {g \in Goals : <<g, TRUE>> \in reflection[r].said}

\* A post shows each goal once. If the reflection has two snapshots of a goal,
\* the first row of a query without an order decides.
PostGoals(r) == LET shown == {p[1] : p \in reflection[r].said}
                IN  {f \in [shown -> BOOLEAN] : \A g \in shown : <<g, f[g]>> \in reflection[r].said}

-----------------------------------------------------------------------------
(* Properties *)

\* No page counts less than another shows: the days that a goal's page or list
\* shows as done are among the check-ins that the statistics of the week, the
\* contribution heat map, the count of the last seven days and the leaderboard
\* count, and a member who has done them is among those who checked in. The pages
\* for administrators show the same days.
StatsCover ==
    \A g \in Goals, u \in Users :
        LET done == {d \in Days : Level(g, u, d) = 4}
        IN  /\ DaysAchieved(g, u) <= WeeklyCheckIns(u)
            /\ DaysAchieved(g, u) >= DaysElapsed => CheckInsPct(u) = 100
            /\ DaysAchieved(g, u) > 0 => u \in MembersCheckedIn
            /\ \A d \in done \cap ContributionDays : Contribution(u, d) > 0
            /\ Cardinality(done \cap LastSeven) <= DaysCheckedIn(u)
            /\ Score(u) >= 10 * streak[g][u].cur + Cardinality(done)
            /\ AdminLast7(g, u) = Cardinality({d \in done : AdminLevel(g, u, d) = 4 /\ d >= today - 6})
            /\ AdminLast7(g, u) <= DaysCheckedIn(u)
            /\ AdminUser(u).checkIns >= Cardinality(done) /\ AdminUser(u).streak >= streak[g][u].cur

\* The feed tells what the lists say: a goal that was done on a date is shown so
\* in the items, however many photos make them, of the one post that its event
\* came from, and in no other item of that date. The page of that post agrees
\* unless the check-in named the goal twice, with both answers.
PostsTell ==
    \A g \in Goals, u \in Users, d \in Days, photos \in [Reflections -> 0 .. MaxPhotos] :
        LET shown == {i \in Feed({u}, {d}, photos) : g \in FeedChecked(i.post)}
        IN  /\ shown = IF Mark(g, u, d) = "yes" THEN Items(event[g][u][d].by, photos) ELSE {}
            /\ \A i \in shown : <<g, FALSE>> \notin reflection[i.post].said =>
                  \A f \in PostGoals(i.post) : f[g]
=============================================================================
