-------------------------------- MODULE Streaks --------------------------------
(***************************************************************************)
(* goal_streaks rows and the calendar: iso_week and update_goal_streak of  *)
(* app/modules/reflections/service.py, and the reset that both streak      *)
(* reconciliation services apply, as operators on one row.                 *)
(*                                                                         *)
(* Here and in every module of the project, a definition whose name starts *)
(* with "Faulty" is a wrong variant of the one it stands before, kept to   *)
(* show that a property notices the slip. It is part of no specification.  *)
(***************************************************************************)
EXTENDS Integers

CONSTANTS
    LastDay,        \* bound: the calendar is cut off after this day
    WeekLen,        \* days of a Monday..Sunday week: 7
    YearStart(_)    \* the first week of the ISO year a week belongs to

Days  == 0 .. LastDay           \* day 0 is a Monday
Week(d) == d \div WeekLen       \* weeks counted from day 0
NoDate  == -2                   \* NULL last_completed_date; # d - 1 for a day d

ASSUME CalendarAssumption ==
    /\ LastDay \in Nat
    /\ WeekLen \in Nat \ {0}
    /\ \A d \in Days : YearStart(Week(d)) \in 0 .. Week(d)

-----------------------------------------------------------------------------
(* Rows *)

\* A missing goal_streaks row and a new one behave alike: update_goal_streak
\* inserts (0, 0, NULL) before it goes on.
NewStreak == [cur |-> 0, longest |-> 0, last |-> NoDate]
StreakRow == [cur : Nat, longest : Nat, last : Days \cup {NoDate}]

-----------------------------------------------------------------------------
(* update_goal_streak *)

Larger(a, b) == IF a >= b THEN a ELSE b

\* iso_week: years are named by their first week.
IsoWeek(d) == LET y == YearStart(Week(d))
              IN  [year |-> y, week |-> Week(d) - y + 1]

FaultyFollowsDay(last, d)   == last \in {d - 2, d - 1}
FaultyAdjacentDay(last, d)  == last \in {d - 1, d + 1}
FaultyFollowsWeek(last, d)  == /\ last # NoDate
                               /\ IsoWeek(d).week = IsoWeek(last).week + 1
FaultyExtend(s, d, linked)  == [cur     |-> IF linked THEN s.cur + 1 ELSE 1,
                                longest |-> Larger(s.longest, s.cur),
                                last    |-> d]

FollowsDay(last, d)  == last = d - 1

SameWeek(last, d)    == last # NoDate /\ IsoWeek(last) = IsoWeek(d)

FollowsWeek(last, d) == /\ last # NoDate
                        /\ IsoWeek(d).year = IsoWeek(last).year
                        /\ IsoWeek(d).week = IsoWeek(last).week + 1

Extend(s, d, linked) ==
    LET c == IF linked THEN s.cur + 1 ELSE 1
    IN  [cur |-> c, longest |-> Larger(s.longest, c), last |-> d]

DailyStreak(s, d, done) ==
    CASE s.last = d                                     -> s
      [] s.last # d /\ done                             -> Extend(s, d, FollowsDay(s.last, d))
      [] s.last # d /\ ~done /\ FollowsDay(s.last, d)   -> [s EXCEPT !.cur = 0]
      [] OTHER                                          -> s

WeeklyStreak(s, d, done) ==
    IF ~done \/ SameWeek(s.last, d) THEN s
    ELSE Extend(s, d, FollowsWeek(s.last, d))

UpdateStreak(type, s, d, done) ==
    CASE type = "daily"  -> DailyStreak(s, d, done)
      [] type = "weekly" -> WeeklyStreak(s, d, done)
      [] OTHER           -> s

-----------------------------------------------------------------------------
(* reconciliation *)

FaultyReset(s) == NewStreak
Reset(s) == [cur |-> 0, longest |-> s.longest, last |-> NoDate]
=============================================================================
