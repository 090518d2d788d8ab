------------------------------ MODULE MCCheckIn ------------------------------
(* Small instances of CheckIn and its views.                           *)
EXTENDS PodViews, TLC

\* Weeks 0 and 1 are the last two of their ISO year, week 2 opens the next.
MCYearStart(w) == IF w >= 2 THEN 2 ELSE 0

Symmetry == Permutations(Reflections) \cup Permutations(Goals) \cup Permutations(Users)
=============================================================================
