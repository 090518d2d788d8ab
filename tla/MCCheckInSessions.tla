-------------------------- MODULE MCCheckInSessions --------------------------
(* Small instances of CheckInSessions.                                     *)
EXTENDS CheckInSessions, TLC

MCYearStart(w) == 0

\* Identifiers are interchangeable: those named 1, 2, ... are taken in order.
InOrder == \A r \in Reflections : r > 1 /\ reflection[r] # Unused => reflection[r - 1] # Unused
=============================================================================
