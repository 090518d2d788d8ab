------------------------------ MODULE MCReminders -----------------------------
(* Small instances of Reminders, with the photos of Attachments.           *)
EXTENDS Attachments, TLC

Symmetry == Permutations(Requests) \cup Permutations(Jobs)
=============================================================================
