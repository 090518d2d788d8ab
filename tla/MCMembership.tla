----------------------------- MODULE MCMembership -----------------------------
(* Small instances of MembershipSessions.                                  *)
EXTENDS MembershipSessions, TLC

Symmetry == Permutations(Users) \cup Permutations(Pods) \cup Permutations(Requests)
=============================================================================
