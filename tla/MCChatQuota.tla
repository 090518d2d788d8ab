----------------------------- MODULE MCChatQuota -----------------------------
(* Small instances of ChatQuota.                                           *)
EXTENDS ChatQuota, TLC

Symmetry == Permutations(Requests)
=============================================================================
