----------------------------- MODULE MCEngagement -----------------------------
(* A small instance of Engagement. A liveness property takes no symmetry.    *)
EXTENDS Engagement, TLC
=============================================================================
