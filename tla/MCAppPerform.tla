---------------------------- MODULE MCAppPerform ----------------------------
(* Instances of AppPerform for TLC; callers differ in what they call only. *)
EXTENDS AppPerform, TLC

Symmetry == Permutations(Performers)
=============================================================================
