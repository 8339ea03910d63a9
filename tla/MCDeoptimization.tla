-------------------------- MODULE MCDeoptimization --------------------------
(* The instance of Deoptimization, and of ArtReplacement in it, for TLC.   *)
EXTENDS Deoptimization, TLC

Symmetry == Permutations(Methods) \cup Permutations(Replacements) \cup Permutations(Requests)

=============================================================================
