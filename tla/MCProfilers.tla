------------------------------ MODULE MCProfilers ------------------------------
(* Small instances of Profilers for TLC. *)
EXTENDS Profilers, TLC

\* Profilers, applications, callers and targets are interchangeable.
Symmetry == Permutations(Profilers) \cup Permutations(Apps)
              \cup Permutations(Callers) \cup Permutations(Targets)
=============================================================================
