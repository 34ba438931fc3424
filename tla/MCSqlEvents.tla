------------------------------ MODULE MCSqlEvents ------------------------------
(* Small instances of SqlEvents for TLC. *)
EXTENDS SqlEvents

\* Tasks, connections, statements, requests and ids are interchangeable.
Symmetry == Permutations(Tasks) \cup Permutations(Conns) \cup Permutations(Stmts)
              \cup Permutations(Requests) \cup Permutations(Idents)
=============================================================================
