--------------------------- MODULE MCTraceLifecycle ---------------------------
(* Small instances of TraceLifecycle for TLC. *)
EXTENDS TraceLifecycle, TLC

\* Requests, tasks of one kind and segments are interchangeable.
Symmetry == Permutations(Requests) \cup Permutations(Segments)
              \cup Permutations(Tasks \ Threads) \cup Permutations(Threads)
=============================================================================
