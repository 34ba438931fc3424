---------------------------- MODULE MCTraceStore ----------------------------
(* Small instances of TraceStore for TLC. *)
EXTENDS TraceStore, TLC

\* Readers are interchangeable; ids and times are ordered and are not.
Symmetry == Permutations(Readers)

\* All at once, in the order of the ids, against it, by turns, and one never.
SomeCompletions ==
    {[i \in Ids |-> 0], [i \in Ids |-> i], [i \in Ids |-> -i],
     [i \in Ids |-> i % 2], [i \in Ids |-> IF i = 3 THEN -1 ELSE i]}
=============================================================================
