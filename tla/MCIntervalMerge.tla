--------------------------- MODULE MCIntervalMerge ---------------------------
EXTENDS IntervalMerge

CONSTANTS MaxTime, MaxLength

\* Reversed and unfinished intervals are there too.
Measured == [start : 0 .. MaxTime, end : (0 .. MaxTime) \cup {None}]

SomeLists == UNION {[1 .. n -> Measured] : n \in 0 .. MaxLength}

SomeBounds == {[start |-> 0, end |-> MaxTime], [start |-> 1, end |-> MaxTime - 1],
               None}
=============================================================================
