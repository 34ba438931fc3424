---------------------------- MODULE IntervalMerge ----------------------------
(***************************************************************************)
(* The time that intervals cover together: the loop of merge_intervals_ns  *)
(* (utils/timing.py), which refuses an invalid interval, and the one of    *)
(* mergedDuration (dashboard/static/app.js), whose callers leave invalid   *)
(* intervals out; then the sum over what they merged.  One interval is     *)
(* taken, and later added, in each step.                                   *)
(***************************************************************************)
EXTENDS Integers, FiniteSets, Functions, Sequences

CONSTANTS
    None,       \* no bounds; the end of a segment that is not finished
    Lists,      \* the sequences of intervals that are measured
    Bounds      \* the intervals they are compared with

Interval == [start : Int, end : Int]

ASSUME ListsAssumption ==
    Lists \subseteq Seq([start : Int, end : Int \cup {None}])

ASSUME BoundsAssumption == Bounds \subseteq Interval \cup {None} /\ None \notin Int

VARIABLES
    where,      \* who merges: the rules or the page
    measured,   \* the intervals that were measured
    bounds,     \* the interval that they should be in
    ordered,    \* those that are merged, in order
    merged,     \* the result so far
    next,       \* the index of the next interval
    total,      \* the duration so far
    added,      \* how many of the merged intervals it is the duration of
    result      \* none yet, merging, adding, done or invalid

vars == <<where, measured, bounds, ordered, merged, next, total, added, result>>

\* _validate_interval, and validInterval of the page.
IsValid(x) ==
    /\ x.end # None
    /\ x.start <= x.end
    /\ bounds # None => bounds.start <= x.start /\ x.end <= bounds.end

\* What is merged: everything, or what the page does not filter out.
Taken ==
    IF where = "page" THEN {k \in DOMAIN measured : IsValid(measured[k])}
    ELSE DOMAIN measured

\* The order of pairs.
IsBefore(x, y) ==
    x.start < y.start \/ (x.start = y.start /\ x.end <= y.end)

IsSorted(list) ==
    \A j, k \in DOMAIN list : j < k => IsBefore(list[j], list[k])

Init ==
    /\ where \in {"rules", "page"}
    /\ measured \in Lists
    /\ bounds \in Bounds
    /\ where = "page" => bounds # None
    /\ ordered = <<>>
    /\ merged = <<>>
    /\ next = 1
    /\ total = 0
    /\ added = 0
    /\ result = "none"

\* The rules do not look at intervals when a segment is not finished; both do
\* not when the bounds are reversed.
Unfit ==
    \/ bounds # None /\ bounds.end < bounds.start
    \/ where = "rules" /\ \E k \in DOMAIN measured : measured[k].end = None

Refuse ==
    /\ result = "none"
    /\ Unfit
    /\ result' = "invalid"
    /\ UNCHANGED <<where, measured, bounds, ordered, merged, next, total, added>>

\* sorted(), a permutation of what is taken.
Sort ==
    /\ result = "none"
    /\ ~Unfit
    /\ \E p \in Bijection(1 .. Cardinality(Taken), Taken) :
         /\ ordered' = [k \in 1 .. Cardinality(Taken) |-> measured[p[k]]]
         /\ IsSorted(ordered')
    /\ result' = "merging"
    /\ UNCHANGED <<where, measured, bounds, merged, next, total, added>>

\* An interval that touches the last one is merged with it.
IsApart(x) == merged # <<>> => x.start > merged[Len(merged)].end

\* (Mutant: the end of the last one is replaced.)
LaterEnd(x) == x.end

FurtherEnd(x) ==
    IF merged[Len(merged)].end > x.end THEN merged[Len(merged)].end ELSE x.end

Open(x) ==
    /\ IsApart(x)
    /\ merged' = Append(merged, x)

Extend(x) ==
    /\ ~IsApart(x)
    /\ merged' = [merged EXCEPT ![Len(merged)].end = FurtherEnd(x)]

\* One turn of the loop.
Take ==
    LET x == ordered[next] IN
    /\ result = "merging"
    /\ next <= Len(ordered)
    /\ IsValid(x)
    /\ Open(x) \/ Extend(x)
    /\ next' = next + 1
    /\ UNCHANGED <<where, measured, bounds, ordered, total, added, result>>

\* InvalidIntervalError.
Reject ==
    /\ result = "merging"
    /\ next <= Len(ordered)
    /\ ~IsValid(ordered[next])
    /\ result' = "invalid"
    /\ UNCHANGED <<where, measured, bounds, ordered, merged, next, total, added>>

Merge ==
    /\ result = "merging"
    /\ next > Len(ordered)
    /\ result' = "adding"
    /\ UNCHANGED <<where, measured, bounds, ordered, merged, next, total, added>>

-----------------------------------------------------------------------------
\* What an interval adds.  (Mutant: the gap before it, too.)
SpanBefore(k) == merged[k].end - (IF k = 1 THEN merged[k].start ELSE merged[k - 1].end)

Span(k) == merged[k].end - merged[k].start

\* One term of the sum of interval_union_duration_ns.
Add ==
    /\ result = "adding"
    /\ added < Len(merged)
    /\ total' = total + Span(added + 1)
    /\ added' = added + 1
    /\ UNCHANGED <<where, measured, bounds, ordered, merged, next, result>>

Finish ==
    /\ result = "adding"
    /\ added = Len(merged)
    /\ result' = "done"
    /\ UNCHANGED <<where, measured, bounds, ordered, merged, next, total, added>>

Next == Refuse \/ Sort \/ Take \/ Reject \/ Merge \/ Add \/ Finish

Spec == Init /\ [][Next]_vars

-----------------------------------------------------------------------------
\* self_duration_ns and unattributed_duration_ns, of the bounds.
SelfDuration == bounds.end - bounds.start - total

Holds(x, moment) == x.start <= moment /\ moment < x.end

(***************************************************************************)
(* Whatever overlaps, touches, repeats or is empty, the merged intervals   *)
(* are apart from each other, in order, and hold the moments of what was   *)
(* measured: none is counted twice and none is lost.                       *)
(***************************************************************************)
MergedIsUnion ==
    result = "done" =>
        /\ \A j, k \in DOMAIN merged : j < k => merged[j].end < merged[k].start
        /\ \A k \in Taken : \A m \in measured[k].start .. (measured[k].end - 1) :
             \E j \in DOMAIN merged : Holds(merged[j], m)
        /\ \A j \in DOMAIN merged : \A m \in merged[j].start .. (merged[j].end - 1) :
             \E k \in Taken : Holds(measured[k], m)

(***************************************************************************)
(* The duration of the union is the number of moments that were measured,  *)
(* so no more than the bounds: self and unattributed time are not negative *)
(* and together with the union they are the whole.                         *)
(***************************************************************************)
DurationIsMeasure ==
    result = "done" =>
        /\ total = Cardinality(
             UNION {measured[k].start .. (measured[k].end - 1) : k \in Taken})
        /\ bounds # None => SelfDuration \in 0 .. (bounds.end - bounds.start)
=============================================================================
