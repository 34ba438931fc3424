---------------------------- MODULE DiagnosticRules ----------------------------
(***************************************************************************)
(* The built-in diagnostic rules (diagnostics/rules.py): what each of them *)
(* reports of the snapshot of one trace, and the list the engine makes of  *)
(* their findings.  A finding is its code and the segment it is about; the *)
(* wording of its message is left out.                                     *)
(*                                                                         *)
(* A trace is a record with the checkpoints of its lifecycle, a sequence   *)
(* of segments and a sequence of logical dependencies.  Percentages are    *)
(* compared without dividing.                                              *)
(***************************************************************************)
EXTENDS Integers, FiniteSets, SequencesExt

CONSTANTS
    None,               \* Python's None
    RequestTime,        \* DiagnosticConfig.slow_request_threshold_ms
    DependencyTime,     \* slow_dependency_threshold_ms
    DependencyShare,    \* slow_dependency_percentage
    RepeatedMinimum,    \* repeated_query_minimum
    NPlusOneMinimum,    \* n_plus_one_minimum
    NPlusOneShare,      \* n_plus_one_percentage
    SerializationTime,  \* serialization_threshold_ms
    SerializationShare  \* serialization_percentage

ASSUME ThresholdAssumption ==
    /\ {RequestTime, DependencyTime, DependencyShare, NPlusOneShare,
        SerializationTime, SerializationShare} \subseteq Nat
    /\ {RepeatedMinimum, NPlusOneMinimum} \subseteq Nat \ {0, 1}
    /\ None \notin Int

\* A finding that needs `condition`.
When(condition, code, about) ==
    IF condition THEN << [code |-> code, about |-> about] >> ELSE <<>>

\* The k-th of a set of numbers.
Nth(S, k) == CHOOSE x \in S : Cardinality({y \in S : y < x}) = k - 1

\* One finding for each of the segments at `positions`.
AboutEach(t, code, positions) ==
    [k \in 1 .. Cardinality(positions) |->
       [code |-> code, about |-> t.segments[Nth(positions, k)].id]]

-----------------------------------------------------------------------------
\* _duration_denominator: the time a share is taken of, for work that was seen
\* to end at `end`.  (Mutant: work after the response is a share of it.)
ResponseOnly(t, fallback, end) ==
    IF t.body # None /\ t.body > t.received
    THEN t.body - t.received
    ELSE IF fallback /\ t.app # None /\ t.app > t.received
    THEN t.app - t.received
    ELSE None

Denominator(t, fallback, end) ==
    IF /\ fallback /\ t.app # None /\ t.app > t.received
       /\ end # None /\ t.body # None /\ end > t.body
    THEN t.app - t.received
    ELSE IF t.body # None /\ t.body > t.received
    THEN t.body - t.received
    ELSE IF fallback /\ t.app # None /\ t.app > t.received
    THEN t.app - t.received
    ELSE None

\* The moments that the segments of S cover.
Covered(S) == UNION {s.start .. (s.end - 1) : s \in S}

Misplaced(s, first, last) == s.start < first \/ s.end > last

\* _union_duration_ms of finished segments; IntervalMerge shows that merging
\* the sorted intervals computes it.
UnionTime(S) ==
    IF \E s \in S : s.end = None \/ s.end < s.start
    THEN None
    ELSE Cardinality(Covered(S))

\* _threshold_reasons: there is a reason.
Exceeds(time, absolute, share, whole) ==
    \/ time >= absolute
    \/ whole # None /\ time * 100 >= share * whole

-----------------------------------------------------------------------------
SlowRequestRule(t) ==
    When(t.body # None /\ t.body - t.received >= RequestTime,
         "slow_request", None)

IsSlowDependency(t, s) ==
    /\ s.type \in {"dependency_setup", "dependency_cleanup"}
    /\ s.end # None
    /\ Exceeds(s.end - s.start, DependencyTime, DependencyShare,
               Denominator(t, TRUE, s.end))

SlowDependencyRule(t) ==
    AboutEach(t, "slow_dependency",
              {i \in DOMAIN t.segments : IsSlowDependency(t, t.segments[i])})

IsSlowSerialization(t, s) ==
    /\ s.type = "serialization"
    /\ s.end # None
    /\ Exceeds(s.end - s.start, SerializationTime, SerializationShare,
               Denominator(t, FALSE, None))

ExpensiveSerializationRule(t) ==
    AboutEach(t, "expensive_serialization",
              {i \in DOMAIN t.segments : IsSlowSerialization(t, t.segments[i])})

-----------------------------------------------------------------------------
\* _sql_groups: the fingerprints, and the positions of the statements that have
\* one of them.
IsQuery(s, query) == s.type = "sql" /\ s.query = query

Queries(t) ==
    {s.query : s \in {x \in ToSet(t.segments) : x.type = "sql"}} \ {None}

Statements(t, query) == {i \in DOMAIN t.segments : IsQuery(t.segments[i], query)}

\* The last end of finished statements.
LastEnd(S) == CHOOSE e \in {s.end : s \in S} : \A s \in S : s.end <= e

IsNPlusOne(t, group) ==
    LET segments == {t.segments[i] : i \in group}
        time     == UnionTime(segments)
        whole    == Denominator(t, TRUE, LastEnd(segments)) IN
    /\ Cardinality(group) >= NPlusOneMinimum
    /\ time # None
    /\ whole # None
    /\ time * 100 >= NPlusOneShare * whole

\* One finding for each query of a set, in their order, about the first
\* statement that has it.
AboutFirst(t, code, queries) ==
    [k \in 1 .. Cardinality(queries) |->
       LET first == Min(Statements(t, Nth(queries, k))) IN
       [code |-> code, about |-> t.segments[first].id]]

RepeatedQueryRule(t) ==
    AboutFirst(t, "repeated_query",
      {q \in Queries(t) : Cardinality(Statements(t, q)) >= RepeatedMinimum})

PossibleNPlusOneRule(t) ==
    AboutFirst(t, "possible_n_plus_one",
      {q \in Queries(t) : IsNPlusOne(t, Statements(t, q))})

-----------------------------------------------------------------------------
SegmentIds(t) == {s.id : s \in ToSet(t.segments)}

DependencyIds(t) == {d.id : d \in ToSet(t.dependencies)}

\* A reference that names nothing in its trace.
IsDangling(id, known) == id # None /\ id \notin known

\* The timing of a segment is missing, negative or outside of the lifecycle.
IsMistimed(t, s) ==
    \/ s.end = None \/ ~s.done
    \/ s.end < s.start
    \/ t.app # None /\ Misplaced(s, t.received, t.app)

SegmentFindings(t, s) ==
    LET code == "trace_integrity" IN
    When(s.trace # t.id, code, s.id)
    \o When(IsDangling(s.parent, SegmentIds(t)), code, s.id)
    \o When(IsDangling(s.dependency, DependencyIds(t)), code, s.id)
    \o When(IsMistimed(t, s), code, s.id)

DependencyFindings(t, d) ==
    LET code == "trace_integrity" IN
    When(d.trace # t.id, code, None)
    \o When(IsDangling(d.parent, DependencyIds(t)), code, None)
    \o When(IsDangling(d.source, DependencyIds(t)), code, None)
    \o When(IsDangling(d.setup, SegmentIds(t)), code, None)
    \o When(IsDangling(d.cleanup, SegmentIds(t)), code, None)

\* Each checkpoint that was observed is compared with the one before it.
LifecycleFindings(t) ==
    LET code  == "trace_integrity"
        start == IF t.start = None THEN t.received ELSE t.start
        body  == IF t.body = None THEN start ELSE t.body IN
    When(t.body # None /\ t.start = None, code, None)
    \o When(t.start # None /\ t.status = None, code, None)
    \o When(t.start # None /\ t.start < t.received, code, None)
    \o When(t.body # None /\ t.body < start, code, None)
    \o When(t.app # None /\ t.app < body, code, None)

IntegrityRule(t) ==
    LET segments     == t.segments
        dependencies == t.dependencies IN
    When(~t.complete, "incomplete_trace", None)
    \o LifecycleFindings(t)
    \o FlattenSeq([i \in DOMAIN segments |-> SegmentFindings(t, segments[i])])
    \o FlattenSeq([i \in DOMAIN dependencies |->
                     DependencyFindings(t, dependencies[i])])

-----------------------------------------------------------------------------
\* DiagnosticEngine.evaluate with the default rules: none of them raises.
Findings(t) ==
    IntegrityRule(t) \o SlowRequestRule(t) \o SlowDependencyRule(t)
    \o RepeatedQueryRule(t) \o PossibleNPlusOneRule(t)
    \o ExpensiveSerializationRule(t)
=============================================================================
