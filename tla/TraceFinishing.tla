---------------------------- MODULE TraceFinishing ----------------------------
(***************************************************************************)
(* What happens to a trace between the end of its request and the store:   *)
(* the rules are evaluated on a snapshot (middleware.py), the trace is     *)
(* redacted and cut (redaction.py), and the store takes it if its JSON is  *)
(* small enough (storage/memory.py, exporters/json.py).                    *)
(*                                                                         *)
(* The loop that shrinks a trace to its byte limit is modelled turn by     *)
(* turn.  A text is its length and whether it ends in an ellipsis; other   *)
(* data is long (beyond its limit) or not; attributes are the set of their *)
(* leaves, each with the keys and list positions that lead to it.          *)
(***************************************************************************)
EXTENDS DiagnosticRules

CONSTANTS
    Traces,         \* the traces that requests end with
    Limits,         \* values of max_trace_bytes
    MaxSegments, MaxDependencies, MaxDiagnostics, MaxText,
    MaxAttributes, MaxItems, MaxDepth,
    FrameBytes, SegmentBytes, DependencyBytes, FindingBytes, ErrorBytes

ASSUME LimitAssumption ==
    /\ Limits \subseteq Nat \ {0}
    /\ {MaxSegments, MaxDependencies, MaxDiagnostics, MaxText,
        MaxAttributes, MaxItems, MaxDepth} \subseteq Nat \ {0}

ASSUME BytesAssumption ==
    {FrameBytes, SegmentBytes, DependencyBytes, FindingBytes, ErrorBytes}
        \subseteq Nat \ {0}

Codes ==
    {"incomplete_trace", "trace_integrity", "slow_request", "slow_dependency",
     "repeated_query", "possible_n_plus_one", "expensive_serialization",
     "trace_truncated"}

Finding == [code : Codes, about : Int \cup {None}]

Text == [length : Nat, elided : BOOLEAN]

\* What leads to a value: each step is a key or a position among its siblings.
Step == [at : Nat, secret : BOOLEAN]

Values == {"short", "long", "nan", "cut", "null", "[REDACTED]", "[MAX_DEPTH]"}

Leaf == [way : Seq(Step) \ {<<>>}, value : Values]

SegmentType ==
    [id : Int, trace : Int, type : STRING, start : Int, end : Int \cup {None},
     done : BOOLEAN, parent : Int \cup {None}, dependency : Int \cup {None},
     query : Int \cup {None}, long : BOOLEAN, attributes : SUBSET Leaf]

DependencyType ==
    [id : Int, trace : Int, parent : Int \cup {None}, source : Int \cup {None},
     setup : Int \cup {None}, cleanup : Int \cup {None}, long : BOOLEAN]

TraceType ==
    [id : Int, complete : BOOLEAN, received : Int, start : Int \cup {None},
     body : Int \cup {None}, app : Int \cup {None}, status : Int \cup {None},
     error : {None, "short", "long", "cut"}, path : Text \cup {None},
     route : Text \cup {None}, method : Text \cup {None},
     segments : Seq(SegmentType), dependencies : Seq(DependencyType),
     findings : Seq(Finding)]

ASSUME TracesAssumption == \A t \in Traces : t \in TraceType

VARIABLES
    given,      \* the trace as its request left it
    limit,      \* the byte limit of the sanitizer and of the store
    trace,      \* the trace as the collector has it
    turn,       \* what comes next
    changed     \* whether this round of the loop removed something

vars == <<given, limit, trace, turn, changed>>

Collections == <<"segments", "dependencies", "findings">>

Texts == {"path", "route", "method"}

Marker == [code |-> "trace_truncated", about |-> None]

-----------------------------------------------------------------------------
\* truncate_text: the ellipsis counts as one character, and has three bytes.
Cut(text, n) ==
    IF text = None \/ text.length <= n THEN text
    ELSE [length |-> n, elided |-> TRUE]

TextBytes(text) ==
    IF text = None THEN 0 ELSE text.length + (IF text.elided THEN 2 ELSE 0)

\* _trace_size: the length of the JSON.
Size(t) ==
    FrameBytes + SegmentBytes * Len(t.segments)
    + DependencyBytes * Len(t.dependencies) + FindingBytes * Len(t.findings)
    + (IF t.error = None THEN 0 ELSE ErrorBytes)
    + TextBytes(t.path) + TextBytes(t.route) + TextBytes(t.method)

\* del list[n:].  (Mutant: the first are removed.)
LastOf(list, n) ==
    IF Len(list) <= n THEN list ELSE SubSeq(list, Len(list) - n + 1, Len(list))

Prefix(list, n) == IF Len(list) <= n THEN list ELSE SubSeq(list, 1, n)

\* _add_truncation_diagnostic: a marker, which only ever is the first finding,
\* is removed and put at the front.
Unmarked(findings) ==
    IF findings # <<>> /\ Head(findings).code = Marker.code
    THEN Tail(findings) ELSE findings

\* (Mutant: the limit is forgotten.)
MarkedLoosely(findings) == <<Marker>> \o Unmarked(findings)

Marked(findings) == Prefix(<<Marker>> \o Unmarked(findings), MaxDiagnostics)

-----------------------------------------------------------------------------
\* _mapping and _value on the way to one leaf: how far the way is followed.
\* It ends at a sensitive key, beyond the depth limit or at the leaf.
Way(leaf) ==
    LET ends == {i \in DOMAIN leaf.way : leaf.way[i].secret \/ i > MaxDepth} IN
    IF ends = {} THEN Len(leaf.way)
    ELSE CHOOSE i \in ends : \A j \in ends : i <= j

\* A key or an item on the way is beyond the limit of its collection.
IsDropped(leaf) ==
    \E i \in 1 .. Way(leaf) :
        leaf.way[i].at > (IF i = 1 THEN MaxAttributes ELSE MaxItems)

SafeValue(value) ==
    IF value = "long" THEN "cut" ELSE IF value = "nan" THEN "null" ELSE value

\* (Mutant: only the attributes themselves are looked at.)
SafeTopLeaf(leaf) ==
    LET n == Way(leaf) IN
    [way   |-> SubSeq(leaf.way, 1, n),
     value |-> IF leaf.way[1].secret THEN "[REDACTED]"
               ELSE IF n > MaxDepth THEN "[MAX_DEPTH]"
               ELSE SafeValue(leaf.value)]

SafeLeaf(leaf) ==
    LET n == Way(leaf) IN
    [way   |-> SubSeq(leaf.way, 1, n),
     value |-> IF leaf.way[n].secret THEN "[REDACTED]"
               ELSE IF n > MaxDepth THEN "[MAX_DEPTH]"
               ELSE SafeValue(leaf.value)]

SafeAttributes(leaves) == {SafeLeaf(l) : l \in {x \in leaves : ~IsDropped(x)}}

\* state.truncated: something other than a redaction is lost on the way.
Loses(leaf) ==
    IsDropped(leaf) \/ SafeLeaf(leaf).value \in {"[MAX_DEPTH]", "cut", "null"}

SafeSegment(s) ==
    [s EXCEPT !.long = FALSE, !.attributes = SafeAttributes(@)]

\* Everything that the sanitizer does before it looks at the size: three
\* lists, the fields and the attributes are bounded.
Bounded(t) ==
    LET segments     == Prefix(t.segments, MaxSegments)
        dependencies == Prefix(t.dependencies, MaxDependencies) IN
    [t EXCEPT
        !.method = Cut(@, MaxText), !.path = Cut(@, MaxText),
        !.route = Cut(@, MaxText),
        !.error = IF @ = "long" THEN "cut" ELSE @,
        !.segments = [i \in DOMAIN segments |-> SafeSegment(segments[i])],
        !.dependencies = [i \in DOMAIN dependencies |->
                            [dependencies[i] EXCEPT !.long = FALSE]],
        !.findings = Prefix(@, MaxDiagnostics)]

\* state.truncated after that.  (Mutant: only the lists are looked at.)
TruncatesLists(t) ==
    \/ Len(t.segments) > MaxSegments
    \/ Len(t.dependencies) > MaxDependencies
    \/ Len(t.findings) > MaxDiagnostics

Truncates(t) ==
    \/ Len(t.segments) > MaxSegments
    \/ Len(t.dependencies) > MaxDependencies
    \/ Len(t.findings) > MaxDiagnostics
    \/ \E f \in Texts : t[f] # None /\ t[f].length > MaxText
    \/ t.error = "long"
    \/ \E s \in ToSet(Prefix(t.segments, MaxSegments)) :
         s.long \/ \E l \in s.attributes : Loses(l)
    \/ \E d \in ToSet(Prefix(t.dependencies, MaxDependencies)) : d.long

-----------------------------------------------------------------------------
Init ==
    /\ given \in Traces
    /\ limit \in Limits
    /\ trace = given
    /\ turn = "diagnose"
    /\ changed = FALSE

\* _finalize: the rules see a snapshot taken before.
Diagnose ==
    /\ turn = "diagnose"
    /\ trace' = [trace EXCEPT !.findings = @ \o Findings(trace)]
    /\ turn' = "sanitize"
    /\ UNCHANGED <<given, limit, changed>>

\* sanitize up to the loop.
Sanitize ==
    LET bounded == Bounded(trace)
        marked  == IF Truncates(trace)
                   THEN [bounded EXCEPT !.findings = Marked(@)] ELSE bounded IN
    /\ turn = "sanitize"
    /\ IF Size(marked) > limit
       THEN /\ trace' = [marked EXCEPT !.findings = Marked(@)]
            /\ turn' = "loop"
       ELSE trace' = marked /\ turn' = "save"
    /\ UNCHANGED <<given, limit, changed>>

\* The condition of the loop of _shrink_to_byte_limit.
Loop ==
    /\ turn = "loop"
    /\ turn' = IF Size(trace) > limit THEN "segments" ELSE "save"
    /\ changed' = FALSE
    /\ UNCHANGED <<given, limit, trace>>

\* The least that is kept of a collection.
Minimum(c) == IF c = "findings" THEN 1 ELSE 0

AfterCollection(c) ==
    CASE c = "segments"     -> "dependencies"
      [] c = "dependencies" -> "findings"
      [] c = "findings"     -> "rest"

\* What half of a list is.
Half(n, least) == IF n \div 2 < least THEN least ELSE n \div 2

\* The loop goes on after a collection, unless the trace fits.
NextTurn(c, t) == IF Size(t) <= limit THEN "save" ELSE AfterCollection(c)

Halve(c) ==
    /\ turn = c
    /\ Len(trace[c]) > Minimum(c)
    /\ trace' = [trace EXCEPT ![c] = Prefix(@, Half(Len(@), Minimum(c)))]
    /\ changed' = TRUE
    /\ turn' = NextTurn(c, trace')
    /\ UNCHANGED <<given, limit>>

Pass(c) ==
    /\ turn = c
    /\ Len(trace[c]) <= Minimum(c)
    /\ turn' = AfterCollection(c)
    /\ UNCHANGED <<given, limit, trace, changed>>

\* Something was removed: another round.
Again ==
    /\ turn = "rest"
    /\ changed
    /\ turn' = "loop"
    /\ UNCHANGED <<given, limit, trace, changed>>

\* Nothing but the error and the texts is left.
DropError ==
    /\ turn = "rest"
    /\ ~changed
    /\ trace.error # None
    /\ trace' = [trace EXCEPT !.error = None]
    /\ turn' = "loop"
    /\ UNCHANGED <<given, limit, changed>>

\* (Mutants: of two characters one could not be removed; an ellipsis can be.)
LongerThanTwo(text) == text # None /\ text.length > 2

AnyText(text) == text # None /\ text.length > 0

CanShorten(text) == text # None /\ text.length > 1

Shortened(text) ==
    IF CanShorten(text) THEN Cut(text, Half(text.length, 1)) ELSE text

ShortenTexts ==
    /\ turn = "rest"
    /\ ~changed
    /\ trace.error = None
    /\ \E f \in Texts : CanShorten(trace[f])
    /\ trace' = [trace EXCEPT !.path = Shortened(@), !.route = Shortened(@),
                              !.method = Shortened(@)]
    /\ changed' = TRUE
    /\ turn' = "loop"
    /\ UNCHANGED <<given, limit>>

GiveUp ==
    /\ turn = "rest"
    /\ ~changed
    /\ trace.error = None
    /\ \A f \in Texts : ~CanShorten(trace[f])
    /\ turn' = "save"
    /\ UNCHANGED <<given, limit, trace, changed>>

\* The collector freezes the trace and the store takes it, unless its JSON is
\* too large: the error is suppressed and the trace is lost.
Save ==
    /\ turn = "save"
    /\ turn' = IF Size(trace) > limit THEN "refused" ELSE "stored"
    /\ UNCHANGED <<given, limit, trace, changed>>

Next ==
    \/ Diagnose \/ Sanitize \/ Loop
    \/ \E c \in ToSet(Collections) : Halve(c) \/ Pass(c)
    \/ Again \/ DropError \/ ShortenTexts \/ GiveUp
    \/ Save

Spec == Init /\ [][Next]_vars

\* The event loop goes on with a request that is not done.
FairSpec == Spec /\ WF_vars(Next)

-----------------------------------------------------------------------------
Turns == {"diagnose", "sanitize", "loop", "rest", "save", "stored", "refused"}
         \cup ToSet(Collections)

\* Every variable has its type, and the limits on the lists hold once the
\* trace is sanitized.
TypeOK ==
    /\ limit \in Limits
    /\ DOMAIN trace = DOMAIN given
    /\ \A f \in ToSet(trace.findings) : f \in Finding
    /\ turn \in Turns
    /\ changed \in BOOLEAN
    /\ turn \notin {"diagnose", "sanitize"} =>
         /\ Len(trace.segments) <= MaxSegments
         /\ Len(trace.dependencies) <= MaxDependencies
         /\ Len(trace.findings) <= MaxDiagnostics

-----------------------------------------------------------------------------
\* A leaf with nothing but what a sensitive key leads to taken out.
RedactedLeaf(leaf) ==
    LET secrets == {i \in DOMAIN leaf.way : leaf.way[i].secret} IN
    IF secrets = {} THEN leaf
    ELSE LET first == CHOOSE i \in secrets : \A j \in secrets : i <= j IN
         [way |-> SubSeq(leaf.way, 1, first), value |-> "[REDACTED]"]

RedactedSegment(s) ==
    [s EXCEPT !.attributes = {RedactedLeaf(l) : l \in @}]

\* The trace as it was given and diagnosed, redacted and otherwise whole.
Whole ==
    [given EXCEPT
       !.findings = @ \o Findings(given),
       !.segments = [i \in DOMAIN @ |-> RedactedSegment(@[i])]]

IsMarked(t) == t.findings # <<>> /\ t.findings[1] = Marker

(***************************************************************************)
(* No loss is silent: a trace that is stored either is the one that its    *)
(* request left, whole but for what is redacted, or its first finding      *)
(* tells that it was truncated.  Neither the limit on findings nor the     *)
(* loop that halves them removes that finding.                             *)
(***************************************************************************)
LossIsTold == turn = "stored" => trace = Whole \/ IsMarked(trace)

(***************************************************************************)
(* What a sensitive key leads to is never stored, at whatever depth of the *)
(* attributes it is found.                                                 *)
(***************************************************************************)
SecretsAreGone ==
    turn \in {"stored", "refused"} =>
        \A s \in ToSet(trace.segments) : \A l \in s.attributes :
            (\E i \in DOMAIN l.way : l.way[i].secret) => l.value = "[REDACTED]"

(***************************************************************************)
(* A trace is refused only when there is nothing left to remove: the loop  *)
(* does not give up early.                                                 *)
(***************************************************************************)
RefusedIsBare ==
    turn = "refused" =>
        /\ trace.segments = <<>> /\ trace.dependencies = <<>>
        /\ trace.findings = <<Marker>>
        /\ trace.error = None
        /\ \A f \in Texts : trace[f] = None \/ trace[f].length <= 1

\* Each segment comes after the one it names as its parent.
InOrder(segments) ==
    \A i \in DOMAIN segments : segments[i].parent # None =>
        \E j \in 1 .. (i - 1) : segments[j].id = segments[i].parent

IsBroken(t) ==
    \/ \E s \in ToSet(t.segments) :
         \/ IsDangling(s.parent, SegmentIds(t))
         \/ IsDangling(s.dependency, DependencyIds(t))
    \/ \E d \in ToSet(t.dependencies) :
         \/ \E id \in {d.parent, d.source} : IsDangling(id, DependencyIds(t))
         \/ \E id \in {d.setup, d.cleanup} : IsDangling(id, SegmentIds(t))

(***************************************************************************)
(* The tree that is stored can be read: where parents come first, every    *)
(* cut leaves each segment its parent, and a reference that names nothing  *)
(* is explained, by a finding on it if the request left it so, or by the   *)
(* marker if a limit took what it names.                                   *)
(***************************************************************************)
TreeIsExplained ==
    turn = "stored" =>
        /\ InOrder(given.segments) => InOrder(trace.segments)
        /\ IsBroken(trace) =>
             \/ IsMarked(trace)
             \/ \E f \in ToSet(trace.findings) : f.code = "trace_integrity"

\* A trace whose clock readings are in order.
IsTimed(t) ==
    /\ t.app # None /\ t.received <= t.app
    /\ t.body # None => t.received <= t.body /\ t.body <= t.app
    /\ \A s \in ToSet(t.segments) : s.end # None =>
         t.received <= s.start /\ s.start <= s.end /\ s.end <= t.app

(***************************************************************************)
(* A share of the request is at most all of it, where the rule lets work   *)
(* after the response count (SlowDependencyRule, PossibleNPlusOneRule):    *)
(* whatever segments such a rule compares with the request, overlapping,   *)
(* nested or after the response, they cover no more than what they are a   *)
(* share of.  ExpensiveSerializationRule divides by the response alone: a  *)
(* share above all of it is of work that ended after the body.             *)
(***************************************************************************)
ShareWithinWhole ==
    IsTimed(given) =>
        /\ \A S \in (SUBSET ToSet(given.segments)) \ {{}} :
             UnionTime(S) # None =>
                 LET whole == Denominator(given, TRUE, LastEnd(S)) IN
                 whole # None => UnionTime(S) <= whole
        /\ \A s \in ToSet(given.segments) :
             s.type = "serialization" /\ s.end # None =>
                 LET whole == Denominator(given, FALSE, None) IN
                 whole # None /\ s.end - s.start > whole => s.end > given.body

(***************************************************************************)
(* The loop ends: every trace is stored or refused.                        *)
(***************************************************************************)
EveryTraceEnds == <>(turn \in {"stored", "refused"})
=============================================================================
