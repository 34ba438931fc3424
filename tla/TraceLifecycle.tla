---------------------------- MODULE TraceLifecycle ----------------------------
(***************************************************************************)
(* The life of request traces in fastapi_latensight: the ASGI middleware   *)
(* (middleware.py), the collector that owns a mutable trace                *)
(* (collector.py), the two context variables (context.py) and the measured *)
(* segments the adapters and user code open and close (segments.py).       *)
(*                                                                         *)
(* Requests are served by asyncio tasks of one event loop.  A task may     *)
(* start other tasks and threads, each with a copy of its context, and     *)
(* these may outlive the request.  Tasks of the loop interleave only at an *)
(* await; threads interleave with everything.                              *)
(*                                                                         *)
(* The call stack of a task is a chain of frames: an open segment or a     *)
(* request being served.  top[t] is the innermost frame, below[f] the next *)
(* one, saved[f] the context that the tokens of f restore.                 *)
(***************************************************************************)
EXTENDS Naturals, Sequences, FiniteSets, Functions

CONSTANTS
    Requests,       \* HTTP requests that may be traced
    Tasks,          \* asyncio tasks and threads
    Threads,        \* those of Tasks that run outside the event loop
    Segments,       \* identifiers of measured segments (uuid4)
    Attributes,     \* kinds of segment attributes the application passes
    MaxSegments,    \* TraceSanitizerConfig.max_segments_per_trace
    Failures,       \* exceptions that application code raises
    Switches,       \* values that callers pass to ProfilerState (enable, disable)
    MaxLate,        \* bound on the late writes the model counts per request
    None

\* Attributes that serialize, that hold a value JSON has no form for, and whose
\* keys do not sort.
AttributeKinds == {"json", "opaque", "unsortable"}

ASSUME TaskAssumption    == Threads \subseteq Tasks /\ None \notin Tasks
ASSUME FrameAssumption   == /\ Requests \cap Segments = {}
                            /\ None \notin Requests \cup Segments
ASSUME AttrAssumption    == Attributes \subseteq AttributeKinds
ASSUME CallAssumption    == /\ Switches \subseteq BOOLEAN
                            /\ Failures \subseteq {"error", "cancelled"}
ASSUME BoundAssumption   == MaxSegments \in Nat \ {0} /\ MaxLate \in Nat

VARIABLES
    enabled,    \* ProfilerState._enabled
    pc,         \* where the middleware call of a request is
    task,       \* the task that serves a request
    trace,      \* the mutable RequestTrace a collector owns
    snapshot,   \* TraceCollector._snapshot
    late,       \* TraceCollector._late_segment_count
    stored,     \* requests whose snapshot reached the store
    seg,        \* the mutable TraceSegment of each identifier
    ctx,        \* _current_collector and _segment_stack of each task
    top, below, saved,
    raising,    \* the exception a task is unwinding, if any
    home        \* the request whose context a task was started with

vars == <<enabled, pc, task, trace, snapshot, late, stored, seg,
          ctx, top, below, saved, raising, home>>

Frames     == Requests \cup Segments
Exceptions == {"none", "error", "cancelled"}
Context    == [collector : Requests \cup {None}, stack : Seq(Segments)]
NoContext  == [collector |-> None, stack |-> <<>>]

TraceType ==
    [segments : Seq(Segments), started : BOOLEAN, body : BOOLEAN,
     closed : BOOLEAN, complete : BOOLEAN, error : Exceptions,
     reported : SUBSET Segments, truncated : BOOLEAN]

EmptyTrace ==
    [segments |-> <<>>, started |-> FALSE, body |-> FALSE, closed |-> FALSE,
     complete |-> FALSE, error |-> "none", reported |-> {}, truncated |-> FALSE]

SegmentType ==
    [trace : Requests \cup {None}, parent : Segments \cup {None},
     status : {"incomplete", "ok", "error", "cancelled"},
     attributes : AttributeKinds, bounded : BOOLEAN]

NoSegment ==
    [trace |-> None, parent |-> None, status |-> "incomplete",
     attributes |-> "json", bounded |-> FALSE]

\* A frozen trace and the segments it lists.
SnapshotType ==
    [trace : TraceType,
     segments : UNION {[S -> SegmentType] : S \in SUBSET Segments}]

ASSUME SnapshotAssumption == None \notin SnapshotType

\* The states in which the middleware runs without an await: no other task
\* of the event loop takes a step.
\* "discard" is "finalize" for a route that is not profiled.
OnLoop == {"diagnose", "sanitize", "finalize", "discard", "reset"}
Phases == {"idle", "app", "sending", "save", "done"} \cup OnLoop

-----------------------------------------------------------------------------
\* What TraceCollector.finalize() freezes: RequestTrace.snapshot().
Image(r) == [trace |-> trace[r],
             segments |-> [s \in Range(trace[r].segments) |-> seg[s]]]

Finalized(r) == snapshot[r] # None

\* The test under the lock with which the collector refuses a write.
\* (Mutant: no test.)
Unchecked(c) == FALSE

Late(c) == Finalized(c)

\* RequestTrace.snapshot() raises on such a trace.
Unfreezable(r) ==
    \E s \in Range(trace[r].segments) : seg[s].attributes = "unsortable"

\* The redaction of attributes or the JSON size estimate raises on such a list.
Unserializable(list) == \E s \in Range(list) : seg[s].attributes # "json"

\* A task of the loop runs only while no other one is between two awaits.
LoopFree(t) ==
    t \in Threads \/ \A r \in Requests : pc[r] \in OnLoop => task[r] = t

\* Application code of t may run: inside a segment, a request, or a task
\* started by a request.
InApp(t) ==
    \/ top[t] \in Segments
    \/ top[t] \in Requests /\ pc[top[t]] = "app"
    \/ top[t] = None /\ home[t] # None

\* A frame is pushed with the context its tokens restore, and popped.
Push(t, f) ==
    /\ saved' = [saved EXCEPT ![f] = ctx[t]]
    /\ below' = [below EXCEPT ![f] = top[t]]
    /\ top' = [top EXCEPT ![t] = f]

Pop(t) ==
    /\ saved' = [saved EXCEPT ![top[t]] = NoContext]
    /\ below' = [below EXCEPT ![top[t]] = None]
    /\ top' = [top EXCEPT ![t] = below[top[t]]]

Running(t) == LoopFree(t) /\ InApp(t) /\ raising[t] = "none"

Init ==
    /\ enabled = TRUE
    /\ pc = [r \in Requests |-> "idle"]
    /\ task = [r \in Requests |-> None]
    /\ trace = [r \in Requests |-> EmptyTrace]
    /\ snapshot = [r \in Requests |-> None]
    /\ late = [r \in Requests |-> 0]
    /\ stored = {}
    /\ seg = [s \in Segments |-> NoSegment]
    /\ ctx = [t \in Tasks |-> NoContext]
    /\ top = [t \in Tasks |-> None]
    /\ below = [f \in Frames |-> None]
    /\ saved = [f \in Frames |-> NoContext]
    /\ raising = [t \in Tasks |-> "none"]
    /\ home = [t \in Tasks |-> None]

-----------------------------------------------------------------------------
(***************************************************************************)
(* ProfilerState, called by any thread.                                    *)
(***************************************************************************)
Switch(v) ==
    /\ enabled' = v
    /\ UNCHANGED <<pc, task, trace, snapshot, late, stored, seg, ctx, top,
                   below, saved, raising, home>>

(***************************************************************************)
(* LatensightMiddleware.__call__ up to the call of the application.  The   *)
(* task is a fresh one of the server, or one already inside a request: a   *)
(* mounted application with its own middleware, an in-process client.      *)
(* A request that is not traced changes nothing.                           *)
(***************************************************************************)

\* (Mutant: the stack of the outer request is inherited.)
BoundOverStack(t, r) == [ctx[t] EXCEPT !.collector = r]

BoundContext(t, r) == [collector |-> r, stack |-> <<>>]

Accept(t, r) ==
    /\ enabled
    /\ pc[r] = "idle"
    /\ t \notin Threads
    /\ LoopFree(t)
    /\ raising[t] = "none"
    /\ top[t] = None \/ InApp(t)
    /\ pc' = [pc EXCEPT ![r] = "app"]
    /\ task' = [task EXCEPT ![r] = t]
    /\ ctx' = [ctx EXCEPT ![t] = BoundContext(t, r)]
    /\ Push(t, r)
    /\ UNCHANGED <<enabled, trace, snapshot, late, stored, seg,
                   raising, home>>

(***************************************************************************)
(* wrapped_send.  The start checkpoint is written before the message is    *)
(* sent, the body checkpoint after the await of the last chunk.  The       *)
(* server refuses a body before the start.                                 *)
(***************************************************************************)
SendStart(t, r) ==
    /\ top[t] = r /\ Running(t)
    /\ ~trace[r].started
    /\ trace' = [trace EXCEPT ![r].started = TRUE]
    /\ UNCHANGED <<enabled, pc, task, snapshot, late, stored, seg,
                   ctx, top, below, saved, raising, home>>

SendLastBody(t, r) ==
    /\ top[t] = r /\ Running(t)
    /\ trace[r].started /\ ~trace[r].body
    /\ pc' = [pc EXCEPT ![r] = "sending"]
    /\ UNCHANGED <<enabled, task, trace, snapshot, late, stored, seg,
                   ctx, top, below, saved, raising, home>>

SendReturns(t, r) ==
    /\ top[t] = r /\ LoopFree(t)
    /\ pc[r] = "sending"
    /\ pc' = [pc EXCEPT ![r] = "app"]
    /\ trace' = [trace EXCEPT ![r].body = TRUE]
    /\ UNCHANGED <<enabled, task, snapshot, late, stored, seg,
                   ctx, top, below, saved, raising, home>>

-----------------------------------------------------------------------------
(***************************************************************************)
(* enter_segment: the parent is the innermost open segment of the context, *)
(* the collector accepts under its lock, and only then is the stack pushed. *)
(* The identifier is fresh and the segment belongs to the collector that   *)
(* the context names.                                                      *)
(***************************************************************************)
ParentOf(stack) == IF stack = <<>> THEN None ELSE stack[Len(stack)]

OpenSegment(t, s, a) ==
    LET c == ctx[t].collector IN
    /\ Running(t)
    /\ c # None
    /\ ~Late(c)
    /\ seg[s].trace = None
    /\ seg' = [seg EXCEPT ![s] =
                 [trace |-> c, parent |-> ParentOf(ctx[t].stack),
                  status |-> "incomplete", attributes |-> a,
                  bounded |-> FALSE]]
    /\ trace' = [trace EXCEPT ![c].segments = Append(@, s)]
    /\ ctx' = [ctx EXCEPT ![t].stack = Append(@, s)]
    /\ Push(t, s)
    /\ UNCHANGED <<enabled, pc, task, snapshot, late, stored,
                   raising, home>>

\* A write after finalization is counted and dropped; nothing is pushed and
\* the matching exit is a no-op.
RejectSegment(t) ==
    LET c == ctx[t].collector IN
    /\ Running(t)
    /\ c # None
    /\ Late(c)
    /\ late[c] < MaxLate
    /\ late' = [late EXCEPT ![c] = @ + 1]
    /\ UNCHANGED <<enabled, pc, task, trace, snapshot, stored, seg,
                   ctx, top, below, saved, raising, home>>

(***************************************************************************)
(* _SegmentScope.finish and the finally blocks of the adapters: the        *)
(* collector of the segment takes the outcome, or counts a late write, and *)
(* the stack is restored in both cases.  An error message is stored as the *)
(* exception gave it.                                                      *)
(***************************************************************************)
\* (Mutant: a normal exit sets no status.)
RawOutcome(e) == e

Outcome(e) == IF e = "none" THEN "ok" ELSE e

CloseSegment(t) ==
    LET s == top[t]
        c == seg[s].trace IN
    /\ s \in Segments
    /\ LoopFree(t)
    /\ IF Late(c)
          THEN /\ late' = [late EXCEPT ![c] = @ + 1]
               /\ UNCHANGED seg
          ELSE /\ seg' = [seg EXCEPT ![s].status = Outcome(raising[t]),
                                    ![s].bounded = @ /\ raising[t] = "none"]
               /\ UNCHANGED late
    /\ ctx' = [ctx EXCEPT ![t].stack = saved[s].stack]
    /\ Pop(t)
    /\ UNCHANGED <<enabled, pc, task, trace, snapshot, stored, raising, home>>

-----------------------------------------------------------------------------
(***************************************************************************)
(* The application: it raises, is cancelled at an await, handles the       *)
(* exception, starts a task or a thread with a copy of its context.        *)
(***************************************************************************)
Raise(t, e) ==
    LET f == top[t] IN
    /\ LoopFree(t) /\ raising[t] = "none"
    /\ InApp(t) \/ (f \in Requests /\ pc[f] = "sending")
    /\ f # None
    /\ e = "cancelled" => t \notin Threads
    /\ raising' = [raising EXCEPT ![t] = e]
    /\ pc' = [r \in Requests |->
                IF r = f /\ pc[r] = "sending" THEN "app" ELSE pc[r]]
    /\ UNCHANGED <<enabled, task, trace, snapshot, late, stored, seg,
                   ctx, top, below, saved, home>>

Catch(t) ==
    /\ LoopFree(t) /\ InApp(t)
    /\ raising[t] # "none"
    /\ raising' = [raising EXCEPT ![t] = "none"]
    /\ UNCHANGED <<enabled, pc, task, trace, snapshot, late, stored,
                   seg, ctx, top, below, saved, home>>

Spawn(t, w) ==
    /\ Running(t)
    /\ ctx[t].collector # None
    /\ w # t /\ top[w] = None /\ home[w] = None
    /\ \A r \in Requests : task[r] # w
    /\ ctx' = [ctx EXCEPT ![w] = ctx[t]]
    /\ home' = [home EXCEPT ![w] = ctx[t].collector]
    /\ UNCHANGED <<enabled, pc, task, trace, snapshot, late, stored,
                   seg, top, below, saved, raising>>

-----------------------------------------------------------------------------
(***************************************************************************)
(* The finally block of the middleware and _finalize, up to the await of   *)
(* the store one synchronous run of the loop, step by step because threads *)
(* may write to the collector between any two of its steps.                *)
(***************************************************************************)
AppEnds(t, r) ==
    /\ top[t] = r /\ LoopFree(t)
    /\ pc[r] = "app"
    /\ trace' = [trace EXCEPT ![r].error = raising[t],
                              ![r].closed = TRUE,
                              ![r].complete = trace[r].body]
    /\ \E next \in {"diagnose", "discard"} : pc' = [pc EXCEPT ![r] = next]
    /\ UNCHANGED <<enabled, task, snapshot, late, stored, seg, ctx, top,
                   below, saved, raising, home>>

\* The integrity rule reports the segments that are still open.
\* (Mutant: those that ended.)
EndedSegmentsOf(r) ==
    {s \in Range(trace[r].segments) : seg[s].status # "incomplete"}

OpenSegmentsOf(r) ==
    {s \in Range(trace[r].segments) : seg[s].status = "incomplete"}

Diagnose(t, r) ==
    /\ top[t] = r
    /\ pc[r] = "diagnose"
    /\ ~Unfreezable(r)
    /\ trace' = [trace EXCEPT ![r].reported = OpenSegmentsOf(r)]
    /\ pc' = [pc EXCEPT ![r] = "sanitize"]
    /\ UNCHANGED <<enabled, task, snapshot, late, stored, seg, ctx,
                   top, below, saved, raising, home>>

\* The segment list is cut to its limit and, when the serialized trace is
\* still too large, halved until it fits.
KeptLengths(n) ==
    LET cut == IF n > MaxSegments THEN MaxSegments ELSE n IN
    {k \in 0 .. cut : \E d \in 0 .. cut : k = cut \div (2 ^ d)}

\* The list is cut at its end.  (Mutant: at its start.)
KeptLast(list, k) == SubSeq(list, Len(list) - k + 1, Len(list))

Kept(list, k) == SubSeq(list, 1, k)

\* A list that was cut is marked.  (Mutant: it is not.)
NeverMarked(n, k) == FALSE

Marked(n, k) == k < n

\* The list that the sanitizer estimates the size of.
Limited(list) == Kept(list, IF Len(list) > MaxSegments THEN MaxSegments ELSE Len(list))

\* What raises in each step of _finalize.
Raises(r) ==
    \/ pc[r] \in {"diagnose", "finalize", "discard"} /\ Unfreezable(r)
    \/ pc[r] = "sanitize" /\ Unserializable(Limited(trace[r].segments))

\* (Mutant: the exception also skips the reset of the context.)
DropWithoutReset(t, r) ==
    /\ top[t] = r
    /\ Raises(r)
    /\ pc' = [pc EXCEPT ![r] = "done"]
    /\ UNCHANGED <<enabled, task, trace, snapshot, late, stored, seg,
                   ctx, top, below, saved, raising, home>>

\* An exception in _finalize drops the trace: the collector stays open, and
\* nobody reads what the sanitizer may have changed in it.
Drop(t, r) ==
    /\ top[t] = r
    /\ Raises(r)
    /\ pc' = [pc EXCEPT ![r] = "reset"]
    /\ UNCHANGED <<enabled, task, trace, snapshot, late, stored, seg,
                   ctx, top, below, saved, raising, home>>

\* TraceSanitizer.sanitize: what is left is bounded; any cut, here or in the
\* data left out of the model, leaves a marker, and may drop findings.
Sanitize(t, r) ==
    /\ top[t] = r
    /\ pc[r] = "sanitize"
    /\ ~Raises(r)
    /\ \E k \in KeptLengths(Len(trace[r].segments)) :
         LET kept == Kept(trace[r].segments, k) IN
         /\ \E mark \in BOOLEAN, named \in SUBSET trace[r].reported :
              /\ Marked(Len(trace[r].segments), k) => mark
              /\ ~mark => named = trace[r].reported
              /\ trace' = [trace EXCEPT ![r].segments = kept,
                                        ![r].reported = named,
                                        ![r].truncated = mark]
         /\ seg' = [s \in Segments |->
                      IF s \in Range(kept)
                        THEN [seg[s] EXCEPT !.bounded = TRUE] ELSE seg[s]]
    /\ pc' = [pc EXCEPT ![r] = "finalize"]
    /\ UNCHANGED <<enabled, task, snapshot, late, stored, ctx, top,
                   below, saved, raising, home>>

\* TraceCollector.finalize, under the lock of the collector.
Finalize(t, r) ==
    /\ top[t] = r
    /\ pc[r] \in {"finalize", "discard"}
    /\ ~Unfreezable(r)
    /\ snapshot' = [snapshot EXCEPT ![r] = IF @ = None THEN Image(r) ELSE @]
    /\ pc' = [pc EXCEPT ![r] = IF @ = "finalize" THEN "save" ELSE "reset"]
    /\ UNCHANGED <<enabled, task, trace, late, stored, seg, ctx, top,
                   below, saved, raising, home>>

\* The store takes or refuses the snapshot, and has to refuse one that does not
\* serialize; its exceptions are suppressed, a cancellation of the await is not.
Save(t, r) ==
    /\ top[t] = r /\ LoopFree(t)
    /\ pc[r] = "save"
    /\ \/ UNCHANGED stored
       \/ /\ ~Unserializable(snapshot[r].trace.segments)
          /\ stored' = stored \cup {r}
    /\ \E e \in {raising[t]} \cup (Failures \cap {"cancelled"}) :
         raising' = [raising EXCEPT ![t] = e]
    /\ pc' = [pc EXCEPT ![r] = "reset"]
    /\ UNCHANGED <<enabled, task, trace, snapshot, late, seg, ctx,
                   top, below, saved, home>>

\* The tokens restore the context of the caller.  (Mutant: they are dropped.)
Unrestored(t, r) == ctx[t]

Restored(t, r) == saved[r]

\* reset_request_context; the exception, if any, goes on to the caller.
Reset(t, r) ==
    /\ top[t] = r
    /\ pc[r] = "reset"
    /\ ctx' = [ctx EXCEPT ![t] = Restored(t, r)]
    /\ Pop(t)
    /\ raising' = [raising EXCEPT ![t] = IF below[r] = None THEN "none" ELSE @]
    /\ pc' = [pc EXCEPT ![r] = "done"]
    /\ UNCHANGED <<enabled, task, trace, snapshot, late, stored, seg,
                   home>>

-----------------------------------------------------------------------------
Settle(t, r) ==
    \/ Drop(t, r)     \/ Diagnose(t, r)  \/ Sanitize(t, r)
    \/ Finalize(t, r) \/ Save(t, r)      \/ Reset(t, r)

Serve(t, r) ==
    \/ Accept(t, r)       \/ SendStart(t, r)  \/ SendLastBody(t, r)
    \/ SendReturns(t, r)  \/ AppEnds(t, r)    \/ Settle(t, r)

Measure(t) ==
    \/ \E s \in Segments, a \in Attributes : OpenSegment(t, s, a)
    \/ RejectSegment(t)
    \/ CloseSegment(t)

Run(t) ==
    \/ \E e \in Failures : Raise(t, e)
    \/ Catch(t)
    \/ \E w \in Tasks : Spawn(t, w)

Next ==
    \/ \E v \in Switches : Switch(v)
    \/ \E t \in Tasks, r \in Requests : Serve(t, r)
    \/ \E t \in Tasks : Measure(t) \/ Run(t)

Spec == Init /\ [][Next]_vars

(***************************************************************************)
(* The event loop runs a task that is ready, and a store answers.          *)
(***************************************************************************)
FairSpec == Spec /\ \A t \in Tasks, r \in Requests : WF_vars(Settle(t, r))

-----------------------------------------------------------------------------
\* Every variable has its type.
TypeOK ==
    /\ enabled \in BOOLEAN
    /\ pc \in [Requests -> Phases]
    /\ task \in [Requests -> Tasks \cup {None}]
    /\ trace \in [Requests -> TraceType]
    /\ snapshot \in [Requests -> SnapshotType \cup {None}]
    /\ late \in [Requests -> Nat]
    /\ stored \subseteq Requests
    /\ seg \in [Segments -> SegmentType]
    /\ ctx \in [Tasks -> Context]
    /\ top \in [Tasks -> Frames \cup {None}]
    /\ below \in [Frames -> Frames \cup {None}]
    /\ saved \in [Frames -> Context]
    /\ raising \in [Tasks -> Exceptions]
    /\ home \in [Tasks -> Requests \cup {None}]

(***************************************************************************)
(* A finalized collector is frozen: the trace and the segments it owns     *)
(* still read as its snapshot does, however many tasks and threads of the  *)
(* request go on writing ("Late segments cannot mutate a finalized         *)
(* snapshot").                                                             *)
(***************************************************************************)
SnapshotIsFinal == \A r \in Requests : Finalized(r) => snapshot[r] = Image(r)

(***************************************************************************)
(* Concurrent and nested requests never mix segments: every segment of a   *)
(* trace was recorded for it, and so was its parent.                       *)
(***************************************************************************)
NoMixing ==
    \A r \in Requests : \A s \in Range(trace[r].segments) :
        /\ seg[s].trace = r
        /\ seg[s].parent # None => seg[seg[s].parent].trace = r

(***************************************************************************)
(* The context variable follows the calls: in every task it names the      *)
(* innermost request being served on the call stack, or the request that   *)
(* started the task; after the outermost request it is unset again.        *)
(***************************************************************************)
Enclosing(t) ==
    LET up[f \in Frames \cup {None}] ==
          IF f = None THEN home[t]
          ELSE IF f \in Requests THEN f ELSE up[below[f]]
    IN  up[top[t]]

ContextFollowsCalls == \A t \in Tasks : ctx[t].collector = Enclosing(t)

\* What a stored trace holds is within the limits of the sanitizer.
WithinLimits ==
    \A r \in stored :
        /\ Len(snapshot[r].trace.segments) <= MaxSegments
        /\ \A s \in DOMAIN snapshot[r].segments :
             snapshot[r].segments[s].bounded

(***************************************************************************)
(* The segments of a stored trace form a forest listed parents first: a    *)
(* parent is in the same list, before its children, whatever was cut.      *)
(***************************************************************************)
ParentsFirst ==
    \A r \in stored :
        LET list == snapshot[r].trace.segments IN
        \A i \in DOMAIN list :
            LET p == snapshot[r].segments[list[i]].parent IN
            p # None => \E j \in 1 .. (i - 1) : list[j] = p

(***************************************************************************)
(* Nothing is lost in silence: a stored trace that lacks a segment its     *)
(* collector accepted says that it was truncated.                          *)
(***************************************************************************)
NoSilentLoss ==
    \A r \in stored : ~snapshot[r].trace.truncated =>
        \A s \in Segments :
            seg[s].trace = r => s \in DOMAIN snapshot[r].segments

(***************************************************************************)
(* The integrity findings of a stored trace are about what is stored: they *)
(* name the segments the snapshot shows open, and unless findings were     *)
(* cut, all of them.                                                       *)
(***************************************************************************)
FindingsMatch ==
    \A r \in stored :
        LET shown == {s \in DOMAIN snapshot[r].segments :
                        snapshot[r].segments[s].status = "incomplete"}
            named == snapshot[r].trace.reported IN
        /\ named \cap DOMAIN snapshot[r].segments \subseteq shown
        /\ ~snapshot[r].trace.truncated => shown \subseteq named

(***************************************************************************)
(* "complete is true only when the response body completed, the downstream *)
(* ASGI application returned, and no collector integrity failure occurred" *)
(***************************************************************************)
CompleteMeansReturned ==
    \A r \in stored : snapshot[r].trace.complete =>
        snapshot[r].trace.body /\ snapshot[r].trace.error = "none"

(***************************************************************************)
(* A request whose application ended is settled: its trace is finalized or *)
(* dropped and the context of its task is restored, also when tracing was  *)
(* disabled meanwhile.                                                     *)
(***************************************************************************)
EndedIsSettled ==
    \A r \in Requests :
        trace[r].closed ~> pc[r] = "done" /\ ctx[task[r]].collector # r

(***************************************************************************)
(* The lifecycle implements the promise of TraceRecord: a trace is frozen  *)
(* once, in one step, with everything its collector accepted or a mark of  *)
(* the cut, and only then published.                                       *)
(***************************************************************************)
PhaseOf(r) ==
    IF pc[r] = "idle" THEN "absent"
    ELSE IF Finalized(r) THEN "frozen"
    ELSE IF pc[r] \in {"reset", "done"} THEN "lost" ELSE "open"

RecordedOf(r) == {s \in Segments : seg[s].trace = r}

ContentOf(r) ==
    IF Finalized(r)
      THEN [kept |-> Range(snapshot[r].trace.segments),
            cut  |-> snapshot[r].trace.truncated]
      ELSE None

Promise == INSTANCE TraceRecord WITH
    phase     <- [r \in Requests |-> PhaseOf(r)],
    recorded  <- [r \in Requests |-> RecordedOf(r)],
    content   <- [r \in Requests |-> ContentOf(r)],
    published <- stored

KeepsPromise == Promise!RSpec
=============================================================================
