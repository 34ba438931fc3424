------------------------- MODULE TraceLifecycleProofs -------------------------
(***************************************************************************)
(* Theorems about TraceLifecycle for every number of requests, tasks,      *)
(* threads and segments: TypeCorrect, FrozenIsFinal, RequestsNeverMix,     *)
(* LossIsMarked, LifecycleKeepsPromise (TraceRecord is implemented) and    *)
(* ContextsFollow; and where there are no worker threads,                  *)
(* ParentsFirstOnLoop, FindingsMatchOnLoop and LimitsHoldOnLoop.           *)
(***************************************************************************)
EXTENDS TraceLifecycle, SequenceTheorems, WellFoundedInduction, TLAPS

USE DEF Frames

\* A cut list is a list of segments, and its elements keep their places.
LEMMA KeptList ==
    ASSUME NEW list \in Seq(Segments), NEW k \in KeptLengths(Len(list))
    PROVE  /\ Kept(list, k) \in Seq(Segments)
           /\ Len(Kept(list, k)) = k
           /\ \A i \in 1 .. k : Kept(list, k)[i] = list[i]
           /\ k <= Len(list)
  <1>1. k \in 0 .. Len(list)
    BY LenProperties, BoundAssumption DEF KeptLengths
  <1>2. QED
    BY <1>1, SubSeqProperties DEF Kept

\* The initial state is typed.
LEMMA InitTyped == Init => TypeOK
  BY FrameAssumption, TaskAssumption
     DEF Init, TypeOK, Phases, OnLoop, TraceType, EmptyTrace, Exceptions,
         SegmentType, NoSegment, AttributeKinds, Context, NoContext

\* Pushing a frame keeps the call stacks typed.
LEMMA PushTyped ==
    ASSUME TypeOK, NEW t \in Tasks, NEW f \in Frames, Push(t, f)
    PROVE  /\ saved' \in [Frames -> Context]
           /\ below' \in [Frames -> Frames \cup {None}]
           /\ top' \in [Tasks -> Frames \cup {None}]
  BY DEF TypeOK, Push

\* Popping the innermost frame keeps the call stacks typed.
LEMMA PopTyped ==
    ASSUME TypeOK, NEW t \in Tasks, top[t] \in Frames, Pop(t)
    PROVE  /\ saved' \in [Frames -> Context]
           /\ below' \in [Frames -> Frames \cup {None}]
           /\ top' \in [Tasks -> Frames \cup {None}]
  BY DEF TypeOK, Pop, Context, NoContext

\* What the steps do to a trace, a segment and a context leaves them typed.
LEMMA TraceEnded ==
    ASSUME NEW x \in TraceType, NEW e \in Exceptions
    PROVE  [x EXCEPT !.error = e, !.closed = TRUE, !.complete = x.body]
             \in TraceType
  BY DEF TraceType

\* Naming segments in a finding leaves a trace.
LEMMA TraceReported ==
    ASSUME NEW x \in TraceType, NEW n \in SUBSET Segments
    PROVE  [x EXCEPT !.reported = n] \in TraceType
  BY DEF TraceType

\* Appending a segment leaves a trace.
LEMMA TraceListed ==
    ASSUME NEW x \in TraceType, NEW s \in Segments
    PROVE  [x EXCEPT !.segments = Append(@, s)] \in TraceType
  <1>1. Append(x.segments, s) \in Seq(Segments)
    BY DEF TraceType
  <1>2. QED
    BY <1>1 DEF TraceType

\* Cutting the list, dropping findings and marking the cut leave a trace.
LEMMA TraceCut ==
    ASSUME NEW x \in TraceType, NEW q \in Seq(Segments),
           NEW n \in SUBSET Segments, NEW m \in BOOLEAN
    PROVE  [x EXCEPT !.segments = q, !.reported = n, !.truncated = m]
             \in TraceType
  BY DEF TraceType

\* The outcome of a scope leaves a segment.
LEMMA SegmentFinished ==
    ASSUME NEW x \in SegmentType, NEW e \in Exceptions, NEW m \in BOOLEAN
    PROVE  [x EXCEPT !.status = Outcome(e), !.bounded = @ /\ m] \in SegmentType
  <1>1. Outcome(e) \in {"ok", "error", "cancelled"}
    BY DEF Outcome, Exceptions
  <1>2. QED
    BY <1>1 DEF SegmentType

\* Replacing the stack of a context leaves a context.
LEMMA StackTyped ==
    ASSUME ctx \in [Tasks -> Context], NEW t \in Tasks, NEW q \in Seq(Segments)
    PROVE  [ctx EXCEPT ![t].stack = q] \in [Tasks -> Context]
  BY DEF Context

\* The list of a trace holds segments.
LEMMA ListTyped ==
    ASSUME TypeOK, NEW r \in Requests
    PROVE  /\ trace[r] \in TraceType
           /\ trace[r].segments \in Seq(Segments)
           /\ Range(trace[r].segments) \subseteq Segments
  <1>1. trace[r] \in TraceType
    BY DEF TypeOK
  <1>2. trace[r].segments \in Seq(Segments)
    BY <1>1 DEF TraceType
  <1>3. QED
    BY <1>1, <1>2 DEF Range

\* A trace that lists segments is frozen to a snapshot, which is not None.
LEMMA ImageTyped ==
    ASSUME TypeOK, NEW r \in Requests
    PROVE  Image(r) \in SnapshotType /\ Image(r) # None
  <1> DEFINE S == Range(trace[r].segments)
  <1>1. trace[r] \in TraceType /\ S \in SUBSET Segments
    BY ListTyped
  <1>2. seg \in [Segments -> SegmentType]
    BY DEF TypeOK
  <1>3. [s \in S |-> seg[s]] \in [S -> SegmentType]
    BY <1>1, <1>2
  <1>4. Image(r) \in SnapshotType
    BY <1>1, <1>3 DEF Image, SnapshotType
  <1>5. QED
    BY <1>4, SnapshotAssumption

\* What sanitize() writes.
LEMMA Sanitized ==
    ASSUME NEW t \in Tasks, NEW r \in Requests, Sanitize(t, r)
    PROVE  \E k \in KeptLengths(Len(trace[r].segments)), mark \in BOOLEAN,
              named \in SUBSET trace[r].reported :
          /\ Marked(Len(trace[r].segments), k) => mark
          /\ trace' = [trace EXCEPT ![r].segments = Kept(trace[r].segments, k),
                                    ![r].reported = named,
                                    ![r].truncated = mark]
          /\ seg' = [s \in Segments |->
                      IF s \in Range(Kept(trace[r].segments, k))
                        THEN [seg[s] EXCEPT !.bounded = TRUE] ELSE seg[s]]
  BY DEF Sanitize

\* Every step keeps every type.
LEMMA NextTyped == TypeOK /\ [Next]_vars => TypeOK'
<1> SUFFICES ASSUME TypeOK, [Next]_vars PROVE TypeOK'
  OBVIOUS
<1>t. trace \in [Requests -> TraceType]
  BY DEF TypeOK
<1>s. seg \in [Segments -> SegmentType]
  BY DEF TypeOK
<1>c. ctx \in [Tasks -> Context]
  BY DEF TypeOK
<1>x. raising \in [Tasks -> Exceptions]
  BY DEF TypeOK
<1>p. pc \in [Requests -> Phases]
  BY DEF TypeOK
<1>v. saved \in [Frames -> Context]
  BY DEF TypeOK
<1>1. ASSUME NEW v \in Switches, Switch(v) PROVE TypeOK'
  BY <1>1, CallAssumption DEF Switch, TypeOK
<1>2. ASSUME NEW t \in Tasks, NEW r \in Requests, Accept(t, r) PROVE TypeOK'
  <2>1. ctx' \in [Tasks -> Context]
    BY <1>c, <1>2 DEF Accept, Context, BoundContext
  <2>2. pc' \in [Requests -> Phases]
    BY <1>p, <1>2 DEF Accept, Phases
  <2>3. /\ saved' \in [Frames -> Context]
        /\ below' \in [Frames -> Frames \cup {None}]
        /\ top' \in [Tasks -> Frames \cup {None}]
    BY <1>2, PushTyped DEF Accept
  <2>4. QED
    BY <1>2, <2>1, <2>2, <2>3 DEF Accept, TypeOK
<1>3. ASSUME NEW t \in Tasks, NEW r \in Requests, SendStart(t, r) PROVE TypeOK'
  <2>1. trace' \in [Requests -> TraceType]
    BY ZenonT(40), <1>t, <1>3 DEF SendStart, TraceType
  <2>2. QED
    BY <1>3, <2>1 DEF SendStart, TypeOK
<1>4. ASSUME NEW t \in Tasks, NEW r \in Requests, SendLastBody(t, r)
      PROVE  TypeOK'
  <2>1. pc' \in [Requests -> Phases]
    BY <1>p, <1>4 DEF SendLastBody, Phases
  <2>2. QED
    BY <1>4, <2>1 DEF SendLastBody, TypeOK
<1>5. ASSUME NEW t \in Tasks, NEW r \in Requests, SendReturns(t, r)
      PROVE  TypeOK'
  <2>1. trace' \in [Requests -> TraceType]
    BY ZenonT(40), <1>t, <1>5 DEF SendReturns, TraceType
  <2>2. pc' \in [Requests -> Phases]
    BY <1>p, <1>5 DEF SendReturns, Phases
  <2>3. QED
    BY <1>5, <2>1, <2>2 DEF SendReturns, TypeOK
<1>6. ASSUME NEW t \in Tasks, NEW r \in Requests, AppEnds(t, r) PROVE TypeOK'
  <2>1. [trace[r] EXCEPT !.error = raising[t], !.closed = TRUE,
                         !.complete = trace[r].body] \in TraceType
    BY <1>t, <1>x, TraceEnded
  <2>2. trace' \in [Requests -> TraceType]
    BY <1>t, <1>6, <2>1 DEF AppEnds
  <2>3. pc' \in [Requests -> Phases]
    BY <1>p, <1>6 DEF AppEnds, Phases, OnLoop
  <2>4. QED
    BY <1>6, <2>2, <2>3 DEF AppEnds, TypeOK
<1>7. ASSUME NEW t \in Tasks, NEW r \in Requests, Drop(t, r) PROVE TypeOK'
  <2>1. pc' \in [Requests -> Phases]
    BY <1>p, <1>7 DEF Drop, Phases, OnLoop
  <2>2. QED
    BY <1>7, <2>1 DEF Drop, TypeOK
<1>8. ASSUME NEW t \in Tasks, NEW r \in Requests, Diagnose(t, r) PROVE TypeOK'
  <2>1. OpenSegmentsOf(r) \in SUBSET Segments
    BY ListTyped DEF OpenSegmentsOf
  <2>2. trace' \in [Requests -> TraceType]
    BY <1>t, <1>8, <2>1, TraceReported DEF Diagnose
  <2>3. pc' \in [Requests -> Phases]
    BY <1>p, <1>8 DEF Diagnose, Phases, OnLoop
  <2>4. QED
    BY <1>8, <2>2, <2>3 DEF Diagnose, TypeOK
<1>9. ASSUME NEW t \in Tasks, NEW r \in Requests, Sanitize(t, r) PROVE TypeOK'
  <2>1. PICK k \in KeptLengths(Len(trace[r].segments)), mark \in BOOLEAN,
             named \in SUBSET trace[r].reported :
          /\ Marked(Len(trace[r].segments), k) => mark
          /\ trace' = [trace EXCEPT ![r].segments = Kept(trace[r].segments, k),
                                    ![r].reported = named,
                                    ![r].truncated = mark]
          /\ seg' = [s \in Segments |->
                      IF s \in Range(Kept(trace[r].segments, k))
                        THEN [seg[s] EXCEPT !.bounded = TRUE] ELSE seg[s]]
    BY <1>9, Sanitized
  <2>2. named \in SUBSET Segments
    BY <1>t, <2>1 DEF TraceType
  <2>3. Kept(trace[r].segments, k) \in Seq(Segments)
    BY ListTyped, KeptList
  <2>4. [trace[r] EXCEPT !.segments = Kept(trace[r].segments, k),
                         !.reported = named, !.truncated = mark] \in TraceType
    BY <1>t, <2>1, <2>2, <2>3, TraceCut
  <2>5. trace' \in [Requests -> TraceType]
    BY <1>t, <2>1, <2>4
  <2>6. seg' \in [Segments -> SegmentType]
    BY <1>s, <2>1 DEF SegmentType
  <2>7. pc' \in [Requests -> Phases]
    BY <1>p, <1>9 DEF Sanitize, Phases, OnLoop
  <2>8. QED
    BY <1>9, <2>5, <2>6, <2>7 DEF Sanitize, TypeOK
<1>10. ASSUME NEW t \in Tasks, NEW r \in Requests, Finalize(t, r) PROVE TypeOK'
  <2>1. pc' \in [Requests -> Phases]
    BY <1>p, <1>10 DEF Finalize, Phases, OnLoop
  <2>2. snapshot' \in [Requests -> SnapshotType \cup {None}]
    <3>1. snapshot \in [Requests -> SnapshotType \cup {None}]
      BY DEF TypeOK
    <3>2. QED
      BY <1>10, <3>1, ImageTyped DEF Finalize
  <2>3. QED
    BY <1>10, <2>1, <2>2 DEF Finalize, TypeOK
<1>11. ASSUME NEW t \in Tasks, NEW r \in Requests, Save(t, r) PROVE TypeOK'
  <2>1. pc' \in [Requests -> Phases]
    BY <1>p, <1>11 DEF Save, Phases, OnLoop
  <2>2. raising' \in [Tasks -> Exceptions]
    BY <1>x, <1>11 DEF Save, Exceptions
  <2>3. QED
    BY <1>11, <2>1, <2>2 DEF Save, TypeOK
<1>12. ASSUME NEW t \in Tasks, NEW r \in Requests, Reset(t, r) PROVE TypeOK'
  <2>1. top[t] \in Frames
    BY <1>12 DEF Reset
  <2>2. ctx' \in [Tasks -> Context]
    BY <1>c, <1>v, <1>12, <2>1 DEF Reset, Restored
  <2>3. pc' \in [Requests -> Phases]
    BY <1>p, <1>12 DEF Reset, Phases, OnLoop
  <2>4. raising' \in [Tasks -> Exceptions]
    BY <1>x, <1>12 DEF Reset, Exceptions
  <2>5. /\ saved' \in [Frames -> Context]
        /\ below' \in [Frames -> Frames \cup {None}]
        /\ top' \in [Tasks -> Frames \cup {None}]
    BY <1>12, <2>1, PopTyped DEF Reset
  <2>6. QED
    BY <1>12, <2>2, <2>3, <2>4, <2>5 DEF Reset, TypeOK
<1>13. ASSUME NEW t \in Tasks, NEW s \in Segments, NEW a \in Attributes,
              OpenSegment(t, s, a)
       PROVE  TypeOK'
  <2> DEFINE c == ctx[t].collector
             new == [trace |-> c, parent |-> ParentOf(ctx[t].stack),
                     status |-> "incomplete", attributes |-> a,
                     bounded |-> FALSE]
  <2>1. c \in Requests /\ ctx[t].stack \in Seq(Segments)
    BY <1>c, <1>13 DEF OpenSegment, Context
  <2>2. ParentOf(ctx[t].stack) \in Segments \cup {None}
    BY <2>1, LenProperties, ElementOfSeq, EmptySeq DEF ParentOf
  <2>3. new \in SegmentType
    BY <2>1, <2>2, AttrAssumption DEF SegmentType, AttributeKinds
  <2>4. seg' \in [Segments -> SegmentType]
    BY <1>s, <1>13, <2>3 DEF OpenSegment
  <2>5. trace' \in [Requests -> TraceType]
    BY <1>t, <1>13, <2>1, TraceListed DEF OpenSegment
  <2>a. Append(ctx[t].stack, s) \in Seq(Segments)
    BY <2>1
  <2>6. ctx' \in [Tasks -> Context]
    BY <1>c, <1>13, <2>1, <2>a, StackTyped DEF OpenSegment
  <2>7. /\ saved' \in [Frames -> Context]
        /\ below' \in [Frames -> Frames \cup {None}]
        /\ top' \in [Tasks -> Frames \cup {None}]
    BY <1>13, PushTyped DEF OpenSegment
  <2>8. QED
    BY <1>13, <2>4, <2>5, <2>6, <2>7 DEF OpenSegment, TypeOK
<1>14. ASSUME NEW t \in Tasks, RejectSegment(t) PROVE TypeOK'
  <2>1. ctx[t].collector \in Requests
    BY <1>c, <1>14 DEF RejectSegment, Context
  <2>2. QED
    BY <1>14, <2>1 DEF RejectSegment, TypeOK
<1>15. ASSUME NEW t \in Tasks, CloseSegment(t) PROVE TypeOK'
  <2> DEFINE s == top[t]
  <2>1. s \in Segments
    BY <1>15 DEF CloseSegment
  <2>2. [seg[s] EXCEPT !.status = Outcome(raising[t]),
                       !.bounded = @ /\ raising[t] = "none"] \in SegmentType
    BY <1>s, <1>x, <2>1, SegmentFinished
  <2>3. seg' \in [Segments -> SegmentType]
    BY <1>s, <1>15, <2>1, <2>2 DEF CloseSegment
  <2>4. late' \in [Requests -> Nat]
    BY <1>15 DEF CloseSegment, TypeOK
  <2>5. ctx' \in [Tasks -> Context]
    <3>1. saved[s].stack \in Seq(Segments)
      BY <1>v, <2>1 DEF Context
    <3>2. QED
      BY <1>c, <1>15, <2>1, <3>1, StackTyped DEF CloseSegment
  <2>6. /\ saved' \in [Frames -> Context]
        /\ below' \in [Frames -> Frames \cup {None}]
        /\ top' \in [Tasks -> Frames \cup {None}]
    BY <1>15, <2>1, PopTyped DEF CloseSegment
  <2>7. QED
    BY <1>15, <2>3, <2>4, <2>5, <2>6 DEF CloseSegment, TypeOK
<1>16. ASSUME NEW t \in Tasks, NEW e \in Failures, Raise(t, e) PROVE TypeOK'
  <2>1. pc' \in [Requests -> Phases]
    BY <1>p, <1>16 DEF Raise, Phases
  <2>2. raising' \in [Tasks -> Exceptions]
    BY <1>x, <1>16, CallAssumption DEF Raise, Exceptions
  <2>3. QED
    BY <1>16, <2>1, <2>2 DEF Raise, TypeOK
<1>17. ASSUME NEW t \in Tasks, Catch(t) PROVE TypeOK'
  <2>1. raising' \in [Tasks -> Exceptions]
    BY <1>x, <1>17 DEF Catch, Exceptions
  <2>2. QED
    BY <1>17, <2>1 DEF Catch, TypeOK
<1>18. ASSUME NEW t \in Tasks, NEW w \in Tasks, Spawn(t, w) PROVE TypeOK'
  <2>1. ctx' \in [Tasks -> Context]
    BY <1>c, <1>18 DEF Spawn
  <2>2. home' \in [Tasks -> Requests \cup {None}]
    BY <1>c, <1>18 DEF Spawn, Context, TypeOK
  <2>3. QED
    BY <1>18, <2>1, <2>2 DEF Spawn, TypeOK
<1>19. CASE UNCHANGED vars
  BY <1>19 DEF vars, TypeOK
<1>20. QED
  BY <1>1, <1>2, <1>3, <1>4, <1>5, <1>6, <1>7, <1>8, <1>9, <1>10, <1>11, <1>12,
     <1>13, <1>14, <1>15, <1>16, <1>17, <1>18, <1>19
     DEF Next, Serve, Settle, Measure, Run

\* Every variable of the lifecycle keeps its type.
THEOREM TypeCorrect == Spec => []TypeOK
  BY InitTyped, NextTyped, PTL DEF Spec

-----------------------------------------------------------------------------
(***************************************************************************)
(* The inductive invariant.                                                *)
(***************************************************************************)
\* A snapshot is only taken at the end, and always before the store.
FinalAtEnd ==
    \A r \in Requests :
        /\ Finalized(r) => pc[r] \in {"save", "reset", "done"}
        /\ pc[r] = "save" => Finalized(r)

\* A trace lists only segments recorded for it.
Owned ==
    \A r \in Requests : \A s \in Range(trace[r].segments) : seg[s].trace = r

\* A context that holds open segments holds those of its collector.
OwnStack(c) ==
    \A s \in Range(c.stack) : c.collector # None /\ seg[s].trace = c.collector

StacksOwned ==
    /\ \A t \in Tasks : OwnStack(ctx[t])
    /\ \A f \in Frames : OwnStack(saved[f])

ParentsOwned ==
    \A s \in Segments : seg[s].parent # None =>
        /\ seg[s].trace # None
        /\ seg[s].parent \in Segments
        /\ seg[seg[s].parent].trace = seg[s].trace

\* A segment frame belongs to the collector of the context that runs in it.
FramesOwned ==
    /\ \A t \in Tasks : top[t] \in Segments =>
         ctx[t].collector # None /\ seg[top[t]].trace = ctx[t].collector
    /\ \A f \in Frames : below[f] \in Segments =>
         saved[f].collector # None /\ seg[below[f]].trace = saved[f].collector
    /\ \A s \in Segments : saved[s] # NoContext =>
         saved[s].collector = seg[s].trace

MixInv == StacksOwned /\ ParentsOwned /\ FramesOwned

-----------------------------------------------------------------------------
\* The steps that write to traces, segments or snapshots.
LEMMA Writers ==
    ASSUME [Next]_vars
    PROVE  \/ UNCHANGED <<trace, seg, snapshot>>
           \/ \E t \in Tasks, r \in Requests :
                SendStart(t, r) \/ SendReturns(t, r) \/ AppEnds(t, r)
                  \/ Diagnose(t, r) \/ Sanitize(t, r) \/ Finalize(t, r)
           \/ \E t \in Tasks, s \in Segments, a \in Attributes :
                OpenSegment(t, s, a)
           \/ \E t \in Tasks : CloseSegment(t)
<1> DEFINE Quiet == UNCHANGED <<trace, seg, snapshot>>
<1>1. ASSUME NEW v \in Switches, Switch(v) PROVE Quiet
  BY <1>1 DEF Switch
<1>2. ASSUME NEW t \in Tasks, NEW r \in Requests, Accept(t, r) PROVE Quiet
  BY <1>2 DEF Accept
<1>3. ASSUME NEW t \in Tasks, NEW r \in Requests, SendLastBody(t, r) PROVE Quiet
  BY <1>3 DEF SendLastBody
<1>4. ASSUME NEW t \in Tasks, NEW r \in Requests, Drop(t, r) PROVE Quiet
  BY <1>4 DEF Drop
<1>5. ASSUME NEW t \in Tasks, NEW r \in Requests, Save(t, r) PROVE Quiet
  BY <1>5 DEF Save
<1>6. ASSUME NEW t \in Tasks, NEW r \in Requests, Reset(t, r) PROVE Quiet
  BY <1>6 DEF Reset
<1>7. ASSUME NEW t \in Tasks, RejectSegment(t) PROVE Quiet
  BY <1>7 DEF RejectSegment
<1>8. ASSUME NEW t \in Tasks, Run(t) PROVE Quiet
  BY <1>8 DEF Run, Raise, Catch, Spawn
<1>9. CASE UNCHANGED vars
  BY <1>9 DEF vars
<1> HIDE DEF Quiet
<1>10. CASE \E v \in Switches : Switch(v)
  BY <1>1, <1>10 DEF Quiet
<1>11. CASE \E t \in Tasks, r \in Requests : Serve(t, r)
  <2>1. PICK t \in Tasks, r \in Requests : Serve(t, r)
    BY <1>11
  <2>2. \/ Quiet
        \/ SendStart(t, r) \/ SendReturns(t, r) \/ AppEnds(t, r)
        \/ Diagnose(t, r) \/ Sanitize(t, r) \/ Finalize(t, r)
    BY <1>2, <1>3, <1>4, <1>5, <1>6, <2>1 DEF Serve, Settle
  <2>3. QED
    BY <2>2 DEF Quiet
<1>12. CASE \E t \in Tasks : Measure(t) \/ Run(t)
  <2>1. PICK t \in Tasks : Measure(t) \/ Run(t)
    BY <1>12
  <2>2. \/ Quiet
        \/ \E s \in Segments, a \in Attributes : OpenSegment(t, s, a)
        \/ CloseSegment(t)
    BY <1>7, <1>8, <2>1 DEF Measure
  <2>3. QED
    BY <2>2 DEF Quiet
<1>13. QED
  BY <1>9, <1>10, <1>11, <1>12 DEF Next, Quiet

\* Only finalize() takes a snapshot, and no step leads back from it.
LEMMA FinalAtEndStep ==
    ASSUME TypeOK, FinalAtEnd, [Next]_vars
    PROVE  FinalAtEnd'
<1> SUFFICES ASSUME NEW q \in Requests
             PROVE  /\ snapshot'[q] # None => pc'[q] \in {"save", "reset", "done"}
                    /\ pc'[q] = "save" => snapshot'[q] # None
  BY DEF FinalAtEnd, Finalized
<1> DEFINE P == /\ snapshot'[q] # None => pc'[q] \in {"save", "reset", "done"}
                /\ pc'[q] = "save" => snapshot'[q] # None
<1>0. /\ pc \in [Requests -> Phases] /\ DOMAIN snapshot = Requests
      /\ snapshot[q] # None => pc[q] \in {"save", "reset", "done"}
      /\ pc[q] = "save" => snapshot[q] # None
  BY DEF TypeOK, FinalAtEnd, Finalized
<1>1. ASSUME UNCHANGED <<pc, snapshot>> PROVE P
  BY <1>0, <1>1
<1>2. ASSUME NEW t \in Tasks, NEW r \in Requests, Accept(t, r) PROVE P
  BY <1>0, <1>2 DEF Accept
<1>3. ASSUME NEW t \in Tasks, NEW r \in Requests, SendLastBody(t, r) PROVE P
  BY <1>0, <1>3, FrameAssumption DEF SendLastBody, Running, InApp
<1>4. ASSUME NEW t \in Tasks, NEW r \in Requests, SendReturns(t, r) PROVE P
  BY <1>0, <1>4 DEF SendReturns
<1>5. ASSUME NEW t \in Tasks, NEW r \in Requests, AppEnds(t, r) PROVE P
  BY <1>0, <1>5 DEF AppEnds
<1>6. ASSUME NEW t \in Tasks, NEW r \in Requests,
             Drop(t, r) \/ Diagnose(t, r) \/ Sanitize(t, r)
      PROVE  P
  BY <1>0, <1>6 DEF Drop, Raises, Diagnose, Sanitize
<1>7. ASSUME NEW t \in Tasks, NEW r \in Requests, Finalize(t, r) PROVE P
  <2>1. Image(r) # None
    BY ImageTyped
  <2>2. QED
    BY <1>0, <1>7, <2>1 DEF Finalize
<1>8. ASSUME NEW t \in Tasks, NEW r \in Requests, Save(t, r) \/ Reset(t, r)
      PROVE  P
  BY <1>0, <1>8 DEF Save, Reset
<1>9. ASSUME NEW t \in Tasks, NEW e \in Failures, Raise(t, e) PROVE P
  BY <1>0, <1>9 DEF Raise
<1>10. \/ UNCHANGED <<pc, snapshot>>
       \/ \E t \in Tasks, r \in Requests :
            Accept(t, r) \/ SendLastBody(t, r) \/ SendReturns(t, r)
              \/ AppEnds(t, r) \/ Settle(t, r)
       \/ \E t \in Tasks, e \in Failures : Raise(t, e)
  BY ZenonT(40) DEF Next, Serve, Measure, Run, vars, Switch, SendStart, OpenSegment,
         RejectSegment, CloseSegment, Catch, Spawn
<1>11. QED
  BY <1>1, <1>2, <1>3, <1>4, <1>5, <1>6, <1>7, <1>8, <1>9, <1>10 DEF Settle

\* How a step changes the lists and the owners of segments: one new segment
\* of a collector that accepts it, or lists that only become shorter.
Grows(c, s) ==
    /\ seg[s].trace = None /\ ~Finalized(c)
    /\ seg'[s].trace = c
    /\ seg'[s].parent = None \/ \E t \in Tasks :
         c = ctx[t].collector /\ seg'[s].parent \in Range(ctx[t].stack)
    /\ \A x \in Segments \ {s} : seg'[x] = seg[x]
    /\ Range(trace'[c].segments) = Range(trace[c].segments) \cup {s}
    /\ \A q \in Requests \ {c} : trace'[q] = trace[q]
    /\ trace'[c].truncated = trace[c].truncated

Shrinks ==
    /\ \A x \in Segments :
         seg'[x].trace = seg[x].trace /\ seg'[x].parent = seg[x].parent
    /\ \A q \in Requests :
         Range(trace'[q].segments) \subseteq Range(trace[q].segments)

\* Appending adds one element.
LEMMA RangeOfAppend ==
    ASSUME NEW S, NEW q \in Seq(S), NEW e \in S
    PROVE  Range(Append(q, e)) = Range(q) \cup {e}
  <1>1. /\ DOMAIN q = 1 .. Len(q)
        /\ DOMAIN Append(q, e) = 1 .. (Len(q) + 1)
        /\ Len(q) \in Nat
        /\ \A i \in 1 .. Len(q) : Append(q, e)[i] = q[i]
        /\ Append(q, e)[Len(q) + 1] = e
    BY AppendProperties, LenProperties
  <1>2. QED
    BY <1>1 DEF Range

\* Cutting a list adds no element.
LEMMA RangeOfKept ==
    ASSUME NEW list \in Seq(Segments), NEW k \in KeptLengths(Len(list))
    PROVE  Range(Kept(list, k)) \subseteq Range(list)
  <1>1. /\ DOMAIN Kept(list, k) = 1 .. k
        /\ DOMAIN list = 1 .. Len(list)
        /\ \A i \in 1 .. k : Kept(list, k)[i] = list[i]
        /\ k <= Len(list) /\ Len(list) \in Nat /\ k \in Nat
    BY KeptList, LenProperties DEF KeptLengths
  <1>2. QED
    BY <1>1 DEF Range

\* The parent of a new segment is open in the context.
LEMMA ParentInStack ==
    ASSUME NEW q \in Seq(Segments)
    PROVE  ParentOf(q) = None \/ ParentOf(q) \in Range(q)
  <1>1. CASE q = <<>>
    BY <1>1 DEF ParentOf
  <1>2. CASE q # <<>>
    <2>1. Len(q) \in 1 .. Len(q) /\ DOMAIN q = 1 .. Len(q)
      BY <1>2, LenProperties, EmptySeq
    <2>2. QED
      BY <1>2, <2>1 DEF ParentOf, Range
  <1>3. QED
    BY <1>1, <1>2

\* Opening a segment adds it, with its owner, to one list and no other.
LEMMA OpenGrows ==
    ASSUME TypeOK, NEW t \in Tasks, NEW s \in Segments, NEW a \in Attributes,
           OpenSegment(t, s, a)
    PROVE  ctx[t].collector \in Requests /\ Grows(ctx[t].collector, s)
<1> DEFINE c == ctx[t].collector
           p == ParentOf(ctx[t].stack)
<1>1. ctx[t] \in Context
  BY DEF TypeOK
<1>2. c \in Requests /\ ctx[t].stack \in Seq(Segments)
  BY <1>1 DEF OpenSegment, Context
<1>3. p = None \/ p \in Range(ctx[t].stack)
  BY <1>2, ParentInStack
<1>4. /\ seg[s].trace = None /\ ~Finalized(c)
      /\ seg' = [seg EXCEPT ![s] =
                   [trace |-> c, parent |-> p, status |-> "incomplete",
                    attributes |-> a, bounded |-> FALSE]]
      /\ trace' = [trace EXCEPT ![c].segments = Append(@, s)]
  BY DEF OpenSegment, Late
<1>5. DOMAIN seg = Segments
  BY DEF TypeOK
<1>6. /\ seg'[s].trace = c /\ seg'[s].parent = p
      /\ \A x \in Segments \ {s} : seg'[x] = seg[x]
  BY <1>4, <1>5
<1>7. trace \in [Requests -> TraceType] /\ trace[c].segments \in Seq(Segments)
  BY <1>2, ListTyped DEF TypeOK
<1>8. /\ trace'[c].segments = Append(trace[c].segments, s)
      /\ trace'[c].truncated = trace[c].truncated
      /\ \A q \in Requests \ {c} : trace'[q] = trace[q]
  BY <1>2, <1>4, <1>7 DEF TraceType
<1>9. Range(trace'[c].segments) = Range(trace[c].segments) \cup {s}
  BY <1>7, <1>8, RangeOfAppend
<1>10. QED
  BY <1>2, <1>3, <1>4, <1>6, <1>8, <1>9 DEF Grows

\* No other step adds a segment to a list or changes an owner.
LEMMA OthersShrink ==
    ASSUME TypeOK, [Next]_vars,
           ~ \E t \in Tasks, s \in Segments, a \in Attributes :
               OpenSegment(t, s, a)
    PROVE  Shrinks
<1>t. trace \in [Requests -> TraceType] /\ seg \in [Segments -> SegmentType]
  BY DEF TypeOK
<1>1. CASE UNCHANGED <<trace, seg, snapshot>>
  BY <1>1 DEF Shrinks
<1>2. ASSUME NEW t \in Tasks, NEW r \in Requests,
             SendStart(t, r) \/ SendReturns(t, r) \/ AppEnds(t, r)
               \/ Diagnose(t, r)
      PROVE  Shrinks
  <2>1. /\ UNCHANGED seg
        /\ \A q \in Requests : trace'[q].segments = trace[q].segments
    <3>1. CASE SendStart(t, r)
      BY <1>t, <3>1 DEF SendStart, TraceType
    <3>2. CASE SendReturns(t, r)
      BY <1>t, <3>2 DEF SendReturns, TraceType
    <3>3. CASE AppEnds(t, r)
      BY <1>t, <3>3 DEF AppEnds, TraceType
    <3>4. CASE Diagnose(t, r)
      BY <1>t, <3>4 DEF Diagnose, TraceType
    <3>5. QED
      BY <1>2, <3>1, <3>2, <3>3, <3>4
  <2>2. QED
    BY <2>1 DEF Shrinks
<1>3. ASSUME NEW t \in Tasks, NEW r \in Requests, Sanitize(t, r) PROVE Shrinks
  <2>1. PICK k \in KeptLengths(Len(trace[r].segments)), mark \in BOOLEAN,
             named \in SUBSET trace[r].reported :
          /\ Marked(Len(trace[r].segments), k) => mark
          /\ trace' = [trace EXCEPT ![r].segments = Kept(trace[r].segments, k),
                                    ![r].reported = named,
                                    ![r].truncated = mark]
          /\ seg' = [s \in Segments |->
                      IF s \in Range(Kept(trace[r].segments, k))
                        THEN [seg[s] EXCEPT !.bounded = TRUE] ELSE seg[s]]
    BY <1>3, Sanitized
  <2>2. Range(Kept(trace[r].segments, k)) \subseteq Range(trace[r].segments)
    BY ListTyped, RangeOfKept
  <2>3. \A q \in Requests : trace'[q].segments =
          IF q = r THEN Kept(trace[r].segments, k) ELSE trace[q].segments
    BY <1>t, <2>1 DEF TraceType
  <2>4. \A x \in Segments :
          seg'[x].trace = seg[x].trace /\ seg'[x].parent = seg[x].parent
    BY <1>t, <2>1 DEF SegmentType
  <2>5. QED
    BY <2>2, <2>3, <2>4 DEF Shrinks
<1>4. ASSUME NEW t \in Tasks, NEW r \in Requests, Finalize(t, r) PROVE Shrinks
  BY <1>4 DEF Finalize, Shrinks
<1>5. ASSUME NEW t \in Tasks, CloseSegment(t) PROVE Shrinks
  <2>1. UNCHANGED trace
    BY <1>5 DEF CloseSegment
  <2>2. \A x \in Segments :
          seg'[x].trace = seg[x].trace /\ seg'[x].parent = seg[x].parent
    BY <1>t, <1>5 DEF CloseSegment, SegmentType
  <2>3. QED
    BY <2>1, <2>2 DEF Shrinks
<1>6. QED
  BY <1>1, <1>2, <1>3, <1>4, <1>5, Writers

\* Every step keeps lists and owners in agreement.
LEMMA OwnedStep ==
    ASSUME TypeOK, Owned, [Next]_vars
    PROVE  Owned'
<1>1. CASE \E t \in Tasks, s \in Segments, a \in Attributes : OpenSegment(t, s, a)
  <2>1. PICK t \in Tasks, s \in Segments, a \in Attributes : OpenSegment(t, s, a)
    BY <1>1
  <2>2. PICK c \in Requests : Grows(c, s)
    BY <2>1, OpenGrows
  <2>3. ASSUME NEW q \in Requests, NEW x \in Range(trace'[q].segments)
        PROVE  seg'[x].trace = q
    <3>1. CASE x \in Range(trace[q].segments)
      <4>1. seg[x].trace = q /\ x \in Segments /\ q # None
        BY <3>1, ListTyped, FrameAssumption DEF Owned
      <4>2. QED
        BY <2>2, <4>1 DEF Grows
    <3>2. CASE x \notin Range(trace[q].segments)
      BY <2>2, <2>3, <3>2 DEF Grows
    <3>3. QED
      BY <3>1, <3>2
  <2>4. QED
    BY <2>3 DEF Owned
<1>2. CASE ~ \E t \in Tasks, s \in Segments, a \in Attributes :
               OpenSegment(t, s, a)
  BY <1>2, OthersShrink, ListTyped DEF Shrinks, Owned
<1>3. QED
  BY <1>1, <1>2

\* No step writes to a trace that has a snapshot.
LEMMA FrozenStays ==
    ASSUME TypeOK, FinalAtEnd, Owned, [Next]_vars,
           NEW q \in Requests, Finalized(q)
    PROVE  /\ trace'[q] = trace[q]
           /\ \A x \in Range(trace[q].segments) : seg'[x] = seg[x]
           /\ snapshot'[q] = snapshot[q]
<1> DEFINE P == /\ trace'[q] = trace[q]
                /\ \A x \in Range(trace[q].segments) : seg'[x] = seg[x]
                /\ snapshot'[q] = snapshot[q]
<1>0. pc[q] \in {"save", "reset", "done"}
  BY DEF FinalAtEnd
<1>t. /\ trace \in [Requests -> TraceType] /\ DOMAIN seg = Segments
      /\ DOMAIN snapshot = Requests
  BY DEF TypeOK
<1>o. \A x \in Range(trace[q].segments) : x \in Segments /\ seg[x].trace = q
  BY ListTyped DEF Owned
<1>1. CASE UNCHANGED <<trace, seg, snapshot>>
  BY <1>1
<1>2. ASSUME NEW t \in Tasks, NEW r \in Requests,
             SendStart(t, r) \/ SendReturns(t, r) \/ AppEnds(t, r)
               \/ Diagnose(t, r)
      PROVE  P
  <2>1. r # q /\ UNCHANGED <<seg, snapshot>>
    BY <1>0, <1>2, FrameAssumption
       DEF SendStart, SendReturns, AppEnds, Diagnose, Running, InApp
  <2>2. trace'[q] = trace[q]
    BY <1>t, <1>2, <2>1 DEF SendStart, SendReturns, AppEnds, Diagnose
  <2>3. QED
    BY <2>1, <2>2
<1>3. ASSUME NEW t \in Tasks, NEW r \in Requests, Sanitize(t, r) PROVE P
  <2>1. PICK k \in KeptLengths(Len(trace[r].segments)), mark \in BOOLEAN,
             named \in SUBSET trace[r].reported :
          /\ Marked(Len(trace[r].segments), k) => mark
          /\ trace' = [trace EXCEPT ![r].segments = Kept(trace[r].segments, k),
                                    ![r].reported = named,
                                    ![r].truncated = mark]
          /\ seg' = [s \in Segments |->
                      IF s \in Range(Kept(trace[r].segments, k))
                        THEN [seg[s] EXCEPT !.bounded = TRUE] ELSE seg[s]]
    BY <1>3, Sanitized
  <2>2. r # q /\ UNCHANGED snapshot
    BY <1>0, <1>3 DEF Sanitize
  <2>3. \A x \in Range(Kept(trace[r].segments, k)) : seg[x].trace = r
    BY ListTyped, RangeOfKept DEF Owned
  <2>4. QED
    BY <1>t, <1>o, <2>1, <2>2, <2>3
<1>4. ASSUME NEW t \in Tasks, NEW r \in Requests, Finalize(t, r) PROVE P
  BY <1>t, <1>4 DEF Finalize, Finalized
<1>5. ASSUME NEW t \in Tasks, NEW s \in Segments, NEW a \in Attributes,
             OpenSegment(t, s, a)
      PROVE  P
  <2>1. PICK c \in Requests : Grows(c, s)
    BY <1>5, OpenGrows
  <2>2. c # q /\ s \notin Range(trace[q].segments)
    BY <1>o, <2>1, FrameAssumption DEF Grows
  <2>3. QED
    BY <1>5, <1>o, <2>1, <2>2 DEF Grows, OpenSegment
<1>6. ASSUME NEW t \in Tasks, CloseSegment(t) PROVE P
  <2>1. top[t] \in Range(trace[q].segments) => UNCHANGED seg
    BY <1>6, <1>o DEF CloseSegment, Late
  <2>2. \A x \in Segments \ {top[t]} : seg'[x] = seg[x]
    BY <1>6, <1>t DEF CloseSegment
  <2>3. QED
    BY <1>6, <1>o, <2>1, <2>2 DEF CloseSegment
<1>7. QED
  BY <1>1, <1>2, <1>3, <1>4, <1>5, <1>6, Writers

\* Every step keeps traces and snapshots in agreement.
LEMMA SnapshotStep ==
    ASSUME TypeOK, FinalAtEnd, Owned, SnapshotIsFinal, [Next]_vars
    PROVE  SnapshotIsFinal'
<1> SUFFICES ASSUME NEW q \in Requests, snapshot'[q] # None
             PROVE  snapshot'[q] = Image(q)'
  BY DEF SnapshotIsFinal, Finalized
<1>1. CASE Finalized(q)
  <2>1. /\ trace'[q] = trace[q] /\ snapshot'[q] = snapshot[q]
        /\ \A x \in Range(trace[q].segments) : seg'[x] = seg[x]
    BY <1>1, FrozenStays
  <2>2. Image(q)' = Image(q)
    BY <2>1 DEF Image
  <2>3. QED
    BY <1>1, <2>1, <2>2 DEF SnapshotIsFinal
<1>2. CASE ~Finalized(q)
  <2>1. snapshot[q] = None /\ snapshot \in [Requests -> SnapshotType \cup {None}]
    BY <1>2 DEF Finalized, TypeOK
  <2>2. PICK t \in Tasks, r \in Requests : Finalize(t, r)
    BY ZenonT(40), <2>1, Writers
       DEF SendStart, SendReturns, AppEnds, Diagnose, Sanitize, OpenSegment,
           CloseSegment
  <2>3. /\ UNCHANGED <<trace, seg>>
        /\ snapshot' = [snapshot EXCEPT ![r] = IF @ = None THEN Image(r) ELSE @]
    BY <2>2 DEF Finalize
  <2>4. snapshot'[q] = Image(q)
    BY <2>1, <2>3
  <2>5. Image(q)' = Image(q)
    BY <2>3 DEF Image
  <2>6. QED
    BY <2>4, <2>5
<1>3. QED
  BY <1>1, <1>2

FreezeInv == TypeOK /\ FinalAtEnd /\ Owned /\ SnapshotIsFinal

\* The invariant behind FrozenIsFinal.
LEMMA FreezeInvariant == Spec => []FreezeInv
<1>1. Init => FreezeInv
  <2>1. Init => FinalAtEnd /\ SnapshotIsFinal
    BY DEF Init, FinalAtEnd, SnapshotIsFinal, Finalized
  <2>2. Init => Owned
    BY DEF Init, EmptyTrace, Owned, Range
  <2>3. QED
    BY <2>1, <2>2, InitTyped DEF FreezeInv
<1>2. FreezeInv /\ [Next]_vars => FreezeInv'
  BY NextTyped, FinalAtEndStep, OwnedStep, SnapshotStep DEF FreezeInv
<1>3. QED
  BY <1>1, <1>2, PTL DEF Spec

\* A finalized trace never differs from its snapshot, whichever tasks and
\* threads of the request keep writing to its collector.
THEOREM FrozenIsFinal == Spec => []SnapshotIsFinal
<1>1. FreezeInv => SnapshotIsFinal
  BY DEF FreezeInv
<1>2. QED
  BY <1>1, FreezeInvariant, PTL

-----------------------------------------------------------------------------
\* The steps that write to contexts and call stacks.
LEMMA StackWriters ==
    ASSUME [Next]_vars
    PROVE  \/ UNCHANGED <<ctx, top, below, saved, home, task>>
           \/ \E t \in Tasks, r \in Requests : Accept(t, r) \/ Reset(t, r)
           \/ \E t \in Tasks, s \in Segments, a \in Attributes :
                OpenSegment(t, s, a)
           \/ \E t \in Tasks : CloseSegment(t)
           \/ \E t, w \in Tasks : Spawn(t, w)
<1> DEFINE Quiet == UNCHANGED <<ctx, top, below, saved, home, task>>
<1>1. ASSUME NEW v \in Switches, Switch(v) PROVE Quiet
  BY <1>1 DEF Switch
<1>2. ASSUME NEW t \in Tasks, NEW r \in Requests,
             SendStart(t, r) \/ SendLastBody(t, r) \/ SendReturns(t, r)
               \/ AppEnds(t, r)
      PROVE  Quiet
  BY <1>2 DEF SendStart, SendLastBody, SendReturns, AppEnds
<1>3. ASSUME NEW t \in Tasks, NEW r \in Requests,
             Drop(t, r) \/ Diagnose(t, r) \/ Finalize(t, r) \/ Save(t, r)
      PROVE  Quiet
  BY <1>3 DEF Drop, Diagnose, Finalize, Save
<1>4. ASSUME NEW t \in Tasks, NEW r \in Requests, Sanitize(t, r) PROVE Quiet
  BY <1>4 DEF Sanitize
<1>5. ASSUME NEW t \in Tasks, RejectSegment(t) PROVE Quiet
  BY <1>5 DEF RejectSegment
<1>6. ASSUME NEW t \in Tasks, NEW e \in Failures, Raise(t, e) PROVE Quiet
  BY <1>6 DEF Raise
<1>7. ASSUME NEW t \in Tasks, Catch(t) PROVE Quiet
  BY <1>7 DEF Catch
<1>8. CASE UNCHANGED vars
  BY <1>8 DEF vars
<1> HIDE DEF Quiet
<1>9. CASE \E v \in Switches : Switch(v)
  BY <1>1, <1>9 DEF Quiet
<1>10. CASE \E t \in Tasks, r \in Requests : Serve(t, r)
  <2>1. PICK t \in Tasks, r \in Requests : Serve(t, r)
    BY <1>10
  <2>2. Quiet \/ Accept(t, r) \/ Reset(t, r)
    BY <1>2, <1>3, <1>4, <2>1 DEF Serve, Settle
  <2>3. QED
    BY <2>2 DEF Quiet
<1>11. CASE \E t \in Tasks : Measure(t) \/ Run(t)
  <2>1. PICK t \in Tasks : Measure(t) \/ Run(t)
    BY <1>11
  <2>2. \/ Quiet
        \/ \E s \in Segments, a \in Attributes : OpenSegment(t, s, a)
        \/ CloseSegment(t)
        \/ \E w \in Tasks : Spawn(t, w)
    BY <1>5, <1>6, <1>7, <2>1 DEF Measure, Run
  <2>3. QED
    BY <2>2 DEF Quiet
<1>12. QED
  BY <1>8, <1>9, <1>10, <1>11 DEF Next, Quiet

\* The owner of a segment is set once.
LEMMA OwnersStay ==
    ASSUME TypeOK, [Next]_vars, NEW x \in Segments, seg[x].trace # None
    PROVE  seg'[x].trace = seg[x].trace /\ seg'[x].parent = seg[x].parent
<1>1. CASE \E t \in Tasks, s \in Segments, a \in Attributes : OpenSegment(t, s, a)
  BY <1>1, OpenGrows DEF Grows
<1>2. CASE ~ \E t \in Tasks, s \in Segments, a \in Attributes :
               OpenSegment(t, s, a)
  BY <1>2, OthersShrink DEF Shrinks
<1>3. QED
  BY <1>1, <1>2

\* A context of which every open segment belongs to its collector still has
\* this property after a step.
LEMMA OwnStackStays ==
    ASSUME TypeOK, [Next]_vars, NEW c \in Context, OwnStack(c)
    PROVE  \A s \in Range(c.stack) :
             c.collector # None /\ seg'[s].trace = c.collector
<1>1. Range(c.stack) \subseteq Segments
  BY DEF Context, Range
<1>2. QED
  BY <1>1, OwnersStay DEF OwnStack

\* Every step keeps the parents of segments in their trace.
LEMMA ParentsOwnedStep ==
    ASSUME TypeOK, MixInv, [Next]_vars
    PROVE  ParentsOwned'
<1> SUFFICES ASSUME NEW x \in Segments, seg'[x].parent # None
             PROVE  /\ seg'[x].trace # None
                    /\ seg'[x].parent \in Segments
                    /\ seg'[seg'[x].parent].trace = seg'[x].trace
  BY DEF ParentsOwned
<1>1. CASE seg'[x].parent = seg[x].parent /\ seg'[x].trace = seg[x].trace
  BY <1>1, OwnersStay DEF MixInv, ParentsOwned
<1>2. CASE ~(seg'[x].parent = seg[x].parent /\ seg'[x].trace = seg[x].trace)
  <2>1. PICK t \in Tasks, s \in Segments, a \in Attributes : OpenSegment(t, s, a)
    BY <1>2, OthersShrink DEF Shrinks
  <2>2. PICK c \in Requests : Grows(c, s)
    BY <2>1, OpenGrows
  <2>3. x = s
    BY <1>2, <2>2 DEF Grows
  <2>4. PICK w \in Tasks :
          c = ctx[w].collector /\ seg'[x].parent \in Range(ctx[w].stack)
    BY <2>2, <2>3 DEF Grows
  <2>5. seg[seg'[x].parent].trace = c /\ c # None
    BY <2>4 DEF MixInv, StacksOwned, OwnStack
  <2>6. seg'[x].parent \in Segments
    BY <2>4 DEF TypeOK, Context, Range
  <2>7. seg'[seg'[x].parent].trace = c
    BY <2>5, <2>6, OwnersStay
  <2>8. QED
    BY <2>2, <2>3, <2>5, <2>6, <2>7 DEF Grows
<1>3. QED
  BY <1>1, <1>2

\* A context is well owned after the step if its stack is one of a well owned
\* context of the state before, under the same collector.
LEMMA StacksOwnedStep ==
    ASSUME TypeOK, MixInv, [Next]_vars
    PROVE  StacksOwned'
<1> DEFINE Kin(c) == c.stack = <<>> \/
             \E d \in Context : OwnStack(d) /\ d.stack = c.stack
                                 /\ d.collector = c.collector
           Good == /\ \A t \in Tasks : Kin(ctx'[t])
                   /\ \A f \in Frames : Kin(saved'[f])
<1>t. ctx \in [Tasks -> Context] /\ saved \in [Frames -> Context]
  BY DEF TypeOK
<1>o. /\ \A t \in Tasks : OwnStack(ctx[t])
      /\ \A f \in Frames : OwnStack(saved[f])
  BY DEF MixInv, StacksOwned
<1>k. ASSUME NEW c, Kin(c)
      PROVE  \A s \in Range(c.stack) :
               c.collector # None /\ seg'[s].trace = c.collector
  <2>1. CASE c.stack = <<>>
    BY <2>1 DEF Range
  <2>2. CASE \E d \in Context : OwnStack(d) /\ d.stack = c.stack
                                 /\ d.collector = c.collector
    BY <2>2, OwnStackStays
  <2>3. QED
    BY <1>k, <2>1, <2>2
<1>g. ASSUME Good PROVE StacksOwned'
  BY <1>g, <1>k DEF StacksOwned, OwnStack
<1>1. CASE UNCHANGED <<ctx, top, below, saved>>
  <2>1. Good
    BY <1>t, <1>o, <1>1
  <2>2. QED
    BY <1>g, <2>1
<1>2. ASSUME NEW t \in Tasks, NEW r \in Requests, Accept(t, r)
      PROVE  StacksOwned'
  <2>1. \A w \in Tasks : ctx'[w] = ctx[w] \/ ctx'[w].stack = <<>>
    BY <1>t, <1>2 DEF Accept, BoundContext
  <2>2. \A f \in Frames : saved'[f] = saved[f] \/ saved'[f] = ctx[t]
    BY <1>t, <1>2 DEF Accept, Push
  <2>3. Good
    BY <1>t, <1>o, <2>1, <2>2
  <2>4. QED
    BY <1>g, <2>3
<1>3. ASSUME NEW t \in Tasks, NEW r \in Requests, Reset(t, r)
      PROVE  StacksOwned'
  <2>1. top[t] = r /\ r \in Frames
    BY <1>3 DEF Reset
  <2>2. \A w \in Tasks : ctx'[w] = ctx[w] \/ ctx'[w] = saved[r]
    BY <1>t, <1>3, <2>1 DEF Reset, Restored
  <2>3. \A f \in Frames : saved'[f] = saved[f] \/ saved'[f] = NoContext
    BY <1>t, <1>3 DEF Reset, Pop
  <2>4. Good
    BY <1>t, <1>o, <2>1, <2>2, <2>3 DEF NoContext
  <2>5. QED
    BY <1>g, <2>4
<1>4. ASSUME NEW t \in Tasks, NEW w \in Tasks, Spawn(t, w) PROVE StacksOwned'
  <2>1. \A v \in Tasks : ctx'[v] = ctx[v] \/ ctx'[v] = ctx[t]
    BY <1>t, <1>4 DEF Spawn
  <2>2. UNCHANGED saved
    BY <1>4 DEF Spawn
  <2>3. Good
    BY <1>t, <1>o, <2>1, <2>2
  <2>4. QED
    BY <1>g, <2>3
<1>5. ASSUME NEW t \in Tasks, CloseSegment(t) PROVE StacksOwned'
  <2> DEFINE s == top[t]
  <2>1. s \in Segments
    BY <1>5 DEF CloseSegment
  <2>2. /\ ctx[t].collector = seg[s].trace
        /\ saved[s] # NoContext => saved[s].collector = seg[s].trace
    BY <2>1 DEF MixInv, FramesOwned
  <2>3. /\ ctx'[t].stack = saved[s].stack
        /\ ctx'[t].collector = ctx[t].collector
        /\ \A w \in Tasks \ {t} : ctx'[w] = ctx[w]
    BY <1>t, <1>5 DEF CloseSegment, Context
  <2>4. saved[s] \in Context /\ OwnStack(saved[s])
    BY <1>t, <1>o, <2>1
  <2>5. saved[s] = NoContext => saved[s].stack = <<>>
    BY DEF NoContext
  <2>6. Kin(ctx'[t])
    BY <2>2, <2>3, <2>4, <2>5
  <2>7. \A f \in Frames : saved'[f] = saved[f] \/ saved'[f] = NoContext
    BY <1>t, <1>5, <2>1 DEF CloseSegment, Pop
  <2>8. Good
    <3>1. \A w \in Tasks \ {t} : Kin(ctx'[w])
      BY <1>t, <1>o, <2>3
    <3>2. \A f \in Frames : Kin(saved'[f])
      BY <1>t, <1>o, <2>7 DEF NoContext
    <3>3. QED
      BY <2>6, <3>1, <3>2
  <2>9. QED
    BY <1>g, <2>8
<1>6. ASSUME NEW t \in Tasks, NEW s \in Segments, NEW a \in Attributes,
             OpenSegment(t, s, a)
      PROVE  StacksOwned'
  <2> DEFINE c == ctx[t].collector
  <2>1. c \in Requests /\ seg'[s].trace = c /\ c # None
    BY <1>6, OpenGrows, FrameAssumption DEF Grows
  <2>2. ctx[t].stack \in Seq(Segments)
    BY <1>t DEF Context
  <2>3. /\ ctx'[t].stack = Append(ctx[t].stack, s)
        /\ ctx'[t].collector = c
        /\ \A w \in Tasks \ {t} : ctx'[w] = ctx[w]
    BY <1>t, <1>6 DEF OpenSegment, Context
  <2>4. Range(ctx'[t].stack) = Range(ctx[t].stack) \cup {s}
    BY <2>2, <2>3, RangeOfAppend
  <2>5. \A x \in Range(ctx[t].stack) : seg'[x].trace = c
    BY <1>t, <1>o, OwnStackStays
  <2>6. OwnStack(ctx[t])'
    BY <2>1, <2>3, <2>4, <2>5 DEF OwnStack
  <2>7. \A w \in Tasks \ {t} : Kin(ctx'[w])
    BY <1>t, <1>o, <2>3
  <2>8. \A f \in Frames : saved'[f] = saved[f] \/ saved'[f] = ctx[t]
    BY <1>t, <1>6 DEF OpenSegment, Push
  <2>9. \A f \in Frames : Kin(saved'[f])
    BY <1>t, <1>o, <2>8
  <2>10. QED
    BY <1>k, <2>6, <2>7, <2>9 DEF StacksOwned, OwnStack
<1>7. QED
  BY <1>1, <1>2, <1>3, <1>4, <1>5, <1>6, StackWriters

\* A frame f on top of a context c runs a segment of the collector of c.
Runs(f, c) == f \in Segments => c.collector # None /\ seg[f].trace = c.collector

\* Every step keeps the call stacks in agreement with the contexts.
LEMMA FramesOwnedStep ==
    ASSUME TypeOK, MixInv, [Next]_vars
    PROVE  FramesOwned'
<1>t. /\ ctx \in [Tasks -> Context] /\ saved \in [Frames -> Context]
      /\ top \in [Tasks -> Frames \cup {None}]
      /\ below \in [Frames -> Frames \cup {None}]
  BY DEF TypeOK
<1>o. /\ \A t \in Tasks : Runs(top[t], ctx[t])
      /\ \A f \in Frames : Runs(below[f], saved[f])
      /\ \A s \in Segments :
           saved[s] # NoContext => saved[s].collector = seg[s].trace
  BY DEF MixInv, FramesOwned, Runs
<1>r. ASSUME NEW f, NEW c, Runs(f, c)
      PROVE  f \in Segments => c.collector # None /\ seg'[f].trace = c.collector
  BY <1>r, OwnersStay DEF Runs
<1>g. ASSUME \A t \in Tasks : Runs(top'[t], ctx'[t]),
             \A f \in Frames : Runs(below'[f], saved'[f]),
             \A s \in Segments :
               saved'[s] # NoContext => saved'[s].collector = seg'[s].trace
      PROVE  FramesOwned'
  BY <1>g, <1>r DEF FramesOwned
<1>s. ASSUME NEW s \in Segments, saved'[s] = saved[s], saved[s] # NoContext,
             seg[s].trace # None
      PROVE  saved'[s].collector = seg'[s].trace
  BY <1>s, <1>o, OwnersStay
<1>n. \A s \in Segments : Runs(None, NoContext) /\ s # None
  BY FrameAssumption DEF Runs
<1>u. ASSUME NEW s \in Segments, saved[s] # NoContext, UNCHANGED seg \/ Shrinks
      PROVE  saved[s].collector = seg'[s].trace
  BY <1>u, <1>o DEF Shrinks
<1>1. CASE UNCHANGED <<ctx, top, below, saved>> /\ Shrinks
  BY <1>1, <1>o, <1>g, <1>u
<1>2. ASSUME NEW t \in Tasks, NEW r \in Requests, Accept(t, r)
      PROVE  FramesOwned'
  <2>1. /\ ctx' = [ctx EXCEPT ![t] = BoundContext(t, r)]
        /\ saved' = [saved EXCEPT ![r] = ctx[t]]
        /\ below' = [below EXCEPT ![r] = top[t]]
        /\ top' = [top EXCEPT ![t] = r]
        /\ UNCHANGED seg /\ r \notin Segments
    BY <1>2, FrameAssumption DEF Accept, Push
  <2>2. \A w \in Tasks : Runs(top'[w], ctx'[w])
    BY <1>t, <1>o, <2>1 DEF Runs
  <2>3. \A f \in Frames : Runs(below'[f], saved'[f])
    BY <1>t, <1>o, <2>1
  <2>4. \A s \in Segments : saved'[s] = saved[s]
    BY <1>t, <2>1
  <2>5. QED
    BY <1>g, <1>o, <2>1, <2>2, <2>3, <2>4
<1>3. ASSUME NEW t \in Tasks, NEW r \in Requests, Reset(t, r)
      PROVE  FramesOwned'
  <2>1. /\ ctx' = [ctx EXCEPT ![t] = saved[r]]
        /\ saved' = [saved EXCEPT ![r] = NoContext]
        /\ below' = [below EXCEPT ![r] = None]
        /\ top' = [top EXCEPT ![t] = below[r]]
        /\ UNCHANGED seg /\ r \in Frames /\ None \notin Segments
    BY <1>3, FrameAssumption DEF Reset, Pop, Restored
  <2>2. \A w \in Tasks : Runs(top'[w], ctx'[w])
    BY <1>t, <1>o, <2>1
  <2>3. \A f \in Frames : Runs(below'[f], saved'[f])
    BY <1>t, <1>o, <2>1 DEF Runs
  <2>4. \A s \in Segments : saved'[s] # NoContext => saved'[s] = saved[s]
    BY <1>t, <2>1
  <2>5. QED
    BY <1>g, <1>o, <2>1, <2>2, <2>3, <2>4
<1>4. ASSUME NEW t \in Tasks, NEW w \in Tasks, Spawn(t, w) PROVE FramesOwned'
  <2>1. /\ ctx' = [ctx EXCEPT ![w] = ctx[t]]
        /\ top[w] = None /\ None \notin Segments
        /\ UNCHANGED <<seg, top, below, saved>>
    BY <1>4, FrameAssumption DEF Spawn
  <2>2. \A v \in Tasks : Runs(top'[v], ctx'[v])
    BY <1>t, <1>o, <2>1 DEF Runs
  <2>3. QED
    BY <1>g, <1>o, <2>1, <2>2
<1>5. ASSUME NEW t \in Tasks, CloseSegment(t) PROVE FramesOwned'
  <2> DEFINE s == top[t]
  <2>1. s \in Segments /\ s \in Frames /\ None \notin Segments
    BY <1>5, FrameAssumption DEF CloseSegment
  <2>2. /\ saved' = [saved EXCEPT ![s] = NoContext]
        /\ below' = [below EXCEPT ![s] = None]
        /\ top' = [top EXCEPT ![t] = below[s]]
    BY <1>5 DEF CloseSegment, Pop
  <2>3. /\ ctx'[t].collector = ctx[t].collector
        /\ \A w \in Tasks \ {t} : ctx'[w] = ctx[w]
    BY <1>t, <1>5 DEF CloseSegment, Context
  <2>4. seg[s].trace = ctx[t].collector /\ ctx[t].collector # None
    BY <1>o, <2>1 DEF Runs
  <2>5. Runs(below[s], ctx'[t])
    <3>1. CASE saved[s] = NoContext
      BY <1>o, <2>1, <3>1 DEF Runs, NoContext
    <3>2. CASE saved[s] # NoContext
      BY <1>o, <2>1, <2>3, <2>4, <3>2 DEF Runs
    <3>3. QED
      BY <3>1, <3>2
  <2>6. \A w \in Tasks : Runs(top'[w], ctx'[w])
    BY <1>t, <1>o, <2>2, <2>3, <2>5
  <2>7. \A f \in Frames : Runs(below'[f], saved'[f])
    BY <1>t, <1>o, <2>1, <2>2 DEF Runs
  <2>8. \A x \in Segments : saved'[x] # NoContext => saved'[x] = saved[x]
    BY <1>t, <2>1, <2>2
  <2>9. \A x \in Segments : seg'[x].trace = seg[x].trace
    BY <1>5 DEF CloseSegment, TypeOK, SegmentType
  <2>10. QED
    BY <1>g, <1>o, <2>6, <2>7, <2>8, <2>9
<1>6. ASSUME NEW t \in Tasks, NEW s \in Segments, NEW a \in Attributes,
             OpenSegment(t, s, a)
      PROVE  FramesOwned'
  <2> DEFINE c == ctx[t].collector
  <2>1. /\ c \in Requests /\ seg'[s].trace = c /\ c # None
        /\ \A x \in Segments \ {s} : seg'[x] = seg[x]
        /\ s \in Frames
    BY <1>6, OpenGrows, FrameAssumption DEF Grows
  <2>2. /\ saved' = [saved EXCEPT ![s] = ctx[t]]
        /\ below' = [below EXCEPT ![s] = top[t]]
        /\ top' = [top EXCEPT ![t] = s]
    BY <1>6 DEF OpenSegment, Push
  <2>3. /\ ctx'[t].collector = c
        /\ \A w \in Tasks \ {t} : ctx'[w] = ctx[w]
    BY <1>t, <1>6 DEF OpenSegment, Context
  <2>4. \A w \in Tasks : top'[w] \in Segments =>
          ctx'[w].collector # None /\ seg'[top'[w]].trace = ctx'[w].collector
    <3>1. top'[t] = s /\ \A w \in Tasks \ {t} : top'[w] = top[w]
      BY <1>t, <2>2
    <3>2. \A w \in Tasks \ {t} : Runs(top'[w], ctx'[w])
      BY <1>o, <2>3, <3>1
    <3>3. QED
      BY <1>r, <2>1, <2>3, <3>1, <3>2
  <2>5. \A f \in Frames : Runs(below'[f], saved'[f])
    BY <1>t, <1>o, <2>1, <2>2
  <2>6. \A x \in Segments :
          saved'[x] # NoContext => saved'[x].collector = seg'[x].trace
    BY <1>t, <1>o, <2>1, <2>2
  <2>7. QED
    BY <1>r, <2>4, <2>5, <2>6 DEF FramesOwned
<1>7. QED
  BY <1>1, <1>2, <1>3, <1>4, <1>5, <1>6, StackWriters, OthersShrink

\* The invariant behind RequestsNeverMix.
LEMMA MixInvariant == Spec => [](FreezeInv /\ MixInv)
<1>1. Init => MixInv
  BY FrameAssumption
     DEF Init, MixInv, StacksOwned, OwnStack, ParentsOwned, FramesOwned,
         NoContext, NoSegment, Range
<1>2. FreezeInv /\ MixInv /\ [Next]_vars => MixInv'
  BY StacksOwnedStep, ParentsOwnedStep, FramesOwnedStep DEF FreezeInv, MixInv
<1>3. QED
  BY <1>1, <1>2, FreezeInvariant, PTL DEF Spec

\* Concurrent and nested requests never mix their segments, nor the parents
\* of these.
THEOREM RequestsNeverMix == Spec => []NoMixing
<1>1. FreezeInv /\ MixInv => NoMixing
  <2>1. ASSUME TypeOK, Owned, ParentsOwned,
               NEW r \in Requests, NEW s \in Range(trace[r].segments)
        PROVE  /\ seg[s].trace = r
               /\ seg[s].parent # None => seg[seg[s].parent].trace = r
    BY <2>1, ListTyped DEF Owned, ParentsOwned
  <2>2. QED
    BY <2>1 DEF FreezeInv, MixInv, NoMixing
<1>2. QED
  BY <1>1, MixInvariant, PTL

-----------------------------------------------------------------------------
(***************************************************************************)
(* The lifecycle keeps the promise of TraceRecord: every step of the       *)
(* middleware, the collectors and the application is a step of TraceRecord *)
(* or changes nothing that TraceRecord sees.                               *)
(***************************************************************************)
\* Contexts name requests that were accepted.
ContextsBegun ==
    /\ \A t \in Tasks : ctx[t].collector # None => pc[ctx[t].collector] # "idle"
    /\ \A f \in Frames :
         saved[f].collector # None => pc[saved[f].collector] # "idle"

\* Where a request is once its trace was sanitized.
Ends == {"finalize", "save", "reset", "done"}

\* A trace that is not marked lists every segment recorded for it, and the
\* mark is only set by the sanitizer.
NothingMissing ==
    \A r \in Requests :
        /\ ~trace[r].truncated =>
             \A s \in Segments : seg[s].trace = r => s \in Range(trace[r].segments)
        /\ trace[r].truncated => pc[r] \in Ends

\* Only traces with a snapshot reach the store.
StoredFrozen == \A r \in stored : Finalized(r)

LogInv == ContextsBegun /\ NothingMissing /\ StoredFrozen

-----------------------------------------------------------------------------
\* A request is never idle again, and its end is never undone.
LEMMA Forward ==
    ASSUME TypeOK, [Next]_vars, NEW q \in Requests
    PROVE  /\ pc[q] # "idle" => pc'[q] # "idle"
           /\ pc[q] \in Ends => pc'[q] \in Ends
           /\ pc[q] \in {"reset", "done"} => pc'[q] \in {"reset", "done"}
<1> DEFINE P == /\ pc[q] # "idle" => pc'[q] # "idle"
                /\ pc[q] \in Ends => pc'[q] \in Ends
                /\ pc[q] \in {"reset", "done"} => pc'[q] \in {"reset", "done"}
<1> USE DEF Ends
<1>p. pc \in [Requests -> Phases]
  BY DEF TypeOK
<1>1. CASE UNCHANGED pc
  BY <1>1
<1>2. ASSUME NEW t \in Tasks, NEW r \in Requests, Serve(t, r)
      PROVE  P
  <2>1. CASE Accept(t, r) \/ SendStart(t, r) \/ SendLastBody(t, r)
               \/ SendReturns(t, r) \/ AppEnds(t, r)
    BY <1>p, <2>1, FrameAssumption
       DEF Accept, SendStart, SendLastBody, SendReturns, AppEnds, Running, InApp
  <2>2. CASE Drop(t, r) \/ Diagnose(t, r) \/ Finalize(t, r) \/ Save(t, r)
               \/ Reset(t, r)
    BY <1>p, <2>2 DEF Drop, Diagnose, Finalize, Save, Reset
  <2>3. CASE Sanitize(t, r)
    BY <1>p, <2>3 DEF Sanitize
  <2>4. QED
    BY <1>2, <2>1, <2>2, <2>3 DEF Serve, Settle
<1>3. ASSUME NEW t \in Tasks, NEW e \in Failures, Raise(t, e)
      PROVE  P
  BY <1>p, <1>3 DEF Raise
<1>4. ASSUME NEW t \in Tasks, Measure(t) PROVE UNCHANGED pc
  BY <1>4 DEF Measure, OpenSegment, RejectSegment, CloseSegment
<1>5. ASSUME NEW t \in Tasks, Run(t) PROVE P
  BY <1>1, <1>3, <1>5 DEF Run, Catch, Spawn
<1>6. ASSUME NEW v \in Switches, Switch(v) PROVE UNCHANGED pc
  BY <1>6 DEF Switch
<1>7. CASE UNCHANGED vars
  BY <1>1, <1>7 DEF vars
<1>8. QED
  BY <1>1, <1>2, <1>4, <1>5, <1>6, <1>7 DEF Next

\* No step lets a context name a request that was not accepted.
LEMMA ContextsBegunStep ==
    ASSUME TypeOK, ContextsBegun, [Next]_vars
    PROVE  ContextsBegun'
<1> DEFINE Begun(c) == c.collector # None => pc'[c.collector] # "idle"
<1>t. ctx \in [Tasks -> Context] /\ saved \in [Frames -> Context]
  BY DEF TypeOK
<1>o. (\A t \in Tasks : Begun(ctx[t])) /\ (\A f \in Frames : Begun(saved[f]))
  BY <1>t, Forward DEF ContextsBegun, Context
<1>g. ASSUME \A t \in Tasks : Begun(ctx'[t]), \A f \in Frames : Begun(saved'[f])
      PROVE  ContextsBegun'
  BY <1>g DEF ContextsBegun
<1>n. Begun(NoContext)
  BY DEF NoContext
<1>1. CASE UNCHANGED <<ctx, top, below, saved>>
  BY <1>o, <1>1, <1>g
<1>2. ASSUME NEW t \in Tasks, NEW r \in Requests, Accept(t, r)
      PROVE  ContextsBegun'
  <2>1. pc'[r] = "app"
    BY <1>2 DEF Accept, TypeOK
  <2>2. \A w \in Tasks : ctx'[w] = ctx[w] \/ ctx'[w].collector = r
    BY <1>t, <1>2 DEF Accept, BoundContext
  <2>3. \A f \in Frames : saved'[f] = saved[f] \/ saved'[f] = ctx[t]
    BY <1>t, <1>2 DEF Accept, Push
  <2>4. QED
    BY <1>o, <1>g, <2>1, <2>2, <2>3
<1>3. ASSUME NEW t \in Tasks, NEW r \in Requests, Reset(t, r)
      PROVE  ContextsBegun'
  <2>1. top[t] = r /\ r \in Frames
    BY <1>3 DEF Reset, Frames
  <2>2. \A w \in Tasks : ctx'[w] = ctx[w] \/ ctx'[w] = saved[r]
    BY <1>t, <1>3, <2>1 DEF Reset, Restored
  <2>3. \A f \in Frames : saved'[f] = saved[f] \/ saved'[f] = NoContext
    BY <1>t, <1>3 DEF Reset, Pop
  <2>4. QED
    BY <1>o, <1>g, <1>n, <2>1, <2>2, <2>3
<1>4. ASSUME NEW t \in Tasks, NEW w \in Tasks, Spawn(t, w) PROVE ContextsBegun'
  <2>1. \A v \in Tasks : ctx'[v] = ctx[v] \/ ctx'[v] = ctx[t]
    BY <1>t, <1>4 DEF Spawn
  <2>2. UNCHANGED saved
    BY <1>4 DEF Spawn
  <2>3. QED
    BY <1>o, <1>g, <2>1, <2>2
<1>5. ASSUME NEW t \in Tasks, CloseSegment(t) PROVE ContextsBegun'
  <2>1. \A w \in Tasks : ctx'[w].collector = ctx[w].collector
    BY <1>t, <1>5 DEF CloseSegment, Context
  <2>2. \A f \in Frames : saved'[f] = saved[f] \/ saved'[f] = NoContext
    BY <1>t, <1>5 DEF CloseSegment, Pop
  <2>3. QED
    BY <1>o, <1>g, <1>n, <2>1, <2>2
<1>6. ASSUME NEW t \in Tasks, NEW s \in Segments, NEW a \in Attributes,
             OpenSegment(t, s, a)
      PROVE  ContextsBegun'
  <2>1. \A w \in Tasks : ctx'[w].collector = ctx[w].collector
    BY <1>t, <1>6 DEF OpenSegment, Context
  <2>2. \A f \in Frames : saved'[f] = saved[f] \/ saved'[f] = ctx[t]
    BY <1>t, <1>6 DEF OpenSegment, Push
  <2>3. QED
    BY <1>o, <1>g, <2>1, <2>2
<1>7. QED
  BY <1>1, <1>2, <1>3, <1>4, <1>5, <1>6, StackWriters

\* A list that is not cut keeps all of its elements.
LEMMA KeptWhole ==
    ASSUME NEW list \in Seq(Segments), NEW k \in KeptLengths(Len(list)),
           ~Marked(Len(list), k)
    PROVE  Range(Kept(list, k)) = Range(list)
  <1>1. /\ Len(list) \in Nat /\ k \in 0 .. Len(list)
        /\ DOMAIN list = 1 .. Len(list)
    BY LenProperties, BoundAssumption DEF KeptLengths
  <1>a. \A m \in Nat : \A j \in 0 .. m : ~(j < m) => j = m
    OBVIOUS
  <1>2. k = Len(list)
    <2>1. ~(k < Len(list))
      BY DEF Marked
    <2>2. QED
      BY <1>1, <1>a, <2>1
  <1>3. /\ DOMAIN Kept(list, k) = 1 .. k
        /\ \A i \in 1 .. k : Kept(list, k)[i] = list[i]
    BY KeptList, LenProperties
  <1>4. QED
    BY <1>1, <1>2, <1>3 DEF Range

\* No step loses a segment without a mark.
LEMMA NothingMissingStep ==
    ASSUME TypeOK, NothingMissing, [Next]_vars
    PROVE  NothingMissing'
<1> SUFFICES ASSUME NEW q \in Requests
             PROVE  /\ ~trace'[q].truncated => \A s \in Segments :
                         seg'[s].trace = q => s \in Range(trace'[q].segments)
                    /\ trace'[q].truncated => pc'[q] \in Ends
  BY DEF NothingMissing
<1> DEFINE P == /\ ~trace'[q].truncated => \A s \in Segments :
                     seg'[s].trace = q => s \in Range(trace'[q].segments)
                /\ trace'[q].truncated => pc'[q] \in Ends
<1>t. trace \in [Requests -> TraceType] /\ seg \in [Segments -> SegmentType]
  BY DEF TypeOK
<1>o. /\ ~trace[q].truncated => \A s \in Segments :
           seg[s].trace = q => s \in Range(trace[q].segments)
      /\ trace[q].truncated => pc[q] \in Ends
  BY DEF NothingMissing
<1>f. pc[q] \in Ends => pc'[q] \in Ends
  BY Forward
<1>g. ASSUME trace'[q].truncated = trace[q].truncated,
             trace'[q].segments = trace[q].segments,
             \A s \in Segments : seg'[s].trace = seg[s].trace
      PROVE  P
  BY <1>f, <1>o, <1>g
<1>1. CASE UNCHANGED <<trace, seg, snapshot>>
  BY <1>1, <1>g
<1>2. ASSUME NEW t \in Tasks, NEW r \in Requests,
             SendStart(t, r) \/ SendReturns(t, r) \/ AppEnds(t, r)
               \/ Diagnose(t, r)
      PROVE  P
  <2>1. CASE SendStart(t, r)
    BY <1>t, <1>g, <2>1 DEF SendStart, TraceType
  <2>2. CASE SendReturns(t, r)
    BY <1>t, <1>g, <2>2 DEF SendReturns, TraceType
  <2>3. CASE AppEnds(t, r)
    BY <1>t, <1>g, <2>3 DEF AppEnds, TraceType
  <2>4. CASE Diagnose(t, r)
    BY <1>t, <1>g, <2>4 DEF Diagnose, TraceType
  <2>5. QED
    BY <1>2, <2>1, <2>2, <2>3, <2>4
<1>3. ASSUME NEW t \in Tasks, NEW r \in Requests, Sanitize(t, r) PROVE P
  <2>1. PICK k \in KeptLengths(Len(trace[r].segments)), mark \in BOOLEAN,
             named \in SUBSET trace[r].reported :
          /\ Marked(Len(trace[r].segments), k) => mark
          /\ trace' = [trace EXCEPT ![r].segments = Kept(trace[r].segments, k),
                                    ![r].reported = named,
                                    ![r].truncated = mark]
          /\ seg' = [s \in Segments |->
                      IF s \in Range(Kept(trace[r].segments, k))
                        THEN [seg[s] EXCEPT !.bounded = TRUE] ELSE seg[s]]
    BY <1>3, Sanitized
  <2>2. \A x \in Segments : seg'[x].trace = seg[x].trace
    BY <1>t, <2>1 DEF SegmentType
  <2>3. CASE q # r
    BY <1>t, <1>g, <2>1, <2>2, <2>3
  <2>4. CASE q = r
    <3>1. /\ trace'[q].segments = Kept(trace[q].segments, k)
          /\ trace'[q].truncated = mark
      BY <1>t, <2>1, <2>4 DEF TraceType
    <3>2. pc[q] = "sanitize" /\ pc'[q] = "finalize"
      BY <1>3, <2>4 DEF Sanitize, TypeOK
    <3>3. ~trace[q].truncated
      BY <1>o, <3>2 DEF Ends
    <3>4. ~mark => Range(Kept(trace[q].segments, k)) = Range(trace[q].segments)
      BY <2>1, <2>4, ListTyped, KeptWhole
    <3>5. QED
      BY <1>o, <2>2, <3>1, <3>2, <3>3, <3>4 DEF Ends
  <2>5. QED
    BY <2>3, <2>4
<1>4. ASSUME NEW t \in Tasks, NEW r \in Requests, Finalize(t, r) PROVE P
  BY <1>4, <1>g DEF Finalize
<1>5. ASSUME NEW t \in Tasks, NEW s \in Segments, NEW a \in Attributes,
             OpenSegment(t, s, a)
      PROVE  P
  <2>1. PICK c \in Requests : Grows(c, s)
    BY <1>5, OpenGrows
  <2>2. /\ \A x \in Segments \ {s} : seg'[x].trace = seg[x].trace
        /\ seg'[s].trace = c
    BY <2>1 DEF Grows
  <2>3. CASE q = c
    BY <1>o, <1>f, <2>1, <2>2, <2>3 DEF Grows
  <2>4. CASE q # c
    BY <1>o, <1>f, <2>1, <2>2, <2>4 DEF Grows
  <2>5. QED
    BY <2>3, <2>4
<1>6. ASSUME NEW t \in Tasks, CloseSegment(t) PROVE P
  <2>1. \A x \in Segments : seg'[x].trace = seg[x].trace
    BY <1>t, <1>6 DEF CloseSegment, SegmentType
  <2>2. QED
    BY <1>6, <1>g, <2>1 DEF CloseSegment
<1>7. QED
  BY <1>1, <1>2, <1>3, <1>4, <1>5, <1>6, Writers

\* Only the save of a request writes to the store.
LEMMA StoreWriters ==
    ASSUME [Next]_vars
    PROVE  UNCHANGED stored \/ \E t \in Tasks, r \in Requests : Save(t, r)
<1>1. ASSUME NEW t \in Tasks, NEW r \in Requests, Serve(t, r)
      PROVE  UNCHANGED stored \/ Save(t, r)
  <2>1. CASE Accept(t, r) \/ SendStart(t, r) \/ SendLastBody(t, r)
               \/ SendReturns(t, r) \/ AppEnds(t, r)
    BY <2>1 DEF Accept, SendStart, SendLastBody, SendReturns, AppEnds
  <2>2. CASE Drop(t, r) \/ Diagnose(t, r) \/ Finalize(t, r) \/ Reset(t, r)
    BY <2>2 DEF Drop, Diagnose, Finalize, Reset
  <2>3. CASE Sanitize(t, r)
    BY <2>3 DEF Sanitize
  <2>4. QED
    BY <1>1, <2>1, <2>2, <2>3 DEF Serve, Settle
<1>2. ASSUME NEW t \in Tasks, Measure(t) PROVE UNCHANGED stored
  BY <1>2 DEF Measure, OpenSegment, RejectSegment, CloseSegment
<1>3. ASSUME NEW t \in Tasks, Run(t) PROVE UNCHANGED stored
  BY <1>3 DEF Run, Raise, Catch, Spawn
<1>4. ASSUME NEW v \in Switches, Switch(v) PROVE UNCHANGED stored
  BY <1>4 DEF Switch
<1>5. CASE UNCHANGED vars
  BY <1>5 DEF vars
<1>6. QED
  BY <1>1, <1>2, <1>3, <1>4, <1>5 DEF Next

\* What is saved has a snapshot.
LEMMA StoredFrozenStep ==
    ASSUME FreezeInv, StoredFrozen, [Next]_vars
    PROVE  StoredFrozen'
<1>1. \A r \in Requests : Finalized(r) => snapshot'[r] = snapshot[r]
  BY FrozenStays DEF FreezeInv
<1>2. ASSUME NEW r \in stored', r \notin stored PROVE r \in Requests /\ Finalized(r)
  <2>1. PICK t \in Tasks, q \in Requests : Save(t, q)
    BY <1>2, StoreWriters
  <2>2. r = q
    BY <1>2, <2>1 DEF Save
  <2>3. QED
    BY <2>1, <2>2 DEF Save, FreezeInv, FinalAtEnd
<1>3. QED
  BY <1>1, <1>2 DEF StoredFrozen, Finalized, FreezeInv, TypeOK

\* The invariant behind the refinement.
LEMMA LogInvariant == Spec => [](FreezeInv /\ LogInv)
<1>1. Init => LogInv
  <2>1. Init => ContextsBegun
    BY DEF Init, ContextsBegun, NoContext
  <2>2. Init => NothingMissing
    BY FrameAssumption DEF Init, NothingMissing, EmptyTrace, NoSegment
  <2>3. Init => StoredFrozen
    BY DEF Init, StoredFrozen
  <2>4. QED
    BY <2>1, <2>2, <2>3 DEF LogInv
<1>2. FreezeInv /\ LogInv /\ [Next]_vars => LogInv'
  BY ContextsBegunStep, NothingMissingStep, StoredFrozenStep DEF FreezeInv, LogInv
<1>3. QED
  BY <1>1, <1>2, FreezeInvariant, PTL DEF Spec

\* A stored trace that lacks a segment its collector accepted is marked.
THEOREM LossIsMarked == Spec => []NoSilentLoss
<1>1. FreezeInv /\ LogInv => NoSilentLoss
  <2> SUFFICES ASSUME FreezeInv, LogInv, NEW r \in stored,
                      ~snapshot[r].trace.truncated, NEW s \in Segments,
                      seg[s].trace = r
               PROVE  s \in DOMAIN snapshot[r].segments
    BY DEF NoSilentLoss
  <2>1. r \in Requests /\ snapshot[r] = Image(r)
    BY DEF FreezeInv, TypeOK, LogInv, StoredFrozen, SnapshotIsFinal
  <2>2. s \in Range(trace[r].segments)
    BY <2>1 DEF LogInv, NothingMissing, Image
  <2>3. QED
    BY <2>1, <2>2 DEF Image
<1>2. QED
  BY <1>1, LogInvariant, PTL

-----------------------------------------------------------------------------
\* Initial states map to initial states.
LEMMA PromiseInit == Init => Promise!RInit
  BY FrameAssumption
     DEF Init, Promise!RInit, PhaseOf, RecordedOf, ContentOf, Finalized,
         NoSegment

\* What TraceRecord sees is unchanged.
Silent ==
    /\ UNCHANGED stored
    /\ \A q \in Requests : /\ PhaseOf(q)' = PhaseOf(q)
                          /\ RecordedOf(q)' = RecordedOf(q)
                          /\ ContentOf(q)' = ContentOf(q)

\* A silent step is a stuttering step of TraceRecord.
LEMMA SilentStutters == Silent => UNCHANGED Promise!rvars
  BY DEF Silent, Promise!rvars

\* Neither the snapshots nor the owners of segments change.
Unrecorded ==
    /\ UNCHANGED snapshot
    /\ \A x \in Segments : seg'[x].trace = seg[x].trace

\* When a step that records nothing is silent for a request.
LEMMA UnrecordedKeeps ==
    ASSUME Unrecorded, NEW q \in Requests
    PROVE  /\ RecordedOf(q)' = RecordedOf(q)
           /\ ContentOf(q)' = ContentOf(q)
           /\ Finalized(q)' = Finalized(q)
           /\ pc'[q] = pc[q] => PhaseOf(q)' = PhaseOf(q)
           /\ (/\ pc[q] # "idle" /\ pc'[q] # "idle"
               /\ pc[q] \notin {"reset", "done"} /\ pc'[q] \notin {"reset", "done"})
              => PhaseOf(q)' = PhaseOf(q)
           /\ (Finalized(q) /\ pc[q] # "idle" /\ pc'[q] # "idle")
              => PhaseOf(q)' = PhaseOf(q)
           /\ (pc[q] = "reset" /\ pc'[q] = "done") => PhaseOf(q)' = PhaseOf(q)
  BY DEF Unrecorded, RecordedOf, ContentOf, PhaseOf, Finalized

\* The steps of a request while its application runs, and its checkpoints.
LEMMA ServingIsSilent ==
    ASSUME TypeOK, NEW t \in Tasks, NEW r \in Requests,
           SendStart(t, r) \/ SendLastBody(t, r) \/ SendReturns(t, r)
             \/ AppEnds(t, r) \/ Diagnose(t, r) \/ Sanitize(t, r) \/ Reset(t, r)
    PROVE  Silent
<1>t. pc \in [Requests -> Phases] /\ seg \in [Segments -> SegmentType]
  BY DEF TypeOK
<1>1. UNCHANGED <<snapshot, stored>>
  BY DEF SendStart, SendLastBody, SendReturns, AppEnds, Diagnose, Sanitize, Reset
<1>2. \A x \in Segments : seg'[x].trace = seg[x].trace
  <2>1. CASE Sanitize(t, r)
    <3>1. PICK k \in KeptLengths(Len(trace[r].segments)), mark \in BOOLEAN,
               named \in SUBSET trace[r].reported :
            seg' = [s \in Segments |->
                      IF s \in Range(Kept(trace[r].segments, k))
                        THEN [seg[s] EXCEPT !.bounded = TRUE] ELSE seg[s]]
      BY <2>1, Sanitized
    <3>2. QED
      BY <1>t, <3>1 DEF SegmentType
  <2>2. CASE ~Sanitize(t, r)
    BY <2>2 DEF SendStart, SendLastBody, SendReturns, AppEnds, Diagnose, Reset
  <2>3. QED
    BY <2>1, <2>2
<1>3. /\ \A q \in Requests \ {r} : pc'[q] = pc[q]
      /\ \/ pc'[r] = pc[r]
         \/ /\ pc[r] # "idle" /\ pc'[r] # "idle"
            /\ pc[r] \notin {"reset", "done"} /\ pc'[r] \notin {"reset", "done"}
         \/ pc[r] = "reset" /\ pc'[r] = "done"
  <2>1. CASE SendStart(t, r) \/ SendLastBody(t, r) \/ SendReturns(t, r)
    BY <1>t, <2>1, FrameAssumption
       DEF SendStart, SendLastBody, SendReturns, Running, InApp
  <2>2. CASE AppEnds(t, r) \/ Diagnose(t, r) \/ Reset(t, r)
    BY <1>t, <2>2 DEF AppEnds, Diagnose, Reset
  <2>3. CASE Sanitize(t, r)
    BY ZenonT(40), <1>t, <2>3 DEF Sanitize
  <2>4. QED
    BY <2>1, <2>2, <2>3
<1>4. Unrecorded
  BY <1>1, <1>2 DEF Unrecorded
<1>5. QED
  BY <1>1, <1>3, <1>4, UnrecordedKeeps DEF Silent

\* The steps of the application and the outcome of a segment.
LEMMA RunningIsSilent ==
    ASSUME TypeOK,
           \/ \E t \in Tasks : Run(t) \/ RejectSegment(t) \/ CloseSegment(t)
           \/ \E v \in Switches : Switch(v)
           \/ UNCHANGED vars
    PROVE  Silent
<1>t. pc \in [Requests -> Phases] /\ seg \in [Segments -> SegmentType]
  BY DEF TypeOK
<1>g. ASSUME UNCHANGED <<snapshot, stored>>,
             \A x \in Segments : seg'[x].trace = seg[x].trace,
             \A q \in Requests : \/ pc'[q] = pc[q]
                                 \/ pc[q] = "sending" /\ pc'[q] = "app"
      PROVE  Silent
  <2>1. Unrecorded
    BY <1>g DEF Unrecorded
  <2>2. QED
    BY <1>g, <2>1, UnrecordedKeeps DEF Silent
<1>1. ASSUME NEW t \in Tasks, NEW e \in Failures, Raise(t, e) PROVE Silent
  BY <1>t, <1>1, <1>g DEF Raise
<1>2. ASSUME NEW t \in Tasks, Catch(t) \/ RejectSegment(t) PROVE Silent
  BY <1>2, <1>g DEF Catch, RejectSegment
<1>3. ASSUME NEW t \in Tasks, NEW w \in Tasks, Spawn(t, w) PROVE Silent
  BY <1>3, <1>g DEF Spawn
<1>4. ASSUME NEW t \in Tasks, CloseSegment(t) PROVE Silent
  <2>1. \A x \in Segments : seg'[x].trace = seg[x].trace
    BY <1>t, <1>4 DEF CloseSegment, SegmentType
  <2>2. QED
    BY <1>4, <1>g, <2>1 DEF CloseSegment
<1>5. ASSUME NEW v \in Switches, Switch(v) PROVE Silent
  BY <1>5, <1>g DEF Switch
<1>6. CASE UNCHANGED vars
  BY <1>6, <1>g DEF vars
<1>7. QED
  BY <1>1, <1>2, <1>3, <1>4, <1>5, <1>6 DEF Run

\* Accepting a request begins its trace.
LEMMA AcceptBegins ==
    ASSUME FreezeInv, NEW t \in Tasks, NEW r \in Requests, Accept(t, r)
    PROVE  Promise!Begin(r)
<1>1. /\ UNCHANGED <<seg, snapshot, stored>> /\ pc[r] = "idle"
      /\ pc' = [pc EXCEPT ![r] = "app"] /\ pc \in [Requests -> Phases]
  BY DEF Accept, FreezeInv, TypeOK
<1>2. ~Finalized(r)
  BY <1>1 DEF FreezeInv, FinalAtEnd
<1>3. PhaseOf(r) = "absent" /\ PhaseOf(r)' = "open"
  BY <1>1, <1>2 DEF PhaseOf, Finalized
<1>4. Unrecorded
  BY <1>1 DEF Unrecorded
<1>5. \A q \in Requests : /\ RecordedOf(q)' = RecordedOf(q)
                          /\ ContentOf(q)' = ContentOf(q)
  BY <1>4, UnrecordedKeeps
<1>6. \A q \in Requests \ {r} : PhaseOf(q)' = PhaseOf(q)
  BY <1>1, <1>4, UnrecordedKeeps
<1>7. QED
  BY <1>1, <1>3, <1>5, <1>6 DEF Promise!Begin

\* An exception in the finalization loses the trace.
LEMMA DropLoses ==
    ASSUME FreezeInv, NEW t \in Tasks, NEW r \in Requests, Drop(t, r)
    PROVE  Promise!Lose(r)
<1>1. /\ UNCHANGED <<seg, snapshot, stored>>
      /\ pc[r] \in {"diagnose", "sanitize", "finalize", "discard"}
      /\ pc' = [pc EXCEPT ![r] = "reset"] /\ pc \in [Requests -> Phases]
  BY DEF Drop, Raises, FreezeInv, TypeOK
<1>2. ~Finalized(r)
  BY <1>1 DEF FreezeInv, FinalAtEnd
<1>3. PhaseOf(r) = "open" /\ PhaseOf(r)' = "lost"
  BY <1>1, <1>2 DEF PhaseOf, Finalized
<1>4. Unrecorded
  BY <1>1 DEF Unrecorded
<1>5. \A q \in Requests : /\ RecordedOf(q)' = RecordedOf(q)
                          /\ ContentOf(q)' = ContentOf(q)
  BY <1>4, UnrecordedKeeps
<1>6. \A q \in Requests \ {r} : PhaseOf(q)' = PhaseOf(q)
  BY <1>1, <1>4, UnrecordedKeeps
<1>7. QED
  BY <1>1, <1>3, <1>5, <1>6 DEF Promise!Lose

\* Opening a segment records it.
LEMMA OpenRecords ==
    ASSUME FreezeInv, LogInv, NEW t \in Tasks, NEW s \in Segments,
           NEW a \in Attributes, OpenSegment(t, s, a)
    PROVE  Promise!Record(ctx[t].collector, s)
<1> DEFINE c == ctx[t].collector
<1>1. c \in Requests /\ Grows(c, s) /\ c # None
  BY OpenGrows, FrameAssumption DEF FreezeInv
<1>2. UNCHANGED <<pc, snapshot, stored>>
  BY DEF OpenSegment
<1>3. pc[c] # "idle"
  BY <1>1 DEF LogInv, ContextsBegun
<1>4. PhaseOf(c) \in {"open", "lost"}
  BY <1>1, <1>3 DEF PhaseOf, Grows
<1>5. \A q \in Requests : s \notin RecordedOf(q)
  BY <1>1, FrameAssumption DEF RecordedOf, Grows
<1>6. \A q \in Requests :
        RecordedOf(q)' = IF q = c THEN RecordedOf(q) \cup {s} ELSE RecordedOf(q)
  <2>1. \A x \in Segments \ {s} : seg'[x].trace = seg[x].trace
    BY <1>1 DEF Grows
  <2>2. seg'[s].trace = c /\ seg[s].trace = None
    BY <1>1 DEF Grows
  <2>3. QED
    BY <1>1, <2>1, <2>2, FrameAssumption DEF RecordedOf
<1>7. \A q \in Requests : PhaseOf(q)' = PhaseOf(q) /\ ContentOf(q)' = ContentOf(q)
  BY <1>2 DEF PhaseOf, ContentOf, Finalized
<1>8. QED
  BY <1>1, <1>2, <1>4, <1>5, <1>6, <1>7 DEF Promise!Record

\* finalize() freezes the trace, whole or marked.
LEMMA FinalizeFreezes ==
    ASSUME FreezeInv, LogInv, NEW t \in Tasks, NEW r \in Requests, Finalize(t, r)
    PROVE  Promise!Freeze(r)
<1>1. /\ UNCHANGED <<trace, seg, stored>> /\ pc[r] \in {"finalize", "discard"}
      /\ pc' = [pc EXCEPT ![r] = IF @ = "finalize" THEN "save" ELSE "reset"]
      /\ snapshot' = [snapshot EXCEPT ![r] = IF @ = None THEN Image(r) ELSE @]
      /\ pc \in [Requests -> Phases] /\ DOMAIN snapshot = Requests
  BY DEF Finalize, FreezeInv, TypeOK
<1>2. snapshot[r] = None
  BY <1>1 DEF FreezeInv, FinalAtEnd, Finalized
<1>3. snapshot'[r] = Image(r) /\ Image(r) # None
  BY <1>1, <1>2, ImageTyped DEF FreezeInv
<1>4. PhaseOf(r) = "open" /\ PhaseOf(r)' = "frozen"
  BY <1>1, <1>2, <1>3 DEF PhaseOf, Finalized
<1>5. \A q \in Requests \ {r} :
        PhaseOf(q)' = PhaseOf(q) /\ ContentOf(q)' = ContentOf(q)
  BY <1>1 DEF PhaseOf, ContentOf, Finalized
<1>6. \A q \in Requests : RecordedOf(q)' = RecordedOf(q)
  BY <1>1 DEF RecordedOf
<1> DEFINE kept == Range(trace[r].segments)
           cut == trace[r].truncated
<1>7. ContentOf(r)' = [kept |-> kept, cut |-> cut]
  BY <1>3 DEF ContentOf, Finalized, Image
<1>8. kept \in SUBSET RecordedOf(r) /\ cut \in BOOLEAN
  <2>1. trace[r] \in TraceType /\ kept \subseteq Segments
    BY ListTyped DEF FreezeInv
  <2>2. cut \in BOOLEAN
    BY <2>1 DEF TraceType
  <2>3. \A s \in kept : seg[s].trace = r
    BY DEF FreezeInv, Owned
  <2>4. QED
    BY <2>1, <2>2, <2>3 DEF RecordedOf
<1>9. ~cut => kept = RecordedOf(r)
  BY <1>8 DEF LogInv, NothingMissing, RecordedOf
<1>10. \E k \in SUBSET RecordedOf(r), m \in BOOLEAN :
         (~m => k = RecordedOf(r)) /\ ContentOf(r)' = [kept |-> k, cut |-> m]
  BY <1>7, <1>8, <1>9
<1>11. QED
  BY <1>1, <1>4, <1>5, <1>6, <1>10 DEF Promise!Freeze

\* The store publishes a frozen trace or changes nothing.
LEMMA SavePublishes ==
    ASSUME FreezeInv, NEW t \in Tasks, NEW r \in Requests, Save(t, r)
    PROVE  Silent \/ Promise!Publish(r)
<1>1. /\ UNCHANGED <<seg, snapshot>> /\ pc[r] = "save"
      /\ pc' = [pc EXCEPT ![r] = "reset"] /\ pc \in [Requests -> Phases]
      /\ stored' = stored \/ stored' = stored \cup {r}
  BY DEF Save, FreezeInv, TypeOK
<1>2. Finalized(r)
  BY <1>1 DEF FreezeInv, FinalAtEnd
<1>3. Unrecorded
  BY <1>1 DEF Unrecorded
<1>4. \A q \in Requests : /\ RecordedOf(q)' = RecordedOf(q)
                          /\ ContentOf(q)' = ContentOf(q)
                          /\ PhaseOf(q)' = PhaseOf(q)
  BY <1>1, <1>2, <1>3, UnrecordedKeeps
<1>5. PhaseOf(r) = "frozen"
  BY <1>1, <1>2 DEF PhaseOf
<1>6. QED
  BY <1>1, <1>4, <1>5 DEF Silent, Promise!Publish

PromisedStep == [Promise!RNext]_(Promise!rvars)

\* Every step maps to a step or a stutter.
LEMMA PromiseStep ==
    ASSUME FreezeInv, LogInv, [Next]_vars
    PROVE  PromisedStep
<1>t. TypeOK
  BY DEF FreezeInv
<1>g. ASSUME Silent PROVE PromisedStep
  BY <1>g, SilentStutters DEF PromisedStep
<1>1. ASSUME NEW t \in Tasks, NEW r \in Requests, Serve(t, r) PROVE PromisedStep
  <2>1. CASE Accept(t, r)
    BY <2>1, AcceptBegins DEF PromisedStep, Promise!RNext
  <2>2. CASE Drop(t, r)
    BY <2>2, DropLoses DEF PromisedStep, Promise!RNext
  <2>3. CASE Finalize(t, r)
    BY <2>3, FinalizeFreezes DEF PromisedStep, Promise!RNext
  <2>4. CASE Save(t, r)
    BY <2>4, <1>g, SavePublishes DEF PromisedStep, Promise!RNext
  <2>5. CASE SendStart(t, r) \/ SendLastBody(t, r) \/ SendReturns(t, r)
               \/ AppEnds(t, r) \/ Diagnose(t, r) \/ Sanitize(t, r)
               \/ Reset(t, r)
    <3>1. Silent
      BY <1>t, <2>5, ServingIsSilent
    <3>2. QED
      BY <1>g, <3>1
  <2>6. QED
    BY <1>1, <2>1, <2>2, <2>3, <2>4, <2>5 DEF Serve, Settle
<1>2. ASSUME NEW t \in Tasks, NEW s \in Segments, NEW a \in Attributes,
             OpenSegment(t, s, a)
      PROVE  PromisedStep
  <2>1. ctx[t].collector \in Requests
    BY <1>t, <1>2, OpenGrows
  <2>2. QED
    BY <1>2, <2>1, OpenRecords DEF PromisedStep, Promise!RNext
<1>3. CASE \/ \E t \in Tasks : Run(t) \/ RejectSegment(t) \/ CloseSegment(t)
           \/ \E v \in Switches : Switch(v)
           \/ UNCHANGED vars
  <2>1. Silent
    BY <1>t, <1>3, RunningIsSilent
  <2>2. QED
    BY <1>g, <2>1
<1>4. ASSUME NEW t \in Tasks, Measure(t) PROVE PromisedStep
  BY <1>2, <1>3, <1>4 DEF Measure
<1>5. QED
  BY <1>1, <1>3, <1>4 DEF Next

\* The lifecycle implements the promise of TraceRecord: a trace is frozen once
\* and whole, or marked, before it is published.
THEOREM LifecycleKeepsPromise == Spec => KeepsPromise
  BY PromiseInit, PromiseStep, LogInvariant, PTL
     DEF Spec, KeepsPromise, Promise!RSpec, PromisedStep

-----------------------------------------------------------------------------
(***************************************************************************)
(* The call stacks.  at[t][1 .. n[t]] are the frames of task t, outermost  *)
(* first.  The invariant says that there are such stacks, so that a        *)
(* frame is in one place only.                                             *)
(***************************************************************************)
Positions == [Tasks -> [Nat -> Frames \cup {None}]]
Depths    == [Tasks -> Nat]

Linked(at, n) ==
    \A t \in Tasks :
        /\ at[t][0] = None /\ top[t] = at[t][n[t]]
        /\ \A i \in 1 .. n[t] : at[t][i] \in Frames /\ below[at[t][i]] = at[t][i - 1]

Distinct(at, n) ==
    \A t, w \in Tasks : \A i \in 1 .. n[t], j \in 1 .. n[w] :
        at[t][i] = at[w][j] => t = w /\ i = j

\* A frame that is nowhere leads nowhere.
Elsewhere(at, n, f) == \A t \in Tasks : \A i \in 1 .. n[t] : at[t][i] # f

Loose(at, n) == \A f \in Frames : Elsewhere(at, n, f) => below[f] = None

\* What is on the stack of t was accepted by t, or recorded.
Lives(f, t) ==
    /\ f \in Requests => pc[f] \notin {"idle", "done"} /\ task[f] = t
    /\ f \in Segments => seg[f].trace # None

Live(at, n) == \A t \in Tasks : \A i \in 1 .. n[t] : Lives(at[t][i], t)

\* The collector in the context of t while the i outermost frames are on it.
CollectorAt(at, n, t, i) ==
    IF i = n[t] THEN ctx[t].collector ELSE saved[at[t][i + 1]].collector

Bound(at, n) ==
    \A t \in Tasks :
        /\ CollectorAt(at, n, t, 0) = home[t]
        /\ \A i \in 1 .. n[t] :
             CollectorAt(at, n, t, i) =
               IF at[t][i] \in Requests THEN at[t][i] ELSE CollectorAt(at, n, t, i - 1)

StackOf(at, n) ==
    /\ at \in Positions /\ n \in Depths
    /\ Linked(at, n) /\ Distinct(at, n) /\ Loose(at, n) /\ Live(at, n) /\ Bound(at, n)

StackInv == \E at, n : StackOf(at, n)

-----------------------------------------------------------------------------
\* A set of numbers that is not empty has a least one.
LEMMA HasLeast ==
    ASSUME NEW S, S \subseteq Nat, S # {}
    PROVE  \E x \in S : \A y \in S : x <= y
  <1>1. PICK x \in S : \A y \in S : ~(<<y, x>> \in OpToRel(<, Nat))
    BY NatLessThanWellFounded, WFMin
  <1>2. \A y \in S : ~(y < x)
    BY <1>1, Zenon DEF OpToRel
  <1> QED
    BY <1>2

\* What Enclosing computes: the innermost request of a frame, or h.
Solves(u, h) ==
    u = [f \in Frames \cup {None} |->
           IF f = None THEN h ELSE IF f \in Requests THEN f ELSE u[below[f]]]

\* The stacks give a solution,
LEMMA SolutionExists ==
    ASSUME NEW at, NEW n, StackOf(at, n), NEW h
    PROVE  \E u : Solves(u, h)
  <1> DEFINE On(f, t, i) == t \in Tasks /\ i \in 1 .. n[t] /\ at[t][i] = f
             Asked(t, i) == \E j \in 1 .. i : at[t][j] \in Requests
             v(f) == IF f \in Requests THEN f
                     ELSE IF \E t, i : On(f, t, i) /\ Asked(t, i)
                       THEN LET t == CHOOSE t : \E i : On(f, t, i)
                                i == CHOOSE i : On(f, t, i)
                            IN  CollectorAt(at, n, t, i)
                       ELSE h
             u == [f \in Frames \cup {None} |-> v(f)]
  <1>1. \A f : f \in Frames => f # None
    BY FrameAssumption
  <1>2. v(None) = h
    <2>1. \A t, i : ~On(None, t, i)
      BY <1>1 DEF StackOf, Linked
    <2> QED
      BY <2>1, FrameAssumption
  <1>3. ASSUME NEW t \in Tasks, NEW i \in 1 .. n[t], at[t][i] \notin Requests
        PROVE  v(at[t][i]) = IF Asked(t, i) THEN CollectorAt(at, n, t, i) ELSE h
    <2> DEFINE f == at[t][i]
    <2>1. \A w, j : On(f, w, j) <=> w = t /\ j = i
      BY <1>3 DEF StackOf, Distinct
    <2>2. (CHOOSE w : \E j : On(f, w, j)) = t
      BY <2>1
    <2>3. (CHOOSE j : On(f, t, j)) = i
      BY <2>1
    <2>4. (\E w, j : On(f, w, j) /\ Asked(w, j)) <=> Asked(t, i)
      BY <2>1
    <2> HIDE DEF On, Asked
    <2> QED
      BY <1>3, <2>2, <2>3, <2>4
  <1>4. ASSUME NEW f \in Segments
        PROVE  v(f) = v(below[f])
    <2>0. f \in Frames /\ f \notin Requests
      BY FrameAssumption
    <2>1. CASE Elsewhere(at, n, f)
      <3>1. below[f] = None
        BY <2>0, <2>1 DEF StackOf, Loose
      <3>2. \A t, i : ~On(f, t, i)
        BY <2>1 DEF Elsewhere
      <3>3. v(f) = h
        BY <2>0, <3>2
      <3> HIDE DEF v
      <3> QED
        BY <1>2, <3>1, <3>3
    <2>2. ASSUME NEW t \in Tasks, NEW i \in 1 .. n[t], at[t][i] = f
          PROVE  v(f) = v(below[f])
      <3>0. n[t] \in Nat /\ i \in Nat
        BY DEF StackOf, Depths
      <3>1. below[f] = at[t][i - 1] /\ at[t][0] = None
        BY <2>2 DEF StackOf, Linked
      <3>2. v(f) = IF Asked(t, i) THEN CollectorAt(at, n, t, i) ELSE h
        <4> HIDE DEF v, Asked
        <4> QED
          BY <1>3, <2>0, <2>2
      <3>3. CollectorAt(at, n, t, i) = CollectorAt(at, n, t, i - 1)
        BY <2>0, <2>2 DEF StackOf, Bound
      <3>4. CASE i = 1
        <4>1. ~Asked(t, i)
          BY <2>0, <2>2, <3>4
        <4> HIDE DEF v, Asked
        <4> QED
          BY <1>2, <3>1, <3>2, <3>4, <4>1
      <3>5. CASE i # 1
        <4>1. i - 1 \in 1 .. n[t] /\ \A j : j \in 1 .. i <=> j \in 1 .. i - 1 \/ j = i
          BY <3>0, <3>5
        <4>2. Asked(t, i) <=> Asked(t, i - 1)
          BY <2>0, <2>2, <4>1
        <4>3. CASE at[t][i - 1] \in Requests
          <5>1. Asked(t, i - 1) /\ CollectorAt(at, n, t, i - 1) = at[t][i - 1]
            BY <3>0, <4>1, <4>3 DEF StackOf, Bound
          <5>2. v(at[t][i - 1]) = at[t][i - 1]
            BY <4>3
          <5> HIDE DEF v, Asked
          <5> QED
            BY <3>1, <3>2, <3>3, <4>2, <5>1, <5>2
        <4>4. CASE at[t][i - 1] \notin Requests
          <5>1. v(at[t][i - 1]) =
                  IF Asked(t, i - 1) THEN CollectorAt(at, n, t, i - 1) ELSE h
            <6> HIDE DEF v, Asked
            <6> QED
              BY <1>3, <4>1, <4>4
          <5> HIDE DEF v, Asked
          <5> QED
            BY <3>1, <3>2, <3>3, <4>2, <5>1
        <4> QED
          BY <4>3, <4>4
      <3> QED
        BY <3>4, <3>5
    <2> QED
      BY <2>1, <2>2 DEF Elsewhere
  <1>5. \A f \in Requests : v(f) = f
    OBVIOUS
  <1> HIDE DEF v
  <1>6. \A f \in Segments : below[f] \in Frames \cup {None}
    <2> SUFFICES ASSUME NEW f \in Segments PROVE below[f] \in Frames \cup {None}
      OBVIOUS
    <2>1. CASE Elsewhere(at, n, f)
      BY <2>1 DEF StackOf, Loose
    <2>2. ASSUME NEW t \in Tasks, NEW i \in 1 .. n[t], at[t][i] = f
          PROVE  below[f] \in Frames \cup {None}
      <3>1. below[f] = at[t][i - 1] /\ i - 1 \in Nat
        BY <2>2 DEF StackOf, Linked, Depths
      <3> QED
        BY <3>1 DEF StackOf, Positions
    <2> QED
      BY <2>1, <2>2 DEF Elsewhere
  <1>7. Solves(u, h)
    BY <1>1, <1>2, <1>4, <1>5, <1>6 DEF Solves
  <1> QED
    BY <1>7

\* and every solution agrees with the contexts.
LEMMA SolutionAgrees ==
    ASSUME NEW at, NEW n, StackOf(at, n), NEW t \in Tasks,
           NEW u, Solves(u, home[t])
    PROVE  u[top[t]] = ctx[t].collector
  <1>0. n[t] \in Nat /\ at[t] \in [Nat -> Frames \cup {None}]
    BY DEF StackOf, Depths, Positions
  <1>1. \A f \in Frames \cup {None} :
          u[f] = IF f = None THEN home[t] ELSE IF f \in Requests THEN f ELSE u[below[f]]
    BY DEF Solves
  <1> DEFINE Bad == {i \in 0 .. n[t] : u[at[t][i]] # CollectorAt(at, n, t, i)}
  <1>2. Bad = {}
    <2> SUFFICES ASSUME Bad # {} PROVE FALSE
      OBVIOUS
    <2>1. Bad \subseteq Nat
      BY <1>0
    <2>2. PICK i \in Bad : \A j \in Bad : i <= j
      <3> HIDE DEF Bad
      <3> QED
        BY <2>1, HasLeast
    <2>3. i # 0
      BY <1>1, <2>2 DEF StackOf, Linked, Bound
    <2>4. i \in 1 .. n[t] /\ i - 1 \in 0 .. n[t] /\ i - 1 \notin Bad /\ i \in Nat
      <3>1. i \in 0 .. n[t]
        OBVIOUS
      <3>2. ~(i <= i - 1) /\ i - 1 \in 0 .. n[t] /\ i \in 1 .. n[t] /\ i \in Nat
        BY <1>0, <2>3, <3>1
      <3>3. i - 1 \notin Bad
        <4> HIDE DEF Bad
        <4> QED
          BY <2>2, <3>2
      <3> QED
        BY <3>2, <3>3
    <2>5. u[at[t][i - 1]] = CollectorAt(at, n, t, i - 1)
      BY <2>4
    <2>6. at[t][i] \in Frames /\ below[at[t][i]] = at[t][i - 1]
      BY <2>4 DEF StackOf, Linked
    <2>7. CollectorAt(at, n, t, i) =
            IF at[t][i] \in Requests THEN at[t][i] ELSE CollectorAt(at, n, t, i - 1)
      BY <2>4 DEF StackOf, Bound
    <2>8. u[at[t][i]] = CollectorAt(at, n, t, i)
      BY <1>1, <2>5, <2>6, <2>7, FrameAssumption
    <2> QED
      BY <2>2, <2>8
  <1>3. u[at[t][n[t]]] = CollectorAt(at, n, t, n[t])
    BY <1>0, <1>2
  <1> QED
    BY <1>3 DEF StackOf, Linked, CollectorAt

\* So Enclosing is well defined, and the contexts follow the calls.
LEMMA StacksFollow == StackInv => ContextFollowsCalls
  <1> SUFFICES ASSUME StackInv, NEW t \in Tasks
               PROVE  ctx[t].collector = Enclosing(t)
    BY DEF ContextFollowsCalls
  <1> DEFINE v == CHOOSE u : u = [f \in Frames \cup {None} |->
                     IF f = None THEN home[t]
                     ELSE IF f \in Requests THEN f ELSE u[below[f]]]
  <1>1. PICK at, n : StackOf(at, n)
    BY DEF StackInv
  <1>2. \E u : Solves(u, home[t])
    BY <1>1, SolutionExists
  <1>3. Solves(v, home[t])
    BY <1>2 DEF Solves
  <1>4. Enclosing(t) = v[top[t]]
    BY DEF Enclosing
  <1> HIDE DEF v
  <1>5. v[top[t]] = ctx[t].collector
    BY <1>1, <1>3, SolutionAgrees
  <1> QED
    BY <1>4, <1>5

-----------------------------------------------------------------------------
\* Only its reset ends the service of a request.
LEMMA ServiceLasts ==
    ASSUME TypeOK, [Next]_vars, NEW q \in Requests,
           pc[q] \notin {"idle", "done"}, ~ \E t \in Tasks : Reset(t, q)
    PROVE  pc'[q] \notin {"idle", "done"}
<1> DEFINE P == pc'[q] \notin {"idle", "done"}
<1>p. pc \in [Requests -> Phases]
  BY DEF TypeOK
<1>1. CASE UNCHANGED pc
  BY <1>1
<1>2. ASSUME NEW t \in Tasks, NEW r \in Requests, Serve(t, r)
      PROVE  P
  <2>1. CASE Accept(t, r) \/ SendStart(t, r) \/ SendLastBody(t, r)
               \/ SendReturns(t, r) \/ AppEnds(t, r)
    BY <1>p, <2>1 DEF Accept, SendStart, SendLastBody, SendReturns, AppEnds
  <2>2. CASE Drop(t, r) \/ Diagnose(t, r) \/ Finalize(t, r) \/ Save(t, r)
    BY <1>p, <2>2 DEF Drop, Diagnose, Finalize, Save
  <2>3. CASE Reset(t, r)
    BY <1>p, <2>3 DEF Reset
  <2>4. CASE Sanitize(t, r)
    BY <1>p, <2>4 DEF Sanitize
  <2>5. QED
    BY <1>2, <2>1, <2>2, <2>3, <2>4 DEF Serve, Settle
<1>3. ASSUME NEW t \in Tasks, NEW e \in Failures, Raise(t, e)
      PROVE  P
  BY <1>p, <1>3 DEF Raise
<1>4. ASSUME NEW t \in Tasks, Measure(t) PROVE UNCHANGED pc
  BY <1>4 DEF Measure, OpenSegment, RejectSegment, CloseSegment
<1>5. ASSUME NEW t \in Tasks, Run(t) PROVE P
  BY <1>1, <1>3, <1>5 DEF Run, Catch, Spawn
<1>6. ASSUME NEW v \in Switches, Switch(v) PROVE UNCHANGED pc
  BY <1>6 DEF Switch
<1>7. CASE UNCHANGED vars
  BY <1>1, <1>7 DEF vars
<1>8. QED
  BY <1>1, <1>2, <1>4, <1>5, <1>6, <1>7 DEF Next

\* The task of a request is set when the request is accepted.
LEMMA TasksStay ==
    ASSUME [Next]_vars, NEW q \in Requests, pc[q] # "idle"
    PROVE  task'[q] = task[q]
<1>1. ASSUME NEW t \in Tasks, NEW r \in Requests, Accept(t, r)
      PROVE  task'[q] = task[q]
  BY <1>1 DEF Accept
<1>2. ASSUME NEW t \in Tasks, NEW r \in Requests, Reset(t, r)
      PROVE  UNCHANGED task
  BY <1>2 DEF Reset
<1>3. ASSUME NEW t \in Tasks, NEW s \in Segments, NEW a \in Attributes,
             OpenSegment(t, s, a)
      PROVE  UNCHANGED task
  BY <1>3 DEF OpenSegment
<1>4. ASSUME NEW t \in Tasks, CloseSegment(t) PROVE UNCHANGED task
  BY <1>4 DEF CloseSegment
<1>5. ASSUME NEW t \in Tasks, NEW w \in Tasks, Spawn(t, w) PROVE UNCHANGED task
  BY <1>5 DEF Spawn
<1>6. QED
  BY <1>1, <1>2, <1>3, <1>4, <1>5, StackWriters

\* A frame stays alive until its request is reset.
LEMMA FramesLive ==
    ASSUME TypeOK, [Next]_vars, NEW t \in Tasks, NEW f \in Frames, Lives(f, t),
           f \in Requests => ~ \E w \in Tasks : Reset(w, f)
    PROVE  Lives(f, t)'
<1>1. CASE f \in Requests
  <2>1. pc'[f] \notin {"idle", "done"} /\ task'[f] = t
    BY <1>1, ServiceLasts, TasksStay DEF Lives
  <2>2. f \notin Segments
    BY <1>1, FrameAssumption
  <2>3. QED
    BY <2>1, <2>2 DEF Lives
<1>2. CASE f \in Segments
  <2>1. seg'[f].trace # None
    BY <1>2, OwnersStay DEF Lives
  <2>2. f \notin Requests
    BY <1>2, FrameAssumption
  <2>3. QED
    BY <2>1, <2>2 DEF Lives
<1>3. QED
  BY <1>1, <1>2 DEF Frames

\* A depth of zero is an empty stack, and only that one.
LEMMA StackEnds ==
    ASSUME NEW at, NEW n, StackOf(at, n), NEW t \in Tasks
    PROVE  /\ n[t] \in Nat
           /\ n[t] = 0 <=> top[t] = None
           /\ n[t] # 0 => n[t] \in 1 .. n[t] /\ top[t] \in Frames
<1>1. n[t] \in Nat
  BY DEF StackOf, Depths
<1>2. CASE n[t] = 0
  BY <1>1, <1>2 DEF StackOf, Linked
<1>3. CASE n[t] # 0
  <2>1. n[t] \in 1 .. n[t]
    BY <1>1, <1>3
  <2>2. top[t] \in Frames
    BY <2>1 DEF StackOf, Linked
  <2>3. None \notin Frames
    BY FrameAssumption DEF Frames
  <2>4. QED
    BY <1>1, <1>3, <2>1, <2>2, <2>3
<1>4. QED
  BY <1>2, <1>3

\* Nothing but what is on a stack is disturbed when nothing is pushed or popped.
LEMMA StacksRest ==
    ASSUME NEW at, NEW n, StackOf(at, n), UNCHANGED <<ctx, top, below, saved, home>>,
           \A f \in Frames, t \in Tasks : Lives(f, t) => Lives(f, t)'
    PROVE  StackInv'
<1>1. Linked(at, n)' /\ Distinct(at, n)' /\ Loose(at, n)'
  BY DEF StackOf, Linked, Distinct, Loose, Elsewhere
<1>2. Live(at, n)'
  BY DEF StackOf, Live, Linked
<1>3. Bound(at, n)'
  BY DEF StackOf, Bound, CollectorAt
<1>4. QED
  BY <1>1, <1>2, <1>3 DEF StackOf, StackInv

\* A frame that is nowhere yet may be pushed.
LEMMA StackPushed ==
    ASSUME TypeOK, NEW at, NEW n, StackOf(at, n), NEW t \in Tasks, NEW f \in Frames,
           Elsewhere(at, n, f), Push(t, f), UNCHANGED home,
           NEW c, ctx' = [ctx EXCEPT ![t] = c],
           c.collector = IF f \in Requests THEN f ELSE ctx[t].collector,
           \A g \in Frames, w \in Tasks : Lives(g, w) => Lives(g, w)',
           Lives(f, t)'
    PROVE  StackInv'
<1> DEFINE k == n[t] + 1
           at2 == [at EXCEPT ![t] = [@ EXCEPT ![k] = f]]
           n2 == [n EXCEPT ![t] = k]
<1>a. /\ at \in Positions /\ n \in Depths
      /\ Linked(at, n) /\ Distinct(at, n) /\ Loose(at, n) /\ Live(at, n) /\ Bound(at, n)
  BY DEF StackOf
<1>b. /\ ctx \in [Tasks -> Context] /\ saved \in [Frames -> Context]
      /\ top \in [Tasks -> Frames \cup {None}]
      /\ below \in [Frames -> Frames \cup {None}]
  BY DEF TypeOK
<1>c. /\ saved' = [saved EXCEPT ![f] = ctx[t]]
      /\ below' = [below EXCEPT ![f] = top[t]]
      /\ top' = [top EXCEPT ![t] = f]
  BY DEF Push
<1>1. k \in Nat /\ n[t] \in Nat /\ k # 0 /\ k = n[t] + 1
  BY <1>a DEF Depths
<1>2. at2 \in Positions /\ n2 \in Depths
  BY <1>a, <1>1 DEF Positions, Depths
<1>3. \A w \in Tasks \ {t} : at2[w] = at[w] /\ n2[w] = n[w]
  BY <1>a DEF Positions, Depths
<1>4. n2[t] = k /\ at2[t][k] = f /\ \A i \in 0 .. n[t] : at2[t][i] = at[t][i]
  <2>1. at[t] \in [Nat -> Frames \cup {None}] /\ t \in DOMAIN at /\ t \in DOMAIN n
    BY <1>a DEF Positions, Depths
  <2>2. \A i \in 0 .. n[t] : i # k
    BY <1>1
  <2>3. QED
    BY <1>1, <2>1, <2>2
<1> HIDE DEF at2, n2, k
<1>5. /\ \A i : i \in 1 .. k <=> i \in 1 .. n[t] \/ i = k
      /\ \A i \in 1 .. n[t] : i \in 0 .. n[t] /\ i - 1 \in 0 .. n[t] /\ i # k
      /\ k \notin 1 .. n[t] /\ k - 1 = n[t] /\ n[t] \in 0 .. n[t] /\ 0 \in 0 .. n[t]
  BY <1>1
<1>6. \A w \in Tasks : \A i \in 1 .. n[w] :
        /\ at[w][i] # f /\ at[w][i] \in Frames
        /\ saved'[at[w][i]] = saved[at[w][i]] /\ below'[at[w][i]] = below[at[w][i]]
  BY <1>a, <1>b, <1>c DEF Elsewhere, Linked
<1>7. /\ saved'[f] = ctx[t] /\ below'[f] = top[t] /\ top'[t] = f
      /\ \A w \in Tasks \ {t} : top'[w] = top[w] /\ ctx'[w] = ctx[w]
      /\ ctx'[t] = c
  BY <1>b, <1>c
\* Every position is an old one or the new one.
<1>8. \A w \in Tasks : \A i \in 1 .. n2[w] :
        \/ i \in 1 .. n[w] /\ at2[w][i] = at[w][i]
        \/ w = t /\ i = k /\ at2[w][i] = f
  BY <1>3, <1>4, <1>5
<1>9. Linked(at2, n2)'
  <2> SUFFICES ASSUME NEW w \in Tasks
               PROVE  /\ at2[w][0] = None /\ top'[w] = at2[w][n2[w]]
                      /\ \A i \in 1 .. n2[w] :
                           at2[w][i] \in Frames /\ below'[at2[w][i]] = at2[w][i - 1]
    BY DEF Linked
  <2>1. CASE w # t
    BY <2>1, <1>a, <1>3, <1>6, <1>7 DEF Linked
  <2>2. CASE w = t
    <3>1. at2[t][0] = None /\ top'[t] = at2[t][n2[t]]
      BY <1>a, <1>4, <1>5, <1>7 DEF Linked
    <3>2. ASSUME NEW i \in 1 .. n[t]
          PROVE  at2[t][i] \in Frames /\ below'[at2[t][i]] = at2[t][i - 1]
      BY <1>a, <1>4, <1>5, <1>6 DEF Linked
    <3>3. below'[at2[t][k]] = at2[t][k - 1]
      BY <1>a, <1>4, <1>5, <1>7 DEF Linked
    <3>4. QED
      BY <2>2, <3>1, <3>2, <3>3, <1>4, <1>5
  <2>3. QED
    BY <2>1, <2>2
<1>10. Distinct(at2, n2)'
  <2> SUFFICES ASSUME NEW v \in Tasks, NEW w \in Tasks,
                      NEW i \in 1 .. n2[v], NEW j \in 1 .. n2[w], at2[v][i] = at2[w][j]
               PROVE  v = w /\ i = j
    BY DEF Distinct
  <2>1. QED
    BY <1>a, <1>6, <1>8 DEF Distinct
<1>11. Loose(at2, n2)'
  <2> SUFFICES ASSUME NEW g \in Frames, Elsewhere(at2, n2, g)
               PROVE  below'[g] = None
    BY DEF Loose, Elsewhere
  <2>1. g # f
    BY <1>4, <1>5 DEF Elsewhere
  <2>2. Elsewhere(at, n, g)
    BY <1>3, <1>4, <1>5 DEF Elsewhere
  <2>3. QED
    BY <1>a, <1>b, <1>c, <2>1, <2>2 DEF Loose
<1>12. Live(at2, n2)'
  <2> SUFFICES ASSUME NEW w \in Tasks, NEW i \in 1 .. n2[w]
               PROVE  Lives(at2[w][i], w)'
    BY DEF Live
  <2>1. CASE i \in 1 .. n[w] /\ at2[w][i] = at[w][i]
    <3> DEFINE g == at[w][i]
    <3>1. g \in Frames /\ Lives(g, w)
      BY <1>a, <2>1 DEF Live, Linked
    <3> HIDE DEF g
    <3>2. Lives(g, w)'
      BY <3>1
    <3>3. QED
      BY <2>1, <3>2 DEF g
  <2>2. CASE w = t /\ at2[w][i] = f
    BY <2>2
  <2>3. QED
    BY <1>8, <2>1, <2>2
<1>13. Bound(at2, n2)'
  <2>1. \A w \in Tasks \ {t} : \A i \in 0 .. n[w] :
          CollectorAt(at2, n2, w, i)' = CollectorAt(at, n, w, i)
    <3> SUFFICES ASSUME NEW w \in Tasks \ {t}, NEW i \in 0 .. n[w]
                 PROVE  CollectorAt(at2, n2, w, i)' = CollectorAt(at, n, w, i)
      OBVIOUS
    <3>1. n[w] \in Nat
      BY <1>a DEF Depths
    <3>2. i = n[w] \/ i + 1 \in 1 .. n[w]
      BY <3>1
    <3>3. QED
      BY <1>3, <1>6, <1>7, <3>2 DEF CollectorAt
  <2>2. \A i \in 0 .. n[t] : CollectorAt(at2, n2, t, i)' = CollectorAt(at, n, t, i)
    <3> SUFFICES ASSUME NEW i \in 0 .. n[t]
                 PROVE  CollectorAt(at2, n2, t, i)' = CollectorAt(at, n, t, i)
      OBVIOUS
    <3>1. i # k /\ (i = n[t] \/ (i # n[t] /\ i + 1 \in 1 .. n[t])) /\ n[t] + 1 = k
      BY <1>1
    <3>2. CASE i = n[t]
      BY <1>4, <1>7, <3>1, <3>2 DEF CollectorAt
    <3>3. CASE i # n[t] /\ i + 1 \in 1 .. n[t]
      <4>1. at2[t][i + 1] = at[t][i + 1]
        BY <1>4, <1>5, <3>3
      <4>2. QED
        BY <1>4, <1>6, <3>1, <3>3, <4>1 DEF CollectorAt
    <3>4. QED
      BY <3>1, <3>2, <3>3
  <2>3. CollectorAt(at2, n2, t, k)' = c.collector
    BY <1>4, <1>7 DEF CollectorAt
  <2>4. CollectorAt(at, n, t, n[t]) = ctx[t].collector
    BY DEF CollectorAt
  <2> SUFFICES ASSUME NEW w \in Tasks
               PROVE  /\ CollectorAt(at2, n2, w, 0)' = home'[w]
                      /\ \A i \in 1 .. n2[w] : CollectorAt(at2, n2, w, i)' =
                           IF at2[w][i] \in Requests THEN at2[w][i]
                           ELSE CollectorAt(at2, n2, w, i - 1)'
    BY DEF Bound
  <2>5. \A i \in 1 .. n[w] : i \in 0 .. n[w] /\ i - 1 \in 0 .. n[w]
    BY <1>a DEF Depths
  <2>6. 0 \in 0 .. n[w]
    BY <1>a DEF Depths
  <2>7. CASE w # t
    BY <1>a, <1>3, <2>1, <2>5, <2>6, <2>7 DEF Bound
  <2>8. CASE w = t
    <3>1. CollectorAt(at2, n2, t, 0)' = home'[t]
      BY <1>a, <1>5, <2>2 DEF Bound
    <3>2. ASSUME NEW i \in 1 .. n[t]
          PROVE  CollectorAt(at2, n2, t, i)' =
                   IF at2[t][i] \in Requests THEN at2[t][i]
                   ELSE CollectorAt(at2, n2, t, i - 1)'
      <4>1. /\ i \in 0 .. n[t] /\ i - 1 \in 0 .. n[t]
            /\ at2[t][i] = at[t][i]
            /\ CollectorAt(at, n, t, i) =
                 IF at[t][i] \in Requests THEN at[t][i] ELSE CollectorAt(at, n, t, i - 1)
        BY <1>a, <1>4, <1>5 DEF Bound
      <4>2. QED
        BY <2>2, <4>1
    <3>3. CollectorAt(at2, n2, t, k)' =
            IF at2[t][k] \in Requests THEN at2[t][k] ELSE CollectorAt(at2, n2, t, k - 1)'
      BY <1>4, <1>5, <2>2, <2>3, <2>4
    <3>4. QED
      BY <1>4, <1>5, <2>8, <3>1, <3>2, <3>3
  <2>9. QED
    BY <2>7, <2>8
<1>14. QED
  BY <1>2, <1>9, <1>10, <1>11, <1>12, <1>13 DEF StackOf, StackInv

\* The innermost frame of a task may be popped.
LEMMA StackPopped ==
    ASSUME TypeOK, NEW at, NEW n, StackOf(at, n), NEW t \in Tasks, top[t] \in Frames,
           Pop(t), UNCHANGED home,
           NEW c, ctx' = [ctx EXCEPT ![t] = c],
           c.collector = saved[top[t]].collector,
           \A g \in Frames \ {top[t]}, w \in Tasks : Lives(g, w) => Lives(g, w)'
    PROVE  StackInv'
<1> DEFINE k == n[t]
           n2 == [n EXCEPT ![t] = k - 1]
<1>a. /\ at \in Positions /\ n \in Depths
      /\ Linked(at, n) /\ Distinct(at, n) /\ Loose(at, n) /\ Live(at, n) /\ Bound(at, n)
  BY DEF StackOf
<1>b. /\ ctx \in [Tasks -> Context] /\ saved \in [Frames -> Context]
      /\ top \in [Tasks -> Frames \cup {None}]
      /\ below \in [Frames -> Frames \cup {None}]
  BY DEF TypeOK
<1>1. k \in Nat /\ k # 0 /\ k \in 1 .. n[t] /\ k = n[t] /\ k - 1 \in Nat
  <2>1. top[t] # None
    BY FrameAssumption DEF Frames
  <2>2. QED
    BY <2>1, StackEnds
<1>2. n2 \in Depths /\ n2[t] = k - 1 /\ \A w \in Tasks \ {t} : n2[w] = n[w]
  BY <1>a, <1>1 DEF Depths
<1> HIDE DEF n2, k
<1> DEFINE s == top[t]
<1>3. s = at[t][k] /\ s \in Frames
  BY <1>a, <1>1 DEF Linked
<1>c. /\ saved' = [saved EXCEPT ![s] = NoContext]
      /\ below' = [below EXCEPT ![s] = None]
      /\ top' = [top EXCEPT ![t] = below[s]]
  BY DEF Pop
<1> HIDE DEF s
<1>4. /\ \A w \in Tasks : \A i \in 1 .. n2[w] : i \in 1 .. n[w] /\ (w = t => i # k)
      /\ \A w \in Tasks : \A i \in 1 .. n[w] : i \in 1 .. n2[w] \/ (w = t /\ i = k)
      /\ \A i \in 0 .. (k - 1) : i = k - 1 \/ (i # k - 1 /\ i + 1 \in 1 .. (k - 1))
      /\ k - 1 \in 0 .. (k - 1) /\ 0 \in 0 .. (k - 1) /\ k # k - 1 /\ (k - 1) + 1 = k
  <2>1. \A w \in Tasks : n[w] \in Nat
    BY <1>a DEF Depths
  <2>2. QED
    BY <1>1, <1>2, <2>1
<1>5. \A w \in Tasks : \A i \in 1 .. n2[w] :
        /\ at[w][i] # s /\ at[w][i] \in Frames
        /\ saved'[at[w][i]] = saved[at[w][i]] /\ below'[at[w][i]] = below[at[w][i]]
  <2> SUFFICES ASSUME NEW w \in Tasks, NEW i \in 1 .. n2[w]
               PROVE  /\ at[w][i] # s /\ at[w][i] \in Frames
                      /\ saved'[at[w][i]] = saved[at[w][i]]
                      /\ below'[at[w][i]] = below[at[w][i]]
    OBVIOUS
  <2>1. i \in 1 .. n[w] /\ (w = t => i # k) /\ k \in 1 .. n[t]
    BY <1>1, <1>4
  <2>2. at[w][i] # s
    BY <1>a, <1>3, <2>1 DEF Distinct
  <2>3. QED
    BY <1>a, <1>b, <1>c, <2>1, <2>2 DEF Linked
<1>6. /\ top'[t] = below[s] /\ below[s] = at[t][k - 1] /\ below'[s] = None
      /\ \A w \in Tasks \ {t} : top'[w] = top[w] /\ ctx'[w] = ctx[w]
      /\ ctx'[t] = c /\ c.collector = saved[s].collector
  BY <1>a, <1>b, <1>c, <1>1, <1>3 DEF Linked, s
<1>7. Linked(at, n2)'
  <2> SUFFICES ASSUME NEW w \in Tasks
               PROVE  /\ at[w][0] = None /\ top'[w] = at[w][n2[w]]
                      /\ \A i \in 1 .. n2[w] :
                           at[w][i] \in Frames /\ below'[at[w][i]] = at[w][i - 1]
    BY DEF Linked
  <2>1. at[w][0] = None /\ top'[w] = at[w][n2[w]]
    BY <1>a, <1>2, <1>6 DEF Linked
  <2>2. QED
    BY <1>a, <1>4, <1>5, <2>1 DEF Linked
<1>8. Distinct(at, n2)'
  BY <1>a, <1>4 DEF Distinct
<1>9. Loose(at, n2)'
  <2> SUFFICES ASSUME NEW g \in Frames, Elsewhere(at, n2, g)
               PROVE  below'[g] = None
    BY DEF Loose, Elsewhere
  <2>1. CASE g = s
    BY <1>6, <2>1
  <2>2. CASE g # s
    <3>1. Elsewhere(at, n, g)
      BY <1>3, <1>4, <2>2 DEF Elsewhere
    <3>2. QED
      BY <1>a, <1>b, <1>c, <2>2, <3>1 DEF Loose
  <2>3. QED
    BY <2>1, <2>2
<1>10. Live(at, n2)'
  <2> SUFFICES ASSUME NEW w \in Tasks, NEW i \in 1 .. n2[w]
               PROVE  Lives(at[w][i], w)'
    BY DEF Live
  <2> DEFINE g == at[w][i]
  <2>1. g \in Frames \ {top[t]} /\ Lives(g, w)
    BY <1>a, <1>4, <1>5 DEF Live, s
  <2> HIDE DEF g
  <2>2. Lives(g, w)'
    BY <2>1
  <2>3. QED
    BY <2>2 DEF g
<1>11. Bound(at, n2)'
  <2>1. \A w \in Tasks : \A i \in 0 .. n2[w] :
          CollectorAt(at, n2, w, i)' = CollectorAt(at, n, w, i)
    <3> SUFFICES ASSUME NEW w \in Tasks, NEW i \in 0 .. n2[w]
                 PROVE  CollectorAt(at, n2, w, i)' = CollectorAt(at, n, w, i)
      OBVIOUS
    <3>1. n2[w] \in Nat
      BY <1>2 DEF Depths
    <3>2. i = n2[w] \/ (i # n2[w] /\ i + 1 \in 1 .. n2[w])
      BY <3>1
    <3>3. CASE i # n2[w] /\ i + 1 \in 1 .. n2[w]
      <4>1. i # n[w]
        BY <1>1, <1>2, <1>4, <3>1, <3>3
      <4>2. saved'[at[w][i + 1]] = saved[at[w][i + 1]]
        BY <1>5, <3>3
      <4>3. QED
        BY <3>3, <4>1, <4>2 DEF CollectorAt
    <3>4. CASE i = n2[w] /\ w # t
      BY <1>2, <1>6, <3>4 DEF CollectorAt
    <3>5. CASE i = n2[w] /\ w = t
      BY <1>1, <1>2, <1>3, <1>4, <1>6, <3>5 DEF CollectorAt
    <3>6. QED
      BY <3>2, <3>3, <3>4, <3>5
  <2> SUFFICES ASSUME NEW w \in Tasks
               PROVE  /\ CollectorAt(at, n2, w, 0)' = home'[w]
                      /\ \A i \in 1 .. n2[w] : CollectorAt(at, n2, w, i)' =
                           IF at[w][i] \in Requests THEN at[w][i]
                           ELSE CollectorAt(at, n2, w, i - 1)'
    BY DEF Bound
  <2>2. \A i \in 1 .. n2[w] : i \in 0 .. n2[w] /\ i - 1 \in 0 .. n2[w]
    BY <1>2 DEF Depths
  <2>3. 0 \in 0 .. n2[w]
    BY <1>2 DEF Depths
  <2>4. CollectorAt(at, n2, w, 0)' = home'[w]
    BY <1>a, <2>1, <2>3 DEF Bound
  <2>5. ASSUME NEW i \in 1 .. n2[w]
        PROVE  CollectorAt(at, n2, w, i)' =
                 IF at[w][i] \in Requests THEN at[w][i] ELSE CollectorAt(at, n2, w, i - 1)'
    <3>1. /\ i \in 0 .. n2[w] /\ i - 1 \in 0 .. n2[w]
          /\ CollectorAt(at, n, w, i) =
               IF at[w][i] \in Requests THEN at[w][i] ELSE CollectorAt(at, n, w, i - 1)
      BY <1>a, <1>4, <2>2 DEF Bound
    <3>2. QED
      BY <2>1, <3>1
  <2>6. QED
    BY <2>4, <2>5
<1>12. QED
  BY <1>a, <1>2, <1>7, <1>8, <1>9, <1>10, <1>11 DEF StackOf, StackInv

\* A task starts, with an empty stack and the context of another one.
LEMMA StackStarted ==
    ASSUME TypeOK, NEW at, NEW n, StackOf(at, n), NEW t \in Tasks, NEW w \in Tasks,
           Spawn(t, w),
           \A f \in Frames, v \in Tasks : Lives(f, v) => Lives(f, v)'
    PROVE  StackInv'
<1>1. /\ UNCHANGED <<top, below, saved>> /\ top[w] = None
      /\ ctx' = [ctx EXCEPT ![w] = ctx[t]]
      /\ home' = [home EXCEPT ![w] = ctx[t].collector]
      /\ DOMAIN ctx = Tasks /\ DOMAIN home = Tasks
  BY DEF Spawn, TypeOK
<1>2. n[w] = 0
  BY <1>1, StackEnds
<1>3. Linked(at, n)' /\ Distinct(at, n)' /\ Loose(at, n)'
  BY <1>1 DEF StackOf, Linked, Distinct, Loose, Elsewhere
<1>4. Live(at, n)'
  BY DEF StackOf, Live, Linked
<1>5. Bound(at, n)'
  <2>1. ASSUME NEW v \in Tasks \ {w}, NEW i
        PROVE  CollectorAt(at, n, v, i)' = CollectorAt(at, n, v, i)
    BY <1>1 DEF CollectorAt
  <2>2. CollectorAt(at, n, w, 0)' = home'[w]
    BY <1>1, <1>2 DEF CollectorAt
  <2>3. \A v \in Tasks \ {w} : home'[v] = home[v]
    BY <1>1
  <2>4. \A i : i \notin 1 .. n[w]
    BY <1>2
  <2>5. QED
    BY <2>1, <2>2, <2>3, <2>4 DEF StackOf, Bound
<1>6. QED
  BY <1>3, <1>4, <1>5 DEF StackOf, StackInv

\* Every step keeps the stacks.
LEMMA StackStep ==
    ASSUME TypeOK, StackInv, [Next]_vars
    PROVE  StackInv'
<1>1. PICK at, n : StackOf(at, n)
  BY DEF StackInv
<1>2. \A f \in Frames, t \in Tasks :
        Lives(f, t) /\ (f \in Requests => ~ \E w \in Tasks : Reset(w, f)) => Lives(f, t)'
  BY FramesLive
<1>t. /\ top \in [Tasks -> Frames \cup {None}] /\ ctx \in [Tasks -> Context]
      /\ pc \in [Requests -> Phases] /\ seg \in [Segments -> SegmentType]
      /\ DOMAIN task = Requests
  BY DEF TypeOK
<1>3. ASSUME NEW t \in Tasks, NEW r \in Requests, Reset(t, r)
      PROVE  StackInv'
  <2>1. /\ top[t] = r /\ Pop(t) /\ UNCHANGED home /\ r \in Frames
        /\ ctx' = [ctx EXCEPT ![t] = saved[r]]
        /\ pc' = [pc EXCEPT ![r] = "done"]
    BY <1>3 DEF Reset, Restored, Frames
  <2>2. \A f \in Requests : (\E w \in Tasks : Reset(w, f)) => f = r
    <3> SUFFICES ASSUME NEW f \in Requests, NEW w \in Tasks, Reset(w, f) PROVE f = r
      OBVIOUS
    <3>1. pc[f] = "reset" /\ pc' = [pc EXCEPT ![f] = "done"]
      BY DEF Reset
    <3>2. QED
      BY <1>t, <2>1, <3>1
  <2>3. \A g \in Frames \ {top[t]}, w \in Tasks : Lives(g, w) => Lives(g, w)'
    BY <1>2, <2>1, <2>2
  <2> HIDE <1>2
  <2>4. QED
    BY <1>1, <2>1, <2>3, StackPopped
<1>4. CASE ~ \E t \in Tasks, r \in Requests : Reset(t, r)
  <2>1. \A f \in Frames, t \in Tasks : Lives(f, t) => Lives(f, t)'
    BY <1>2, <1>4
  <2>2. CASE UNCHANGED <<ctx, top, below, saved, home, task>>
    BY <1>1, <2>1, <2>2, StacksRest
  <2>3. ASSUME NEW t \in Tasks, NEW r \in Requests, Accept(t, r)
        PROVE  StackInv'
    <3>1. /\ Push(t, r) /\ UNCHANGED home /\ r \in Frames /\ pc[r] = "idle"
          /\ ctx' = [ctx EXCEPT ![t] = BoundContext(t, r)]
          /\ BoundContext(t, r).collector = r
          /\ pc'[r] = "app" /\ task'[r] = t /\ r \notin Segments
      BY <1>t, <2>3, FrameAssumption DEF Accept, BoundContext, Frames
    <3>2. Elsewhere(at, n, r)
      BY <1>1, <3>1 DEF StackOf, Live, Lives, Elsewhere
    <3>3. Lives(r, t)'
      BY <3>1 DEF Lives
    <3>4. QED
      BY <1>1, <2>1, <3>1, <3>2, <3>3, StackPushed
  <2>4. ASSUME NEW t \in Tasks, NEW s \in Segments, NEW a \in Attributes,
               OpenSegment(t, s, a)
        PROVE  StackInv'
    <3>1. /\ Push(t, s) /\ UNCHANGED home /\ s \in Frames /\ s \notin Requests
          /\ ctx' = [ctx EXCEPT ![t].stack = Append(@, s)]
          /\ ctx[t].collector # None
      BY <2>4, FrameAssumption DEF OpenSegment, Frames
    <3>2. seg[s].trace = None /\ seg'[s].trace # None
      BY <2>4, <3>1, OpenGrows DEF Grows
    <3>3. Elsewhere(at, n, s)
      BY <1>1, <3>2 DEF StackOf, Live, Lives, Elsewhere
    <3>4. Lives(s, t)'
      BY <3>1, <3>2 DEF Lives
    <3>5. PICK c : /\ ctx' = [ctx EXCEPT ![t] = c]
                   /\ c.collector = ctx[t].collector
      <4>1. ctx[t] \in Context
        BY <1>t
      <4>2. [ctx[t] EXCEPT !.stack = Append(@, s)].collector = ctx[t].collector
        BY <4>1 DEF Context
      <4>3. ctx' = [ctx EXCEPT ![t] = [ctx[t] EXCEPT !.stack = Append(@, s)]]
        BY <3>1
      <4>4. QED
        BY <4>2, <4>3
    <3>6. QED
      BY <1>1, <2>1, <3>1, <3>3, <3>4, <3>5, StackPushed
  <2>5. ASSUME NEW t \in Tasks, CloseSegment(t)
        PROVE  StackInv'
    <3> DEFINE s == top[t]
    <3>1. /\ Pop(t) /\ UNCHANGED home /\ s \in Segments /\ s \in Frames
          /\ s \notin Requests /\ s # None
          /\ ctx' = [ctx EXCEPT ![t].stack = saved[s].stack]
      BY <2>5, FrameAssumption DEF CloseSegment, Frames
    <3>2. n[t] # 0 /\ n[t] \in 1 .. n[t] /\ n[t] \in Nat
      BY <1>1, <3>1, StackEnds
    <3>3. at[t][n[t]] = s
      BY <1>1 DEF StackOf, Linked
    <3> HIDE DEF s
    <3>4. CollectorAt(at, n, t, n[t]) = CollectorAt(at, n, t, n[t] - 1)
      BY <1>1, <3>1, <3>2, <3>3 DEF StackOf, Bound
    <3>5. ctx[t].collector = saved[s].collector
      <4>1. n[t] - 1 # n[t] /\ (n[t] - 1) + 1 = n[t]
        BY <3>2
      <4>2. QED
        BY <3>3, <3>4, <4>1 DEF CollectorAt
    <3>6. PICK c : /\ ctx' = [ctx EXCEPT ![t] = c]
                   /\ c.collector = ctx[t].collector
      <4>1. ctx[t] \in Context
        BY <1>t
      <4>2. [ctx[t] EXCEPT !.stack = saved[s].stack].collector = ctx[t].collector
        BY <4>1 DEF Context
      <4>3. ctx' = [ctx EXCEPT ![t] = [ctx[t] EXCEPT !.stack = saved[s].stack]]
        BY <3>1
      <4>4. QED
        BY <4>2, <4>3
    <3>7. \A g \in Frames \ {top[t]}, w \in Tasks : Lives(g, w) => Lives(g, w)'
      BY <2>1
    <3>8. top[t] \in Frames /\ c.collector = saved[top[t]].collector
      BY <3>1, <3>5, <3>6 DEF s
    <3> HIDE <2>1
    <3>9. QED
      BY <1>1, <3>1, <3>6, <3>7, <3>8, StackPopped
  <2>6. ASSUME NEW t \in Tasks, NEW w \in Tasks, Spawn(t, w)
        PROVE  StackInv'
    BY <1>1, <2>1, <2>6, StackStarted
  <2>7. QED
    BY <1>4, <2>2, <2>3, <2>4, <2>5, <2>6, StackWriters
<1>5. QED
  BY <1>3, <1>4

\* At the beginning the stacks are empty.
LEMMA StackInit == Init => StackInv
<1> SUFFICES ASSUME Init PROVE StackInv
  OBVIOUS
<1> DEFINE at == [t \in Tasks |-> [i \in Nat |-> None]]
           n == [t \in Tasks |-> 0]
<1>1. at \in Positions /\ n \in Depths
  BY DEF Positions, Depths
<1>2. \A t \in Tasks : n[t] = 0 /\ at[t][0] = None
  OBVIOUS
<1> HIDE DEF at, n
<1>3. \A t \in Tasks : \A i : i \notin 1 .. n[t]
  BY <1>2
<1>4. Linked(at, n)
  BY <1>2, <1>3 DEF Linked, Init
<1>5. Distinct(at, n) /\ Loose(at, n) /\ Live(at, n)
  BY <1>3 DEF Distinct, Loose, Live, Init
<1>6. Bound(at, n)
  BY <1>2, <1>3 DEF Bound, CollectorAt, Init, NoContext
<1>7. QED
  BY <1>1, <1>4, <1>5, <1>6 DEF StackOf, StackInv

\* The context variable of every task names the innermost request on its call
\* stack, or the request that started the task: no exit of a segment, no
\* nested request and no exception leaves the context of another call behind.
THEOREM ContextsFollow == Spec => []ContextFollowsCalls
<1>1. TypeOK /\ StackInv /\ [Next]_vars => StackInv'
  BY StackStep
<1>2. QED
  BY <1>1, StackInit, StacksFollow, TypeCorrect, PTL DEF Spec

-----------------------------------------------------------------------------
(***************************************************************************)
(* Without threads, nothing runs between the end of the application and    *)
(* the await of the store: what the rules report, what the sanitizer cuts  *)
(* and what finalize() freezes is the same trace.                          *)
(***************************************************************************)
\* Between two awaits, and in them, the request is on top of its task.
AtTop ==
    \A r \in Requests : pc[r] \notin {"idle", "app", "done"} =>
        task[r] \in Tasks /\ top[task[r]] = r

\* What is being served on top of a task was accepted by it.
LEMMA ServedByTop ==
    ASSUME StackInv, NEW t \in Tasks, NEW r \in Requests, top[t] = r
    PROVE  task[r] = t /\ pc[r] \notin {"idle", "done"}
<1>1. PICK at, n : StackOf(at, n)
  BY DEF StackInv
<1>2. n[t] # 0
  BY <1>1, StackEnds, FrameAssumption
<1>3. n[t] \in 1 .. n[t] /\ at[t][n[t]] = r
  BY <1>1, <1>2, StackEnds DEF StackOf, Linked
<1>4. QED
  BY <1>1, <1>3 DEF StackOf, Live, Lives

\* How a request leaves "idle", "app" and "done", and what its task does then.
LEMMA Leaves ==
    ASSUME TypeOK, [Next]_vars, NEW q \in Requests,
           pc[q] \in {"idle", "app", "done"}, pc'[q] \notin {"idle", "app", "done"}
    PROVE  \E t \in Tasks : top[t] = q /\ UNCHANGED <<top, task>>
<1> DEFINE P == \E t \in Tasks : top[t] = q /\ UNCHANGED <<top, task>>
<1>p. pc \in [Requests -> Phases]
  BY DEF TypeOK
<1>1. pc'[q] # pc[q]
  OBVIOUS
<1>2. ASSUME NEW t \in Tasks, NEW r \in Requests, Serve(t, r)
      PROVE  P
  <2>1. CASE Accept(t, r) \/ SendStart(t, r) \/ SendReturns(t, r)
    BY <1>p, <2>1 DEF Accept, SendStart, SendReturns
  <2>2. CASE SendLastBody(t, r) \/ AppEnds(t, r)
    BY <1>p, <1>1, <2>2 DEF SendLastBody, AppEnds
  <2>3. CASE Settle(t, r)
    <3>1. pc[r] \notin {"idle", "app", "done"}
      BY <2>3 DEF Settle, Drop, Raises, Diagnose, Sanitize, Finalize, Save, Reset
    <3>2. \A x \in Requests \ {r} : pc'[x] = pc[x]
      BY <1>p, <2>3 DEF Settle, Drop, Diagnose, Sanitize, Finalize, Save, Reset
    <3>3. QED
      BY <1>1, <3>1, <3>2
  <2>4. QED
    BY <1>2, <2>1, <2>2, <2>3 DEF Serve
<1>3. ASSUME NEW t \in Tasks, NEW e \in Failures, Raise(t, e)
      PROVE  P
  BY <1>p, <1>3 DEF Raise
<1>4. ASSUME NEW t \in Tasks, Measure(t) PROVE UNCHANGED pc
  BY <1>4 DEF Measure, OpenSegment, RejectSegment, CloseSegment
<1>5. ASSUME NEW t \in Tasks, Run(t) PROVE P
  BY <1>1, <1>3, <1>5 DEF Run, Catch, Spawn
<1>6. ASSUME NEW v \in Switches, Switch(v) PROVE UNCHANGED pc
  BY <1>6 DEF Switch
<1>7. CASE UNCHANGED vars
  BY <1>1, <1>7 DEF vars
<1>8. QED
  BY <1>1, <1>2, <1>4, <1>5, <1>6, <1>7 DEF Next

\* A request that is not running its application stays on top.
LEMMA AtTopStep ==
    ASSUME TypeOK, StackInv, AtTop, [Next]_vars
    PROVE  AtTop'
<1> SUFFICES ASSUME NEW q \in Requests, pc'[q] \notin {"idle", "app", "done"}
             PROVE  task'[q] \in Tasks /\ top'[task'[q]] = q
  BY DEF AtTop
<1>t. /\ pc \in [Requests -> Phases] /\ DOMAIN top = Tasks
      /\ task \in [Requests -> Tasks \cup {None}]
  BY DEF TypeOK
<1>1. CASE pc[q] \in {"idle", "app", "done"}
  BY <1>1, Leaves, ServedByTop
<1>2. CASE pc[q] \notin {"idle", "app", "done"}
  <2>1. top[task[q]] = q /\ task'[q] = task[q] /\ task[q] \in Tasks
    BY <1>2, TasksStay DEF AtTop
  <2>2. CASE UNCHANGED <<ctx, top, below, saved, home, task>>
    BY <2>1, <2>2
  <2>3. ASSUME NEW t \in Tasks, NEW r \in Requests, Accept(t, r) \/ Reset(t, r)
        PROVE  top'[task[q]] = q
    <3>1. CASE Accept(t, r)
      <4>1. /\ top' = [top EXCEPT ![t] = r] /\ r # q
            /\ top[t] # None => top[t] \in Segments
                                  \/ (top[t] \in Requests /\ pc[top[t]] = "app")
        BY <1>t, <1>2, <3>1 DEF Accept, Push, InApp
      <4>2. top[t] # q
        BY <1>2, <4>1, FrameAssumption
      <4>3. QED
        BY <1>t, <2>1, <4>1, <4>2
    <3>2. CASE Reset(t, r)
      <4>1. top[t] = r /\ r # q /\ \A w \in Tasks \ {t} : top'[w] = top[w]
        BY <1>t, <1>2, <3>2 DEF Reset, Pop
      <4>2. QED
        BY <1>t, <2>1, <4>1
    <3>3. QED
      BY <2>3, <3>1, <3>2
  <2>4. ASSUME NEW t \in Tasks, NEW s \in Segments, NEW a \in Attributes,
               OpenSegment(t, s, a)
        PROVE  top'[task[q]] = q
    <3>1. /\ top' = [top EXCEPT ![t] = s]
          /\ \/ top[t] \in Segments \/ top[t] = None
             \/ top[t] \in Requests /\ pc[top[t]] = "app"
      BY <2>4 DEF OpenSegment, Push, Running, InApp
    <3>2. top[t] # q
      BY <1>2, <3>1, FrameAssumption
    <3>3. QED
      BY <1>t, <2>1, <3>1, <3>2
  <2>5. ASSUME NEW t \in Tasks, CloseSegment(t)
        PROVE  top'[task[q]] = q
    <3>1. top[t] \in Segments /\ \A w \in Tasks \ {t} : top'[w] = top[w]
      BY <1>t, <2>5 DEF CloseSegment, Pop
    <3>2. QED
      BY <1>t, <2>1, <3>1, FrameAssumption
  <2>6. ASSUME NEW t \in Tasks, NEW w \in Tasks, Spawn(t, w)
        PROVE  top'[task[q]] = q
    BY <2>1, <2>6 DEF Spawn
  <2>7. QED
    BY <2>1, <2>2, <2>3, <2>4, <2>5, <2>6, StackWriters
<1>3. QED
  BY <1>1, <1>2

\* While a request is between two awaits, no task measures anything or serves
\* another request.
LEMMA LoopIsBusy ==
    ASSUME Threads = {}, StackInv, AtTop, NEW q \in Requests, pc[q] \in OnLoop,
           NEW t \in Tasks
    PROVE  /\ ~CloseSegment(t)
           /\ \A s \in Segments, a \in Attributes : ~OpenSegment(t, s, a)
           /\ \A r \in Requests : /\ ~SendStart(t, r) /\ ~SendReturns(t, r)
                                  /\ ~AppEnds(t, r)
<1>1. top[task[q]] = q /\ pc[q] # "app" /\ pc[q] # "sending"
  BY DEF AtTop, OnLoop
<1>2. LoopFree(t) => top[t] = q
  BY <1>1 DEF LoopFree
<1>3. ~Running(t)
  BY <1>1, <1>2, FrameAssumption DEF Running, InApp
<1>4. ~CloseSegment(t)
  BY <1>2, FrameAssumption DEF CloseSegment
<1>5. \A s \in Segments, a \in Attributes : ~OpenSegment(t, s, a)
  BY <1>3 DEF OpenSegment
<1>6. \A r \in Requests : ~SendStart(t, r)
  BY <1>3 DEF SendStart
<1>7. \A r \in Requests : ~SendReturns(t, r) /\ ~AppEnds(t, r)
  BY <1>1, <1>2 DEF SendReturns, AppEnds
<1>8. QED
  BY <1>4, <1>5, <1>6, <1>7

\* Parents come before their children in a list that may still be stored.
Ordered(r) ==
    LET list == trace[r].segments IN
    \A i \in DOMAIN list :
        LET p == seg[list[i]].parent IN
        p # None => \E j \in 1 .. (i - 1) : list[j] = p

OrderInv ==
    \A r \in Requests : pc[r] \notin {"reset", "done"} \/ Finalized(r) => Ordered(r)

\* A list keeps its order when it is left alone, or cut at its end.
LEMMA OrderKept ==
    ASSUME TypeOK, NEW q \in Requests, Ordered(q),
           NEW k \in 0 .. Len(trace[q].segments),
           Len(trace'[q].segments) = k, trace'[q].segments \in Seq(Segments),
           \A i \in 1 .. k : trace'[q].segments[i] = trace[q].segments[i],
           \A i \in 1 .. k :
             seg'[trace[q].segments[i]].parent = seg[trace[q].segments[i]].parent
    PROVE  Ordered(q)'
<1> DEFINE list == trace[q].segments
           cut == trace'[q].segments
<1>1. /\ DOMAIN cut = 1 .. k /\ DOMAIN list = 1 .. Len(list)
      /\ Len(list) \in Nat /\ k \in Nat /\ k <= Len(list)
  <2>1. list \in Seq(Segments)
    BY ListTyped
  <2>2. QED
    BY <2>1, LenProperties
<1>2. ASSUME NEW i \in 1 .. k, seg'[cut[i]].parent # None
      PROVE  \E j \in 1 .. (i - 1) : cut[j] = seg'[cut[i]].parent
  <2>1. /\ i \in DOMAIN list /\ cut[i] = list[i]
        /\ seg'[list[i]].parent = seg[list[i]].parent
    BY <1>1
  <2>2. seg[list[i]].parent # None
    BY <1>2, <2>1
  <2>3. PICK j \in 1 .. (i - 1) : list[j] = seg[list[i]].parent
    BY <2>1, <2>2 DEF Ordered
  <2>4. j \in 1 .. k
    BY <1>1
  <2>5. cut[j] = list[j]
    BY <2>4
  <2>6. QED
    BY <2>1, <2>3, <2>5
<1>3. QED
  BY <1>1, <1>2 DEF Ordered

\* Ownership and parents survive every step that measures nothing new.
LEMMA OrderStays ==
    ASSUME TypeOK, NEW q \in Requests, Ordered(q),
           trace'[q].segments = trace[q].segments,
           \A x \in Range(trace[q].segments) : seg'[x].parent = seg[x].parent
    PROVE  Ordered(q)'
<1> DEFINE list == trace[q].segments
           k == Len(list)
<1>1. list \in Seq(Segments)
  BY ListTyped
<1>2. DOMAIN list = 1 .. k /\ k \in Nat
  BY <1>1, LenProperties
<1>3. \A i \in 1 .. k : seg'[list[i]].parent = seg[list[i]].parent
  BY <1>2 DEF Range
<1>4. k \in 0 .. k
  BY <1>2
<1> HIDE DEF k
<1>5. k = Len(trace[q].segments)
  BY DEF k
<1>6. QED
  BY <1>1, <1>3, <1>4, <1>5, OrderKept

\* On the loop, the parent of a new segment is in the list it is appended to.
LEMMA OrderGrows ==
    ASSUME Threads = {}, FreezeInv, MixInv, LogInv, StackInv, AtTop, OrderInv,
           NEW t \in Tasks, NEW s \in Segments, NEW a \in Attributes,
           OpenSegment(t, s, a), NEW q \in Requests, Ordered(q),
           pc[q] \notin {"reset", "done"}
    PROVE  Ordered(q)'
<1> DEFINE c == ctx[t].collector
           p == ParentOf(ctx[t].stack)
           list == trace[q].segments
<1>t. TypeOK
  BY DEF FreezeInv
<1>1. /\ ctx[t] \in Context /\ c \in Requests /\ ~Finalized(c)
      /\ seg[s].trace = None
      /\ ctx[t].stack \in Seq(Segments) /\ list \in Seq(Segments)
      /\ trace \in [Requests -> TraceType] /\ DOMAIN seg = Segments
  BY <1>t, ListTyped DEF TypeOK, Context, OpenSegment, Late
<1>2. /\ trace' = [trace EXCEPT ![c].segments = Append(@, s)]
      /\ seg'[s].parent = p /\ \A x \in Segments \ {s} : seg'[x] = seg[x]
  BY <1>1 DEF OpenSegment
<1>3. s \notin Range(list) /\ Range(list) \subseteq Segments
  <2>1. \A x \in Range(list) : seg[x].trace = q
    BY DEF FreezeInv, Owned
  <2>2. QED
    BY <1>1, <1>t, <2>1, ListTyped, FrameAssumption
<1>4. CASE q # c
  <2>1. trace'[q].segments = trace[q].segments
    BY <1>1, <1>2, <1>4
  <2>2. \A x \in Range(list) : seg'[x].parent = seg[x].parent
    BY <1>2, <1>3
  <2>3. QED
    BY <1>t, <2>1, <2>2, OrderStays
<1>5. CASE q = c
  <2> DEFINE k == Len(list)
             new == trace'[q].segments
  <2>1. new = Append(list, s)
    BY <1>1, <1>2, <1>5 DEF TraceType
  <2>2. /\ DOMAIN new = 1 .. (k + 1) /\ DOMAIN list = 1 .. k /\ k \in Nat
        /\ \A i \in 1 .. k : new[i] = list[i]
        /\ new[k + 1] = s
    BY <1>1, <2>1, AppendProperties, LenProperties
  <2>3. p # None => \E j \in 1 .. k : list[j] = p
    <3>1. pc[q] \notin Ends
      <4>1. pc[q] \notin OnLoop
        BY LoopIsBusy
      <4>2. pc[q] # "save"
        BY <1>1, <1>5 DEF FreezeInv, FinalAtEnd
      <4>3. QED
        BY <4>1, <4>2 DEF OnLoop, Ends
    <3>2. ~trace[q].truncated
      BY <3>1 DEF LogInv, NothingMissing
    <3>3. ASSUME p # None PROVE p \in Segments /\ seg[p].trace = q
      <4>1. p \in Range(ctx[t].stack) /\ Range(ctx[t].stack) \subseteq Segments
        <5>1. Range(ctx[t].stack) \subseteq Segments
          BY <1>1, LenProperties DEF Range
        <5>2. QED
          BY <1>1, <3>3, <5>1, ParentInStack
      <4>2. QED
        BY <1>5, <4>1 DEF MixInv, StacksOwned, OwnStack
    <3>4. p # None => p \in Range(list)
      BY <3>2, <3>3 DEF LogInv, NothingMissing
    <3>5. QED
      BY <2>2, <3>4 DEF Range
  <2>4. ASSUME NEW i \in 1 .. k, seg'[new[i]].parent # None
        PROVE  \E j \in 1 .. (i - 1) : new[j] = seg'[new[i]].parent
    <3>1. new[i] = list[i] /\ list[i] \in Range(list) /\ i \in DOMAIN list
      BY <2>2 DEF Range
    <3>2. seg'[list[i]] = seg[list[i]]
      BY <1>2, <1>3, <3>1
    <3>3. PICK j \in 1 .. (i - 1) : list[j] = seg[list[i]].parent
      BY <2>4, <3>1, <3>2 DEF Ordered
    <3>4. j \in 1 .. k
      BY <2>2
    <3> HIDE DEF new, list, k
    <3>5. QED
      BY <2>2, <3>1, <3>2, <3>3, <3>4
  <2>5. seg'[new[k + 1]].parent # None =>
          \E j \in 1 .. (k + 1 - 1) : new[j] = seg'[new[k + 1]].parent
    <3>1. k + 1 - 1 = k
      BY <2>2
    <3> HIDE DEF new, list, k, p
    <3>2. QED
      BY <1>2, <2>2, <2>3, <3>1
  <2>6. \A i \in 1 .. (k + 1) : i \in 1 .. k \/ i = k + 1
    BY <2>2
  <2>7. \A i \in DOMAIN new : seg'[new[i]].parent # None =>
          \E j \in 1 .. (i - 1) : new[j] = seg'[new[i]].parent
    <3> HIDE DEF new, list, k, p
    <3>1. QED
      BY <2>2, <2>4, <2>5, <2>6
  <2>8. QED
    BY <2>7 DEF Ordered
<1>6. QED
  BY <1>4, <1>5

\* Every step keeps the lists in order.
LEMMA OrderStep ==
    ASSUME Threads = {}, FreezeInv, MixInv, LogInv, StackInv, AtTop, OrderInv, [Next]_vars
    PROVE  OrderInv'
<1> SUFFICES ASSUME NEW q \in Requests,
                    pc'[q] \notin {"reset", "done"} \/ Finalized(q)'
             PROVE  Ordered(q)'
  BY DEF OrderInv
<1>t. /\ TypeOK /\ trace \in [Requests -> TraceType]
      /\ seg \in [Segments -> SegmentType] /\ DOMAIN snapshot = Requests
      /\ pc \in [Requests -> Phases]
  BY DEF FreezeInv, TypeOK
<1>o. Range(trace[q].segments) \subseteq Segments /\ trace[q].segments \in Seq(Segments)
  BY <1>t, ListTyped
<1>1. CASE Finalized(q)
  <2>1. Ordered(q)
    BY <1>1 DEF OrderInv
  <2>2. /\ trace'[q] = trace[q]
        /\ \A x \in Range(trace[q].segments) : seg'[x] = seg[x]
    BY <1>1, FrozenStays DEF FreezeInv
  <2>3. QED
    BY <1>t, <2>1, <2>2, OrderStays
<1>2. CASE ~Finalized(q)
  <2>1. pc[q] \notin {"reset", "done"}
    <3>1. CASE pc'[q] \notin {"reset", "done"}
      BY <1>t, <3>1, Forward
    <3>2. CASE Finalized(q)'
      <4>1. snapshot[q] = None /\ snapshot'[q] # None
        BY <1>2, <3>2 DEF Finalized
      <4>2. PICK t \in Tasks, r \in Requests : Finalize(t, r)
        BY ZenonT(40), <4>1, Writers
           DEF SendStart, SendReturns, AppEnds, Diagnose, Sanitize, OpenSegment,
               CloseSegment
      <4>3. r = q
        BY <1>t, <4>1, <4>2 DEF Finalize
      <4>4. QED
        BY <4>2, <4>3 DEF Finalize
    <3>3. QED
      BY <3>1, <3>2
  <2>2. Ordered(q)
    BY <2>1 DEF OrderInv
  <2>3. ASSUME trace'[q].segments = trace[q].segments,
               \A x \in Segments : seg'[x].parent = seg[x].parent
        PROVE  Ordered(q)'
    BY <1>o, <1>t, <2>2, <2>3, OrderStays
  <2>4. CASE UNCHANGED <<trace, seg, snapshot>>
    BY <2>3, <2>4
  <2>5. ASSUME NEW t \in Tasks, NEW r \in Requests,
               SendStart(t, r) \/ SendReturns(t, r) \/ AppEnds(t, r)
                 \/ Diagnose(t, r) \/ Finalize(t, r)
        PROVE  Ordered(q)'
    <3>1. UNCHANGED seg
      BY <2>5 DEF SendStart, SendReturns, AppEnds, Diagnose, Finalize
    <3>2. trace'[q].segments = trace[q].segments
      <4>1. CASE SendStart(t, r)
        BY <1>t, <4>1 DEF SendStart, TraceType
      <4>2. CASE SendReturns(t, r)
        BY <1>t, <4>2 DEF SendReturns, TraceType
      <4>3. CASE AppEnds(t, r)
        BY <1>t, <4>3 DEF AppEnds, TraceType
      <4>4. CASE Diagnose(t, r)
        BY <1>t, <4>4 DEF Diagnose, TraceType
      <4>5. CASE Finalize(t, r)
        BY <4>5 DEF Finalize
      <4>6. QED
        BY <2>5, <4>1, <4>2, <4>3, <4>4, <4>5
    <3>3. QED
      BY <2>3, <3>1, <3>2
  <2>6. ASSUME NEW t \in Tasks, NEW r \in Requests, Sanitize(t, r)
        PROVE  Ordered(q)'
    <3>1. PICK k \in KeptLengths(Len(trace[r].segments)), mark \in BOOLEAN,
               named \in SUBSET trace[r].reported :
          /\ Marked(Len(trace[r].segments), k) => mark
          /\ trace' = [trace EXCEPT ![r].segments = Kept(trace[r].segments, k),
                                    ![r].reported = named,
                                    ![r].truncated = mark]
          /\ seg' = [s \in Segments |->
                      IF s \in Range(Kept(trace[r].segments, k))
                        THEN [seg[s] EXCEPT !.bounded = TRUE] ELSE seg[s]]
      BY <2>6, Sanitized
    <3>2. \A x \in Segments : seg'[x].parent = seg[x].parent
      BY <1>t, <3>1 DEF SegmentType
    <3>3. CASE r # q
      BY <1>t, <2>3, <3>1, <3>2, <3>3
    <3>4. CASE r = q
      <4>1. trace'[q].segments = Kept(trace[q].segments, k)
        BY <1>t, <3>1, <3>4 DEF TraceType
      <4>2. /\ Kept(trace[q].segments, k) \in Seq(Segments)
            /\ Len(Kept(trace[q].segments, k)) = k
            /\ \A i \in 1 .. k : Kept(trace[q].segments, k)[i] = trace[q].segments[i]
            /\ k <= Len(trace[q].segments)
        BY <1>o, <3>4, KeptList
      <4>3. k \in 0 .. Len(trace[q].segments)
        BY <1>o, <4>2, LenProperties
      <4>4. \A i \in 1 .. k : trace[q].segments[i] \in Segments
        BY <1>o, <4>3, LenProperties
      <4>5. QED
        BY <1>t, <2>2, <3>2, <4>1, <4>2, <4>3, <4>4, OrderKept
    <3>5. QED
      BY <3>3, <3>4
  <2>7. ASSUME NEW t \in Tasks, NEW s \in Segments, NEW a \in Attributes,
               OpenSegment(t, s, a)
        PROVE  Ordered(q)'
    BY <2>1, <2>2, <2>7, OrderGrows
  <2>8. ASSUME NEW t \in Tasks, CloseSegment(t) PROVE Ordered(q)'
    <3>1. trace' = trace /\ \A x \in Segments : seg'[x].parent = seg[x].parent
      BY <1>t, <2>8 DEF CloseSegment, SegmentType
    <3>2. QED
      BY <2>3, <3>1
  <2>9. QED
    BY <2>4, <2>5, <2>6, <2>7, <2>8, Writers
<1>3. QED
  BY <1>1, <1>2

\* What holds of the stacks and the lists, together.
LoopInv == FreezeInv /\ MixInv /\ LogInv /\ StackInv /\ AtTop

\* The invariant behind the theorems about the loop.
LEMMA LoopInvariant == Spec => []LoopInv
<1>1. Init => AtTop
  BY DEF Init, AtTop
<1>2. TypeOK /\ StackInv /\ AtTop /\ [Next]_vars => StackInv' /\ AtTop'
  BY StackStep, AtTopStep
<1>3. QED
  BY <1>1, <1>2, StackInit, TypeCorrect, MixInvariant, LogInvariant, PTL
     DEF Spec, LoopInv

\* Without threads, a stored trace lists every parent before its children,
\* whatever the sanitizer cut.
THEOREM ParentsFirstOnLoop ==
    ASSUME Threads = {}
    PROVE  Spec => []ParentsFirst
<1>1. Init => OrderInv
  BY DEF Init, OrderInv, Ordered, EmptyTrace
<1>2. LoopInv /\ OrderInv /\ [Next]_vars => OrderInv'
  BY OrderStep DEF LoopInv
<1>3. LoopInv /\ OrderInv => ParentsFirst
  <2> SUFFICES ASSUME LoopInv, OrderInv, NEW r \in stored
               PROVE  LET list == snapshot[r].trace.segments IN
                      \A i \in DOMAIN list :
                        LET p == snapshot[r].segments[list[i]].parent IN
                        p # None => \E j \in 1 .. (i - 1) : list[j] = p
    BY DEF ParentsFirst
  <2>1. r \in Requests /\ Finalized(r)
    BY DEF LoopInv, LogInv, StoredFrozen, FreezeInv, TypeOK
  <2>2. snapshot[r] = Image(r) /\ Ordered(r)
    BY <2>1 DEF LoopInv, FreezeInv, SnapshotIsFinal, OrderInv
  <2>3. /\ snapshot[r].trace.segments = trace[r].segments
        /\ \A i \in DOMAIN trace[r].segments :
             snapshot[r].segments[trace[r].segments[i]] = seg[trace[r].segments[i]]
    BY <2>2 DEF Image, Range
  <2>4. QED
    BY <2>2, <2>3 DEF Ordered
<1>4. QED
  BY <1>1, <1>2, <1>3, LoopInvariant, PTL DEF Spec

-----------------------------------------------------------------------------
\* The findings name open segments of the list, and all of them if none was cut.
Matched(r) ==
    /\ trace[r].reported \cap Range(trace[r].segments) \subseteq OpenSegmentsOf(r)
    /\ ~trace[r].truncated => OpenSegmentsOf(r) \subseteq trace[r].reported

\* The list and its segments are within the limits of the sanitizer.
Limits(r) ==
    /\ Len(trace[r].segments) <= MaxSegments
    /\ \A s \in Range(trace[r].segments) : seg[s].bounded

Sound(r) == Matched(r) /\ Limits(r)

\* Where the trace of a request was diagnosed, and where it was cut.
Diagnosed(r) == pc[r] = "sanitize" => trace[r].reported = OpenSegmentsOf(r)

Cut(r) == pc[r] \in {"finalize", "save"} \/ r \in stored => Sound(r)

ReportInv == \A r \in Requests : Diagnosed(r) /\ Cut(r)

\* A trace that nothing writes to stays sound.
LEMMA SoundStays ==
    ASSUME NEW r \in Requests, trace'[r] = trace[r],
           \A s \in Range(trace[r].segments) :
             /\ seg'[s].status = seg[s].status
             /\ seg[s].bounded => seg'[s].bounded
    PROVE  /\ OpenSegmentsOf(r)' = OpenSegmentsOf(r)
           /\ Sound(r) => Sound(r)'
<1>1. OpenSegmentsOf(r)' = OpenSegmentsOf(r)
  BY DEF OpenSegmentsOf
<1>2. Limits(r) => Limits(r)'
  BY DEF Limits
<1>3. QED
  BY <1>1, <1>2 DEF Sound, Matched

\* The steps that take a request to its diagnosis, its cut and its save.
LEMMA ReportSteps ==
    ASSUME TypeOK, [Next]_vars, NEW q \in Requests,
           pc'[q] \in {"sanitize", "finalize", "save"}
    PROVE  \/ pc[q] = pc'[q]
           \/ \E t \in Tasks : Diagnose(t, q) \/ Sanitize(t, q) \/ Finalize(t, q)
<1> DEFINE P == \/ pc[q] = pc'[q]
                \/ \E t \in Tasks : Diagnose(t, q) \/ Sanitize(t, q) \/ Finalize(t, q)
<1>p. pc \in [Requests -> Phases]
  BY DEF TypeOK
<1>1. CASE UNCHANGED pc
  BY <1>1
<1>2. ASSUME NEW t \in Tasks, NEW r \in Requests, Serve(t, r)
      PROVE  P
  <2>1. CASE Accept(t, r) \/ SendStart(t, r) \/ SendLastBody(t, r)
               \/ SendReturns(t, r) \/ AppEnds(t, r)
    BY <1>p, <2>1 DEF Accept, SendStart, SendLastBody, SendReturns, AppEnds
  <2>2. CASE Drop(t, r) \/ Save(t, r) \/ Reset(t, r)
    BY <1>p, <2>2 DEF Drop, Save, Reset
  <2>3. CASE Diagnose(t, r) \/ Sanitize(t, r) \/ Finalize(t, r)
    <3>1. r # q => pc'[q] = pc[q]
      BY <1>p, <2>3 DEF Diagnose, Sanitize, Finalize
    <3>2. QED
      BY <2>3, <3>1
  <2>4. QED
    BY <1>2, <2>1, <2>2, <2>3 DEF Serve, Settle
<1>3. ASSUME NEW t \in Tasks, NEW e \in Failures, Raise(t, e)
      PROVE  P
  BY <1>p, <1>3 DEF Raise
<1>4. ASSUME NEW t \in Tasks, Measure(t) PROVE UNCHANGED pc
  BY <1>4 DEF Measure, OpenSegment, RejectSegment, CloseSegment
<1>5. ASSUME NEW t \in Tasks, Run(t) PROVE P
  BY <1>1, <1>3, <1>5 DEF Run, Catch, Spawn
<1>6. ASSUME NEW v \in Switches, Switch(v) PROVE UNCHANGED pc
  BY <1>6 DEF Switch
<1>7. CASE UNCHANGED vars
  BY <1>1, <1>7 DEF vars
<1>8. QED
  BY <1>1, <1>2, <1>4, <1>5, <1>6, <1>7 DEF Next

\* On the loop, nothing writes to a trace between two steps of its end.
LEMMA ReportRests ==
    ASSUME Threads = {}, LoopInv, [Next]_vars, NEW q \in Requests,
           pc[q] \in {"sanitize", "finalize"}, pc'[q] = pc[q]
    PROVE  /\ trace'[q] = trace[q]
           /\ \A s \in Range(trace[q].segments) :
                /\ seg'[s].status = seg[s].status
                /\ seg[s].bounded => seg'[s].bounded
<1> DEFINE P == /\ trace'[q] = trace[q]
                /\ \A s \in Range(trace[q].segments) :
                     /\ seg'[s].status = seg[s].status
                     /\ seg[s].bounded => seg'[s].bounded
<1>t. /\ trace \in [Requests -> TraceType] /\ pc \in [Requests -> Phases]
      /\ seg \in [Segments -> SegmentType] /\ TypeOK
  BY DEF LoopInv, FreezeInv, TypeOK
<1>b. \A t \in Tasks :
        /\ ~CloseSegment(t)
        /\ \A s \in Segments, a \in Attributes : ~OpenSegment(t, s, a)
        /\ \A r \in Requests : ~SendStart(t, r) /\ ~SendReturns(t, r) /\ ~AppEnds(t, r)
  BY LoopIsBusy DEF LoopInv, OnLoop
<1>1. CASE UNCHANGED <<trace, seg, snapshot>>
  BY <1>1
<1>2. ASSUME NEW t \in Tasks, NEW r \in Requests, Diagnose(t, r) \/ Finalize(t, r)
      PROVE  P
  <2>1. CASE Diagnose(t, r)
    <3>1. r # q
      BY <2>1 DEF Diagnose
    <3>2. QED
      BY <1>t, <2>1, <3>1 DEF Diagnose
  <2>2. CASE Finalize(t, r)
    BY <2>2 DEF Finalize
  <2>3. QED
    BY <1>2, <2>1, <2>2
<1>3. ASSUME NEW t \in Tasks, NEW r \in Requests, Sanitize(t, r)
      PROVE  P
  <2>1. r # q
    BY <1>t, <1>3 DEF Sanitize
  <2>2. PICK k \in KeptLengths(Len(trace[r].segments)), mark \in BOOLEAN,
             named \in SUBSET trace[r].reported :
        /\ Marked(Len(trace[r].segments), k) => mark
        /\ trace' = [trace EXCEPT ![r].segments = Kept(trace[r].segments, k),
                                  ![r].reported = named,
                                  ![r].truncated = mark]
        /\ seg' = [s \in Segments |->
                    IF s \in Range(Kept(trace[r].segments, k))
                      THEN [seg[s] EXCEPT !.bounded = TRUE] ELSE seg[s]]
    BY <1>3, Sanitized
  <2>3. trace'[q] = trace[q]
    BY <1>t, <2>1, <2>2
  <2>4. ASSUME NEW s \in Segments
        PROVE  seg'[s].status = seg[s].status /\ (seg[s].bounded => seg'[s].bounded)
    BY <1>t, <2>2 DEF SegmentType
  <2>5. Range(trace[q].segments) \subseteq Segments
    BY <1>t, ListTyped
  <2>6. QED
    BY <2>3, <2>4, <2>5
<1>4. QED
  BY <1>1, <1>2, <1>3, <1>b, Writers

\* The rules report what is open.
LEMMA DiagnoseReports ==
    ASSUME TypeOK, NEW t \in Tasks, NEW q \in Requests, Diagnose(t, q)
    PROVE  trace'[q].reported = OpenSegmentsOf(q)'
<1>1. /\ UNCHANGED seg /\ trace[q] \in TraceType /\ DOMAIN trace = Requests
      /\ trace' = [trace EXCEPT ![q].reported = OpenSegmentsOf(q)]
  BY DEF Diagnose, TypeOK
<1>2. /\ trace'[q].reported = OpenSegmentsOf(q)
      /\ trace'[q].segments = trace[q].segments
  BY <1>1 DEF TraceType
<1>3. QED
  BY <1>1, <1>2 DEF OpenSegmentsOf

\* The sanitizer keeps the findings in agreement with the list, and the limits.
LEMMA SanitizeCuts ==
    ASSUME TypeOK, NEW t \in Tasks, NEW q \in Requests, Sanitize(t, q),
           trace[q].reported = OpenSegmentsOf(q)
    PROVE  Sound(q)'
<1> DEFINE list == trace[q].segments
<1>1. PICK k \in KeptLengths(Len(list)), mark \in BOOLEAN,
           named \in SUBSET trace[q].reported :
        /\ ~mark => named = trace[q].reported
        /\ trace' = [trace EXCEPT ![q].segments = Kept(list, k),
                                  ![q].reported = named,
                                  ![q].truncated = mark]
        /\ seg' = [s \in Segments |->
                    IF s \in Range(Kept(list, k))
                      THEN [seg[s] EXCEPT !.bounded = TRUE] ELSE seg[s]]
  BY DEF Sanitize
<1>2. /\ trace[q] \in TraceType /\ seg \in [Segments -> SegmentType]
      /\ trace \in [Requests -> TraceType] /\ list \in Seq(Segments)
  BY ListTyped DEF TypeOK
<1> DEFINE kept == Range(Kept(list, k))
<1>3. /\ trace'[q].segments = Kept(list, k) /\ trace'[q].reported = named
      /\ trace'[q].truncated = mark
  BY <1>1, <1>2 DEF TraceType
<1>4. kept \subseteq Range(list) /\ Range(list) \subseteq Segments
  BY <1>2, RangeOfKept, ListTyped
<1>5. \A s \in kept : seg'[s].status = seg[s].status /\ seg'[s].bounded
  BY <1>1, <1>2, <1>4 DEF SegmentType
<1>6. OpenSegmentsOf(q)' = {s \in kept : seg[s].status = "incomplete"}
  BY <1>3, <1>5 DEF OpenSegmentsOf
<1>7. Matched(q)'
  <2>1. named \cap kept \subseteq OpenSegmentsOf(q)'
    BY <1>6 DEF OpenSegmentsOf
  <2>2. ~mark => OpenSegmentsOf(q)' \subseteq named
    BY <1>1, <1>4, <1>6 DEF OpenSegmentsOf
  <2>3. QED
    BY <1>3, <2>1, <2>2 DEF Matched
<1>8. Len(Kept(list, k)) <= MaxSegments
  <2>1. Len(Kept(list, k)) = k
    BY <1>2, KeptList
  <2>2. k <= MaxSegments
    BY <1>2, LenProperties, BoundAssumption DEF KeptLengths
  <2>3. QED
    BY <2>1, <2>2
<1>9. Limits(q)'
  BY <1>3, <1>5, <1>8 DEF Limits
<1>10. QED
  BY <1>7, <1>9 DEF Sound

\* Every step keeps what was diagnosed and cut.
LEMMA ReportStep ==
    ASSUME Threads = {}, LoopInv, ReportInv, [Next]_vars
    PROVE  ReportInv'
<1> SUFFICES ASSUME NEW q \in Requests PROVE Diagnosed(q)' /\ Cut(q)'
  BY DEF ReportInv
<1>t. TypeOK
  BY DEF LoopInv, FreezeInv
<1>i. Diagnosed(q) /\ Cut(q)
  BY DEF ReportInv
<1>r. ASSUME pc[q] \in {"sanitize", "finalize"}, pc'[q] = pc[q]
      PROVE  /\ trace'[q] = trace[q] /\ OpenSegmentsOf(q)' = OpenSegmentsOf(q)
             /\ Sound(q) => Sound(q)'
  BY <1>r, ReportRests, SoundStays
<1>f. ASSUME Finalized(q), Sound(q) PROVE Sound(q)'
  <2>1. /\ trace'[q] = trace[q]
        /\ \A x \in Range(trace[q].segments) : seg'[x] = seg[x]
    BY <1>f, FrozenStays DEF LoopInv, FreezeInv
  <2>2. QED
    BY <1>f, <2>1, SoundStays
<1>1. Diagnosed(q)'
  <2> SUFFICES ASSUME pc'[q] = "sanitize" PROVE trace'[q].reported = OpenSegmentsOf(q)'
    BY DEF Diagnosed
  <2>1. CASE pc[q] = pc'[q]
    BY <1>i, <1>r, <2>1 DEF Diagnosed
  <2>2. ASSUME NEW t \in Tasks, Diagnose(t, q)
        PROVE  trace'[q].reported = OpenSegmentsOf(q)'
    BY <1>t, <2>2, DiagnoseReports
  <2>3. ASSUME NEW t \in Tasks, Sanitize(t, q) \/ Finalize(t, q)
        PROVE  FALSE
    <3>1. pc \in [Requests -> Phases]
      BY <1>t DEF TypeOK
    <3>2. QED
      BY <2>3, <3>1 DEF Sanitize, Finalize
  <2>4. QED
    BY <1>t, <2>1, <2>2, <2>3, ReportSteps
<1>2. Cut(q)'
  <2>1. ASSUME q \in stored PROVE Sound(q)'
    BY <1>i, <1>f, <2>1 DEF Cut, LoopInv, LogInv, StoredFrozen
  <2>2. ASSUME pc[q] = "save" PROVE Sound(q)'
    BY <1>i, <1>f, <2>2 DEF Cut, LoopInv, FreezeInv, FinalAtEnd
  <2>3. ASSUME q \in stored', q \notin stored PROVE pc[q] = "save"
    <3>1. PICK t \in Tasks, r \in Requests : Save(t, r)
      BY <2>3, StoreWriters
    <3>2. QED
      BY <2>3, <3>1 DEF Save
  <2>4. ASSUME pc'[q] = "finalize" \/ pc'[q] = "save", pc[q] # "save"
        PROVE  Sound(q)'
    <3>1. CASE pc[q] = pc'[q]
      BY <1>i, <1>r, <2>4, <3>1 DEF Cut
    <3>2. ASSUME NEW t \in Tasks, Diagnose(t, q) PROVE FALSE
      <4>1. pc \in [Requests -> Phases]
        BY <1>t DEF TypeOK
      <4>2. QED
        BY <2>4, <3>2, <4>1 DEF Diagnose
    <3>3. ASSUME NEW t \in Tasks, Sanitize(t, q) PROVE Sound(q)'
      <4>1. pc[q] = "sanitize"
        BY <3>3 DEF Sanitize
      <4>2. QED
        BY <1>t, <1>i, <3>3, <4>1, SanitizeCuts DEF Diagnosed
    <3>4. ASSUME NEW t \in Tasks, Finalize(t, q) PROVE Sound(q)'
      <4>1. UNCHANGED <<trace, seg>> /\ pc[q] \in {"finalize", "discard"}
            /\ pc'[q] = IF pc[q] = "finalize" THEN "save" ELSE "reset"
        BY <1>t, <3>4 DEF Finalize, TypeOK
      <4>2. Sound(q)
        BY <1>i, <2>4, <4>1 DEF Cut
      <4>3. QED
        BY <4>1, <4>2, SoundStays
    <3>5. QED
      BY <1>t, <2>4, <3>1, <3>2, <3>3, <3>4, ReportSteps
  <2>5. QED
    BY <2>1, <2>2, <2>3, <2>4 DEF Cut
<1>3. QED
  BY <1>1, <1>2

\* The invariant behind FindingsMatchOnLoop and LimitsHoldOnLoop.
LEMMA ReportInvariant ==
    ASSUME Threads = {}
    PROVE  Spec => [](LoopInv /\ ReportInv)
<1>1. Init => ReportInv
  BY DEF Init, ReportInv, Diagnosed, Cut
<1>2. LoopInv /\ ReportInv /\ [Next]_vars => ReportInv'
  BY ReportStep
<1>3. QED
  BY <1>1, <1>2, LoopInvariant, PTL DEF Spec

\* A stored trace reads as the trace its collector owns.
LEMMA StoredIsImage ==
    ASSUME LoopInv, NEW r \in stored
    PROVE  /\ r \in Requests /\ snapshot[r] = Image(r)
           /\ snapshot[r].trace = trace[r]
           /\ DOMAIN snapshot[r].segments = Range(trace[r].segments)
           /\ \A s \in Range(trace[r].segments) : snapshot[r].segments[s] = seg[s]
<1>1. r \in Requests /\ Finalized(r)
  BY DEF LoopInv, LogInv, StoredFrozen, FreezeInv, TypeOK
<1>2. snapshot[r] = Image(r)
  BY <1>1 DEF LoopInv, FreezeInv, SnapshotIsFinal
<1>3. QED
  BY <1>1, <1>2 DEF Image

\* Without threads, the findings of a stored trace name the segments that its
\* snapshot shows open, all of them unless findings were cut.
THEOREM FindingsMatchOnLoop ==
    ASSUME Threads = {}
    PROVE  Spec => []FindingsMatch
<1>1. LoopInv /\ ReportInv => FindingsMatch
  <2> SUFFICES ASSUME LoopInv, ReportInv, NEW r \in stored
               PROVE  LET shown == {s \in DOMAIN snapshot[r].segments :
                                      snapshot[r].segments[s].status = "incomplete"}
                          named == snapshot[r].trace.reported IN
                      /\ named \cap DOMAIN snapshot[r].segments \subseteq shown
                      /\ ~snapshot[r].trace.truncated => shown \subseteq named
    BY DEF FindingsMatch
  <2>1. r \in Requests /\ Matched(r)
    BY StoredIsImage DEF ReportInv, Cut, Sound
  <2>2. {s \in DOMAIN snapshot[r].segments :
           snapshot[r].segments[s].status = "incomplete"} = OpenSegmentsOf(r)
    BY StoredIsImage DEF OpenSegmentsOf
  <2>3. QED
    BY <2>1, <2>2, StoredIsImage DEF Matched
<1>2. QED
  BY <1>1, ReportInvariant, PTL

\* Without threads, what a stored trace holds is within the limits of the
\* sanitizer.
THEOREM LimitsHoldOnLoop ==
    ASSUME Threads = {}
    PROVE  Spec => []WithinLimits
<1>1. LoopInv /\ ReportInv => WithinLimits
  <2> SUFFICES ASSUME LoopInv, ReportInv, NEW r \in stored
               PROVE  /\ Len(snapshot[r].trace.segments) <= MaxSegments
                      /\ \A s \in DOMAIN snapshot[r].segments :
                           snapshot[r].segments[s].bounded
    BY DEF WithinLimits
  <2>1. r \in Requests /\ Limits(r)
    BY StoredIsImage DEF ReportInv, Cut, Sound
  <2>2. QED
    BY <2>1, StoredIsImage DEF Limits
<1>2. QED
  BY <1>1, ReportInvariant, PTL
=============================================================================
