---------------------------- MODULE DependencyProofs ----------------------------
(***************************************************************************)
(* Proofs about DependencySolver, for any dependencies, applications and   *)
(* caches that the caller hands in:                                        *)
(*                                                                         *)
(*   SolverTypes    every variable keeps its type;                         *)
(*   TracesTellHits what the nodes say of the cache is what happened, can  *)
(*                  always be frozen, and a cached dependency runs once;   *)
(*   ScopesNest     generators are cleaned up after those that were given  *)
(*                  their value, every one, each in a segment that ends;   *)
(*   TreesAreWhole  when the solver is done, each node has below it the    *)
(*                  uses that its callable declares, in their order.       *)
(*                                                                         *)
(* Each invariant leans on the one before: the shape of the calls, what the*)
(* nodes and the cache hold, what waits on the exit stacks, and how much of*)
(* what each call uses has a node.                                         *)
(***************************************************************************)
EXTENDS DependencySolver, SequenceTheorems, FiniteSetTheorems, TLAPS

-----------------------------------------------------------------------------
(* Sequences. *)

\* A sequence that is not empty is its front and its last element.
LEMMA FrontLast ==
    ASSUME NEW S, NEW q \in Seq(S), q # <<>>
    PROVE  /\ Len(q) \in Nat \ {0} /\ DOMAIN q = 1 .. Len(q)
           /\ Last(q) = q[Len(q)] /\ Last(q) \in S
           /\ Front(q) \in Seq(S) /\ Len(Front(q)) = Len(q) - 1
           /\ DOMAIN Front(q) = 1 .. Len(q) - 1
           /\ \A k \in 1 .. Len(q) - 1 : Front(q)[k] = q[k]
  <1>1. Len(q) \in Nat \ {0} /\ DOMAIN q = 1 .. Len(q)
    OBVIOUS
  <1>2. q[Len(q)] \in S
    BY <1>1
  <1>3. /\ SubSeq(q, 1, Len(q) - 1) \in Seq(S)
        /\ Len(SubSeq(q, 1, Len(q) - 1)) = Len(q) - 1
        /\ \A k \in 1 .. Len(q) - 1 : SubSeq(q, 1, Len(q) - 1)[k] = q[k]
    BY <1>1
  <1> QED
    BY <1>1, <1>2, <1>3 DEF Last, Front

\* What appending does.
LEMMA Appended ==
    ASSUME NEW S, NEW q \in Seq(S), NEW x \in S
    PROVE  /\ Append(q, x) \in Seq(S) /\ Len(q) \in Nat /\ DOMAIN q = 1 .. Len(q)
           /\ Len(Append(q, x)) = Len(q) + 1
           /\ DOMAIN Append(q, x) = 1 .. Len(q) + 1
           /\ \A k \in 1 .. Len(q) : Append(q, x)[k] = q[k]
           /\ Append(q, x)[Len(q) + 1] = x
  OBVIOUS

\* What the change of one element does.
LEMMA Changed ==
    ASSUME NEW S, NEW q \in Seq(S), NEW n \in DOMAIN q, NEW x \in S
    PROVE  /\ [q EXCEPT ![n] = x] \in Seq(S)
           /\ Len([q EXCEPT ![n] = x]) = Len(q)
           /\ DOMAIN [q EXCEPT ![n] = x] = DOMAIN q
           /\ [q EXCEPT ![n] = x][n] = x
           /\ \A k \in DOMAIN q \ {n} : [q EXCEPT ![n] = x][k] = q[k]
  OBVIOUS

\* One more dependency, for a call of _solve.
LEMMA CountsOne ==
    ASSUME NEW f \in FrameType, NEW invalid \in BOOLEAN
    PROVE  /\ OneMore(f, invalid) \in FrameType /\ OneMore(f, invalid).call = f.call
           /\ OneMore(f, invalid).node = f.node /\ OneMore(f, invalid).done = f.done + 1
  <1> DEFINE either == f.invalid \/ invalid
             more == [f EXCEPT !.done = f.done + 1]
  <1>1. either \in BOOLEAN
    OBVIOUS
  <1>2. more \in FrameType
    BY DEF FrameType
  <1>3. OneMore(f, invalid) = [more EXCEPT !.invalid = either]
    BY DEF OneMore
  <1> HIDE DEF either, more
  <1>4. [more EXCEPT !.invalid = either] \in FrameType
    BY <1>1, <1>2 DEF FrameType
  <1>5. /\ OneMore(f, invalid).call = f.call /\ OneMore(f, invalid).node = f.node
        /\ OneMore(f, invalid).done = f.done + 1
    BY DEF OneMore, FrameType
  <1> QED
    BY <1>3, <1>4, <1>5

\* Advance counts one more dependency for the innermost call.
LEMMA Advanced ==
    ASSUME NEW q \in Seq(FrameType), q # <<>>, NEW invalid \in BOOLEAN
    PROVE  /\ Advance(q, invalid) \in Seq(FrameType)
           /\ Len(Advance(q, invalid)) = Len(q)
           /\ DOMAIN Advance(q, invalid) = 1 .. Len(q)
           /\ \A k \in 1 .. Len(q) - 1 : Advance(q, invalid)[k] = q[k]
           /\ Advance(q, invalid)[Len(q)].call = q[Len(q)].call
           /\ Advance(q, invalid)[Len(q)].node = q[Len(q)].node
           /\ Advance(q, invalid)[Len(q)].done = q[Len(q)].done + 1
  <1> DEFINE f == OneMore(Last(q), invalid)
  <1>1. /\ Len(q) \in Nat \ {0} /\ Last(q) = q[Len(q)] /\ Last(q) \in FrameType
        /\ Front(q) \in Seq(FrameType) /\ Len(Front(q)) = Len(q) - 1
        /\ \A k \in 1 .. Len(q) - 1 : Front(q)[k] = q[k]
    BY FrontLast
  <1>2. /\ f \in FrameType /\ f.call = Last(q).call /\ f.node = Last(q).node
        /\ f.done = Last(q).done + 1
    BY <1>1, CountsOne
  <1>3. Advance(q, invalid) = Append(Front(q), f)
    BY DEF Advance
  <1> HIDE DEF f
  <1>4. /\ Append(Front(q), f) \in Seq(FrameType)
        /\ Len(Append(Front(q), f)) = Len(Front(q)) + 1
        /\ DOMAIN Append(Front(q), f) = 1 .. Len(Front(q)) + 1
        /\ \A k \in 1 .. Len(Front(q)) : Append(Front(q), f)[k] = Front(q)[k]
        /\ Append(Front(q), f)[Len(Front(q)) + 1] = f
    BY <1>1, <1>2, Appended
  <1>5. Len(Front(q)) + 1 = Len(q) /\ Len(Front(q)) = Len(q) - 1
    BY <1>1
  <1> QED
    BY <1>1, <1>2, <1>3, <1>4, <1>5

-----------------------------------------------------------------------------
(* The calls of _solve, and the node that is executed. *)

\* The calls of _solve: each but the first is for a node that is not solved
\* yet, which is the next use of the call below it.
Waiting(k) ==
    LET n == frames[k].node
        f == frames[k - 1] IN
    /\ n \in Nodes /\ frames[k].call = nodes[n].call /\ nodes[n].parent = f.node
    /\ nodes[n].result = None /\ nodes[n].setup = None /\ nodes[n].cleanup = None
    /\ f.done < Len(Uses(f)) /\ nodes[n].dep = Uses(f)[f.done + 1].dep

Spine ==
    /\ frames # <<>> <=> phase = "solving"
    /\ frames # <<>> => frames[1].node = None /\ frames[1].call = Route
    /\ \A k \in DOMAIN frames : k > 1 => Waiting(k)
    /\ \A j, k \in DOMAIN frames : 1 < j /\ j < k => frames[j].node < frames[k].node

\* A node that is executed: the next use of the innermost call.
Executing(n) ==
    /\ n \in Nodes /\ nodes[n].setup = open /\ nodes[n].result = None
    /\ nodes[n].cleanup = None /\ nodes[n].parent = Frame.node
    /\ Frame.done < Len(Uses(Frame)) /\ nodes[n].dep = Uses(Frame)[Frame.done + 1].dep

\* The segment that is awaited is the last one, around a node that is executed
\* or cleaned up.
Awaited ==
    open # None =>
        /\ open = Len(segments) /\ open > 0
        /\ phase \in {"solving", "closing"}
        /\ phase = "solving" => Executing(segments[open].node)

Scopes == {"function", "request"}

\* Nodes say which callable was used, and exit stacks name nodes.
Named ==
    /\ \A n \in Nodes : nodes[n].call = app.override[nodes[n].dep]
    /\ \A s \in Scopes : \A k \in DOMAIN exits[s] : exits[s][k] \in Nodes

ShapeInv == TypeOK /\ Spine /\ Awaited /\ Named /\ StackFollows

\* Types, as they are used below.
LEMMA ShapeTypes ==
    ASSUME ShapeInv
    PROVE  /\ frames \in Seq(FrameType) /\ nodes \in Seq(NodeType)
           /\ segments \in Seq(SegmentType)
           /\ cache \in [Deps -> Ref \cup {External}] /\ sources \in [Deps -> Ref]
           /\ open \in Ref /\ stack \in Seq(Nat) /\ exits \in [Scopes -> Seq(Nat)]
           /\ finalized \in BOOLEAN
           /\ Len(nodes) \in Nat /\ Nodes = 1 .. Len(nodes)
           /\ Len(segments) \in Nat /\ DOMAIN segments = 1 .. Len(segments)
           /\ Len(frames) \in Nat /\ DOMAIN frames = 1 .. Len(frames)
           /\ \A n \in Nodes : nodes[n] \in NodeType /\ n \in Nat
           /\ \A n \in Nat : n # None /\ n # External
           /\ app.override \in [Deps -> Deps] /\ app.uses \in [Deps \cup {Route} -> Seq(Site)]
           /\ app.scope \in [Deps -> Scopes]
  <1>1. TypeOK
    BY DEF ShapeInv
  <1>2. /\ nodes \in Seq(NodeType) /\ segments \in Seq(SegmentType)
        /\ frames \in Seq(FrameType)
    BY <1>1 DEF TypeOK
  <1>3. /\ Len(nodes) \in Nat /\ Nodes = 1 .. Len(nodes)
        /\ Len(segments) \in Nat /\ DOMAIN segments = 1 .. Len(segments)
        /\ Len(frames) \in Nat /\ DOMAIN frames = 1 .. Len(frames)
    BY <1>2 DEF Nodes
  <1>4. \A n \in Nodes : nodes[n] \in NodeType /\ n \in Nat
    BY <1>2, <1>3, ElementOfSeq
  <1> QED
    BY <1>1, <1>3, <1>4, DependencyAssumption DEF TypeOK, Scopes, ApplicationType

\* The innermost call, and the node it is for if it is not the first.
LEMMA Innermost ==
    ASSUME ShapeInv, frames # <<>>
    PROVE  /\ Len(frames) \in Nat \ {0} /\ Frame = frames[Len(frames)]
           /\ Frame \in FrameType /\ Front(frames) \in Seq(FrameType)
           /\ Len(Front(frames)) = Len(frames) - 1
           /\ DOMAIN Front(frames) = 1 .. Len(frames) - 1
           /\ \A k \in 1 .. Len(frames) - 1 : Front(frames)[k] = frames[k]
           /\ Uses(Frame) \in Seq(Site)
           /\ Len(frames) > 1 => /\ Waiting(Len(frames)) /\ Front(frames) # <<>>
                                 /\ Frame.node \in Nodes
                                 /\ \A k \in 1 .. Len(frames) - 1 : frames[k].node # Frame.node
  <1>1. frames \in Seq(FrameType)
    BY ShapeTypes
  <1>2. /\ Len(frames) \in Nat \ {0} /\ Frame = frames[Len(frames)]
        /\ Frame \in FrameType /\ Front(frames) \in Seq(FrameType)
        /\ Len(Front(frames)) = Len(frames) - 1
        /\ DOMAIN Front(frames) = 1 .. Len(frames) - 1
        /\ \A k \in 1 .. Len(frames) - 1 : Front(frames)[k] = frames[k]
    BY <1>1, FrontLast DEF Frame
  <1>3. Uses(Frame) \in Seq(Site)
    BY <1>2, ShapeTypes DEF Uses, FrameType
  <1>4. ASSUME Len(frames) > 1
        PROVE  /\ Waiting(Len(frames)) /\ Front(frames) # <<>> /\ Frame.node \in Nodes
               /\ \A k \in 1 .. Len(frames) - 1 : frames[k].node # Frame.node
    <2>0. Len(frames) \in DOMAIN frames
      BY <1>2, ShapeTypes
    <2>a. Waiting(Len(frames))
      BY <1>4, <2>0 DEF ShapeInv, Spine
    <2>1. Waiting(Len(frames)) /\ Frame.node \in Nodes
      BY <1>2, <2>a DEF Waiting
    <2>2. Front(frames) # <<>>
      BY <1>2, <1>4
    <2>3. ASSUME NEW k \in 1 .. Len(frames) - 1
          PROVE  frames[k].node # Frame.node
      <3>1. CASE k = 1
        <4>1. frames[k].node = None
          BY <3>1 DEF ShapeInv, Spine
        <4> QED
          BY <2>1, <4>1, ShapeTypes
      <3>2. CASE k > 1
        <4>1. k \in DOMAIN frames /\ Len(frames) \in DOMAIN frames /\ 1 < k /\ k < Len(frames)
          BY <1>2, <2>3, <3>2, ShapeTypes
        <4>2. frames[k].node < frames[Len(frames)].node
          BY <4>1 DEF ShapeInv, Spine
        <4>3. frames[k].node \in Nodes
          BY <3>2, <4>1 DEF ShapeInv, Spine, Waiting
        <4> QED
          BY <1>2, <2>1, <4>2, <4>3, ShapeTypes
      <3> QED
        BY <2>3, <3>1, <3>2
    <2> QED
      BY <2>1, <2>2, <2>3
  <1> QED
    BY <1>2, <1>3, <1>4

\* The calls below the innermost one, and the nodes they are for, stay.
LEMMA SpineKept ==
    ASSUME ShapeInv, app' = app, frames' \in Seq(FrameType),
           frames' # <<>> <=> phase' = "solving",
           Len(frames') <= Len(frames), Nodes \subseteq Nodes',
           \A k \in 1 .. Len(frames') :
              /\ frames'[k].node = frames[k].node /\ frames'[k].call = frames[k].call
              /\ k < Len(frames') => frames'[k] = frames[k],
           \A k \in 2 .. Len(frames') :
              LET n == frames[k].node IN
              /\ nodes'[n].call = nodes[n].call /\ nodes'[n].parent = nodes[n].parent
              /\ nodes'[n].dep = nodes[n].dep /\ nodes'[n].result = nodes[n].result
              /\ nodes'[n].setup = nodes[n].setup /\ nodes'[n].cleanup = nodes[n].cleanup
    PROVE  Spine'
  <1>1. /\ Len(frames') \in Nat /\ DOMAIN frames' = 1 .. Len(frames')
        /\ Len(frames) \in Nat /\ DOMAIN frames = 1 .. Len(frames)
        /\ DOMAIN frames' \subseteq DOMAIN frames
    BY ShapeTypes
  <1>2. frames' # <<>> => frames'[1].node = None /\ frames'[1].call = Route
    <2> SUFFICES ASSUME frames' # <<>>
                 PROVE  frames'[1].node = None /\ frames'[1].call = Route
      OBVIOUS
    <2>1. 1 \in 1 .. Len(frames')
      BY <1>1
    <2>2. frames # <<>>
      BY <1>1, <2>1
    <2> QED
      BY <2>1, <2>2 DEF ShapeInv, Spine
  <1>3. ASSUME NEW k \in DOMAIN frames', k > 1
        PROVE  Waiting(k)'
    <2>1. k \in 2 .. Len(frames') /\ k - 1 \in 1 .. Len(frames') /\ k - 1 < Len(frames')
      BY <1>1, <1>3
    <2>2. /\ frames'[k].node = frames[k].node /\ frames'[k].call = frames[k].call
          /\ frames'[k - 1] = frames[k - 1]
      BY <2>1
    <2>3. Waiting(k)
      BY <1>1, <1>3 DEF ShapeInv, Spine
    <2>4. Uses(frames[k - 1])' = Uses(frames[k - 1])
      BY <2>2 DEF Uses
    <2> QED
      BY <2>1, <2>2, <2>3, <2>4 DEF Waiting
  <1>4. ASSUME NEW j \in DOMAIN frames', NEW k \in DOMAIN frames', 1 < j, j < k
        PROVE  frames'[j].node < frames'[k].node
    BY <1>1, <1>4 DEF ShapeInv, Spine
  <1> QED
    BY <1>2, <1>3, <1>4 DEF Spine

-----------------------------------------------------------------------------
(* What each operation changes, element by element. *)

\* A segment begins.
LEMMA Begins ==
    ASSUME ShapeInv, open = None, NEW type \in {"setup", "cleanup"}, NEW n \in Nat,
           Begin(type, n)
    PROVE  /\ segments' \in Seq(SegmentType) /\ Len(segments') = Len(segments) + 1
           /\ \A k \in DOMAIN segments : segments'[k] = segments[k]
           /\ segments'[Len(segments) + 1].node = n
           /\ open' = Len(segments) + 1 /\ open' \in Nat
           /\ stack' \in Seq(Nat) /\ StackFollows'
  <1> DEFINE new == [type |-> type, node |-> n, recorded |-> ~finalized,
                     status |-> "incomplete"]
  <1>1. /\ segments \in Seq(SegmentType) /\ Len(segments) \in Nat
        /\ finalized \in BOOLEAN /\ stack = <<>> /\ None \notin Nat
    BY ShapeTypes, DependencyAssumption DEF ShapeInv, StackFollows
  <1>2. new \in SegmentType /\ new.node = n /\ new.recorded = ~finalized
    <2>1. (~finalized) \in BOOLEAN
      OBVIOUS
    <2> QED
      BY <2>1 DEF SegmentType, Statuses
  <1>3. /\ segments' = Append(segments, new) /\ open' = Len(segments) + 1
        /\ stack' = IF finalized THEN <<>> ELSE <<Len(segments) + 1>>
    BY <1>1 DEF Begin
  <1> HIDE DEF new
  <1>4. /\ segments' \in Seq(SegmentType) /\ Len(segments') = Len(segments) + 1
        /\ \A k \in DOMAIN segments : segments'[k] = segments[k]
        /\ segments'[Len(segments) + 1] = new
    BY <1>1, <1>2, <1>3, Appended
  <1>5. open' \in Nat /\ open' # None /\ stack' \in Seq(Nat)
    BY <1>1, <1>3
  <1>6. StackFollows'
    BY <1>1, <1>2, <1>3, <1>4, <1>5 DEF StackFollows
  <1> QED
    BY <1>2, <1>3, <1>4, <1>5, <1>6

\* A segment ends.
LEMMA Ends ==
    ASSUME ShapeInv, NEW status \in Statuses, End(status)
    PROVE  /\ open # None /\ open \in DOMAIN segments /\ open = Len(segments)
           /\ segments' \in Seq(SegmentType) /\ Len(segments') = Len(segments)
           /\ \A k \in DOMAIN segments \ {open} : segments'[k] = segments[k]
           /\ \A k \in DOMAIN segments : segments'[k].node = segments[k].node
           /\ ~finalized => segments'[open].status = status
           /\ open' = None /\ stack' = <<>>
  <1> DEFINE done == [segments[open] EXCEPT !.status = status]
  <1>1. /\ open # None /\ open = Len(segments) /\ open \in DOMAIN segments
        /\ segments \in Seq(SegmentType) /\ segments[open] \in SegmentType
    <2>1. open # None /\ open = Len(segments) /\ open > 0 /\ segments \in Seq(SegmentType)
      BY ShapeTypes DEF ShapeInv, Awaited, End
    <2>2. open \in DOMAIN segments
      BY <2>1, ShapeTypes
    <2> QED
      BY <2>1, <2>2, ElementOfSeq, ShapeTypes
  <1>2. /\ done \in SegmentType /\ done.node = segments[open].node /\ done.status = status
    BY <1>1 DEF SegmentType
  <1>3. /\ segments' = IF ~finalized THEN [segments EXCEPT ![open] = done] ELSE segments
        /\ open' = None /\ stack' = Restored
    BY DEF End, Finishes
  <1> HIDE DEF done
  <1>4. /\ segments' \in Seq(SegmentType) /\ Len(segments') = Len(segments)
        /\ \A k \in DOMAIN segments \ {open} : segments'[k] = segments[k]
        /\ \/ segments'[open] = segments[open] /\ finalized
           \/ segments'[open] = done /\ ~finalized
    BY <1>1, <1>2, <1>3, Changed
  <1>5. stack' = <<>>
    <2>1. stack = IF segments[open].recorded THEN <<open>> ELSE <<>>
      BY <1>1 DEF ShapeInv, StackFollows
    <2>2. Front(<<open>>) = <<>>
      <3>1. open \in Nat
        BY <1>1, ShapeTypes
      <3> DEFINE q == <<open>>
      <3>a. q \in Seq(Nat) /\ q # <<>> /\ Len(q) = 1
        BY <3>1
      <3> HIDE DEF q
      <3>b. Len(Front(q)) = 0 /\ Front(q) \in Seq(Nat)
        BY <3>a, FrontLast
      <3>2. Len(Front(<<open>>)) = 0 /\ Front(<<open>>) \in Seq(Nat)
        BY <3>b DEF q
      <3> QED
        BY <3>2, EmptySeq
    <2> QED
      BY <1>3, <2>1, <2>2 DEF Restored
  <1> QED
    BY <1>1, <1>2, <1>3, <1>4, <1>5

\* The fields of a node that its status, setup, cleanup and result leave alone.
SameUse(n) ==
    /\ nodes'[n].dep = nodes[n].dep /\ nodes'[n].call = nodes[n].call
    /\ nodes'[n].parent = nodes[n].parent

\* Node n alone changes.
NodeChanges(n) ==
    /\ n \in Nodes /\ SameUse(n)
    /\ nodes' \in Seq(NodeType) /\ Len(nodes') = Len(nodes) /\ Nodes' = Nodes
    /\ \A k \in Nodes \ {n} : nodes'[k] = nodes[k]

\* How the frames of the calls below the innermost one that stays are kept.
CallsKept ==
    /\ frames' \in Seq(FrameType) /\ Len(frames') <= Len(frames)
    /\ \A k \in 1 .. Len(frames') :
          /\ frames'[k].node = frames[k].node /\ frames'[k].call = frames[k].call
          /\ k < Len(frames') => frames'[k] = frames[k]

\* The innermost call is left, and the one below it goes on.
LEMMA CallReturns ==
    ASSUME ShapeInv, frames # <<>>, Len(frames) > 1, NEW invalid \in BOOLEAN,
           frames' = Advance(Front(frames), invalid)
    PROVE  /\ CallsKept /\ Len(frames') = Len(frames) - 1 /\ frames' # <<>>
           /\ frames'[Len(frames')].done = frames[Len(frames')].done + 1
  <1>1. /\ Front(frames) \in Seq(FrameType) /\ Front(frames) # <<>>
        /\ Len(Front(frames)) = Len(frames) - 1
        /\ \A k \in 1 .. Len(frames) - 1 : Front(frames)[k] = frames[k]
        /\ Len(frames) \in Nat
    BY Innermost
  <1>2. /\ frames' \in Seq(FrameType) /\ Len(frames') = Len(Front(frames))
        /\ \A k \in 1 .. Len(Front(frames)) - 1 : frames'[k] = Front(frames)[k]
        /\ frames'[Len(Front(frames))].call = Front(frames)[Len(Front(frames))].call
        /\ frames'[Len(Front(frames))].node = Front(frames)[Len(Front(frames))].node
        /\ frames'[Len(Front(frames))].done = Front(frames)[Len(Front(frames))].done + 1
    BY <1>1, Advanced
  <1>3. ASSUME NEW k \in 1 .. Len(frames')
        PROVE  /\ frames'[k].node = frames[k].node /\ frames'[k].call = frames[k].call
               /\ k < Len(frames') => frames'[k] = frames[k]
    <2>1. Front(frames)[k] = frames[k]
      BY <1>1, <1>2
    <2>2. CASE k = Len(frames')
      BY <1>1, <1>2, <2>1, <2>2
    <2>3. CASE k # Len(frames')
      <3>1. k \in 1 .. Len(Front(frames)) - 1
        BY <1>1, <1>2, <2>3
      <3> QED
        BY <1>2, <2>1, <3>1
    <2> QED
      BY <2>2, <2>3
  <1>4. Len(frames') \in 1 .. Len(frames) - 1 /\ frames' # <<>>
    BY <1>1, <1>2
  <1>5. Front(frames)[Len(frames')] = frames[Len(frames')]
    BY <1>1, <1>4
  <1> QED
    BY <1>1, <1>2, <1>3, <1>4, <1>5 DEF CallsKept

\* The innermost call goes on.
LEMMA CallGoesOn ==
    ASSUME ShapeInv, frames # <<>>, NEW invalid \in BOOLEAN,
           frames' = Advance(frames, invalid)
    PROVE  /\ CallsKept /\ Len(frames') = Len(frames) /\ frames' # <<>>
           /\ frames'[Len(frames')].done = frames[Len(frames')].done + 1
  <1>1. frames \in Seq(FrameType) /\ Len(frames) \in Nat \ {0}
    BY Innermost, ShapeTypes
  <1>2. /\ frames' \in Seq(FrameType) /\ Len(frames') = Len(frames)
        /\ \A k \in 1 .. Len(frames) - 1 : frames'[k] = frames[k]
        /\ frames'[Len(frames)].call = frames[Len(frames)].call
        /\ frames'[Len(frames)].node = frames[Len(frames)].node
        /\ frames'[Len(frames)].done = frames[Len(frames)].done + 1
    BY <1>1, Advanced
  <1>3. ASSUME NEW k \in 1 .. Len(frames')
        PROVE  /\ frames'[k].node = frames[k].node /\ frames'[k].call = frames[k].call
               /\ k < Len(frames') => frames'[k] = frames[k]
    <2>1. k = Len(frames) \/ k \in 1 .. Len(frames) - 1
      BY <1>1, <1>2
    <2> QED
      BY <1>1, <1>2, <2>1
  <1>4. frames' # <<>>
    BY <1>1, <1>2
  <1> QED
    BY <1>1, <1>2, <1>3, <1>4 DEF CallsKept

\* The status of a node, which looks into the cache.
LEMMA StatusFacts ==
    ASSUME ShapeInv, NEW site \in Site
    PROVE  LET status == CacheStatus(site) IN
           /\ status \in {"hit", "miss", "bypass"}
           /\ status = "hit" => cache[site.dep] # None
           /\ status = "miss" => cache[site.dep] = None
           /\ CachedFrom(status, site.dep) \in Ref \cup {External}
           /\ CachedFrom(status, site.dep) # None <=> status = "hit"
  <1>1. sources[site.dep] \in Ref /\ External # None
    BY ShapeTypes, DependencyAssumption DEF Site
  <1>2. /\ CacheStatus(site) \in {"hit", "miss", "bypass"}
        /\ CacheStatus(site) = "hit" => cache[site.dep] # None
        /\ CacheStatus(site) = "miss" => cache[site.dep] = None
    BY DEF CacheStatus
  <1>3. \A status : /\ CachedFrom(status, site.dep) \in Ref \cup {External}
                    /\ status = "hit" => CachedFrom(status, site.dep) # None
                    /\ status # "hit" => CachedFrom(status, site.dep) = None
    BY <1>1 DEF CachedFrom, Ref
  <1> QED
    BY <1>2, <1>3

\* A new node for a use, and the call that solves what it uses itself.
Descended(site) ==
    LET n == Len(nodes) + 1 IN
    /\ phase = "solving" /\ open = None /\ frames # <<>> /\ Frame.done < Len(Uses(Frame))
    /\ site \in Site /\ site = Uses(Frame)[Frame.done + 1]
    /\ nodes' \in Seq(NodeType) /\ Len(nodes') = n /\ Nodes' = Nodes \cup {n}
    /\ n \notin Nodes /\ \A k \in Nodes : nodes'[k] = nodes[k]
    /\ nodes'[n].dep = site.dep /\ nodes'[n].call = app.override[site.dep]
    /\ nodes'[n].parent = Frame.node /\ nodes'[n].status = CacheStatus(site)
    /\ nodes'[n].from = CachedFrom(CacheStatus(site), site.dep)
    /\ nodes'[n].setup = None /\ nodes'[n].cleanup = None /\ nodes'[n].result = None
    /\ frames' \in Seq(FrameType) /\ Len(frames') = Len(frames) + 1
    /\ \A k \in 1 .. Len(frames) : frames'[k] = frames[k]
    /\ frames'[Len(frames) + 1].node = n /\ frames'[Len(frames) + 1].done = 0
    /\ frames'[Len(frames) + 1].call = app.override[site.dep]
    /\ UNCHANGED <<app, phase, segments, cache, sources, open, stack, exits, finalized>>

LEMMA DescendDoes ==
    ASSUME ShapeInv, Descend
    PROVE  \E site \in Site : Descended(site)
  <1> DEFINE site == Uses(Frame)[Frame.done + 1]
             status == CacheStatus(site)
             n == Len(nodes) + 1
             node == [dep |-> site.dep, call |-> app.override[site.dep],
                      parent |-> Frame.node, status |-> status,
                      from |-> CachedFrom(status, site.dep), setup |-> None,
                      cleanup |-> None, recorded |-> ~finalized, result |-> None]
             frame == [call |-> app.override[site.dep], node |-> n, done |-> 0,
                       invalid |-> FALSE]
  <1>1. /\ phase = "solving" /\ open = None /\ frames # <<>>
        /\ Frame.done < Len(Uses(Frame))
        /\ nodes' = Append(nodes, node) /\ frames' = Append(frames, frame)
        /\ UNCHANGED <<app, phase, segments, cache, sources, open, stack, exits, finalized>>
    BY DEF Descend, ShapeInv, Spine
  <1>2. site \in Site
    <2>1. Frame \in FrameType /\ Uses(Frame) \in Seq(Site)
      BY <1>1, Innermost
    <2>2. Frame.done + 1 \in 1 .. Len(Uses(Frame)) /\ Len(Uses(Frame)) \in Nat
      BY <1>1, <2>1 DEF FrameType
    <2> QED
      BY <2>1, <2>2, ElementOfSeq
  <1>3. site.dep \in Deps /\ app.override[site.dep] \in Deps
    BY <1>2, ShapeTypes DEF Site
  <1>4. /\ status \in {"hit", "miss", "bypass"}
        /\ CachedFrom(status, site.dep) \in Ref \cup {External}
    BY <1>2, StatusFacts
  <1>5. Frame.node \in Ref /\ n \in Nat /\ None \in Ref
    BY <1>1, Innermost, ShapeTypes DEF FrameType, Ref
  <1>6. node \in NodeType
    <2>1. (~finalized) \in BOOLEAN
      OBVIOUS
    <2> HIDE DEF site, status, n
    <2> QED
      BY <1>3, <1>4, <1>5, <2>1 DEF NodeType
  <1>7. frame \in FrameType
    <2>1. n \in Ref
      BY <1>5 DEF Ref
    <2> QED
      BY <1>3, <2>1 DEF FrameType
  <1>8. /\ node.dep = site.dep /\ node.call = app.override[site.dep]
        /\ node.parent = Frame.node /\ node.status = status
        /\ node.from = CachedFrom(status, site.dep)
        /\ node.setup = None /\ node.cleanup = None /\ node.result = None
        /\ frame.node = n /\ frame.done = 0 /\ frame.call = app.override[site.dep]
    OBVIOUS
  <1> HIDE DEF node, frame
  <1>9. nodes \in Seq(NodeType) /\ frames \in Seq(FrameType)
    BY ShapeTypes
  <1>10. /\ nodes' \in Seq(NodeType) /\ Len(nodes') = n /\ Nodes = 1 .. Len(nodes)
         /\ Nodes' = 1 .. n /\ nodes'[n] = node /\ Len(nodes) \in Nat
         /\ \A k \in 1 .. Len(nodes) : nodes'[k] = nodes[k]
    BY <1>1, <1>6, <1>9, Appended DEF Nodes
  <1>11. /\ frames' \in Seq(FrameType) /\ Len(frames') = Len(frames) + 1
         /\ \A k \in 1 .. Len(frames) : frames'[k] = frames[k]
         /\ frames'[Len(frames) + 1] = frame
    BY <1>1, <1>7, <1>9, Appended
  <1>12. Nodes' = Nodes \cup {n} /\ n \notin Nodes
    BY <1>10
  <1> QED
    BY <1>1, <1>2, <1>8, <1>10, <1>11, <1>12 DEF Descended

\* The use of the innermost call, and what is found out about it.
LEMMA SiteFacts ==
    ASSUME ShapeInv, frames # <<>>, Len(frames) > 1
    PROVE  /\ SiteOf(Frame.node) \in Site
           /\ SiteOf(Frame.node).dep = nodes[Frame.node].dep
           /\ Frame.node \in Nodes
  <1> DEFINE f == frames[Len(frames) - 1]
  <1>1. /\ Len(frames) \in Nat /\ Frame = frames[Len(frames)] /\ Waiting(Len(frames))
        /\ Frame.node \in Nodes
    BY Innermost
  <1>2. /\ f.done < Len(Uses(f)) /\ nodes[Frame.node].dep = Uses(f)[f.done + 1].dep
        /\ SiteOf(Frame.node) = Uses(f)[f.done + 1]
    BY <1>1 DEF Waiting, SiteOf
  <1>3. f \in FrameType
    <2>1. Len(frames) - 1 \in DOMAIN frames
      BY <1>1, ShapeTypes
    <2> QED
      BY <2>1, ElementOfSeq, ShapeTypes
  <1>4. Uses(f) \in Seq(Site) /\ f.done \in Nat
    BY <1>3, ShapeTypes DEF Uses, FrameType
  <1> HIDE DEF f
  <1>5. Uses(f)[f.done + 1] \in Site
    <2>1. f.done + 1 \in 1 .. Len(Uses(f))
      BY <1>2, <1>4
    <2> QED
      BY <1>4, <2>1, ElementOfSeq
  <1> QED
    BY <1>1, <1>2, <1>5

\* The status of the innermost node is determined once more.
LEMMA DeterminedFacts ==
    ASSUME ShapeInv, frames # <<>>, Len(frames) > 1
    PROVE  LET n == Frame.node
               status == CacheStatus(SiteOf(n))
               node == Determined(n, status) IN
           /\ node \in NodeType /\ node.status = status
           /\ node.from = CachedFrom(status, node.dep)
           /\ node.dep = nodes[n].dep /\ node.call = nodes[n].call
           /\ node.parent = nodes[n].parent /\ node.setup = nodes[n].setup
           /\ node.cleanup = nodes[n].cleanup /\ node.result = nodes[n].result
  <1> DEFINE n == Frame.node
             status == CacheStatus(SiteOf(n))
             from == CachedFrom(status, nodes[n].dep)
  <1>1. SiteOf(n) \in Site /\ SiteOf(n).dep = nodes[n].dep /\ n \in Nodes
    BY SiteFacts
  <1>2. status \in {"hit", "miss", "bypass"} /\ from \in Ref \cup {External}
    BY <1>1, StatusFacts
  <1>3. nodes[n] \in NodeType
    BY <1>1, ShapeTypes
  <1>4. Determined(n, status) = [nodes[n] EXCEPT !.status = status, !.from = from]
    BY DEF Determined
  <1> HIDE DEF n, status, from
  <1>5. Determined(n, status) \in NodeType
    BY <1>2, <1>3, <1>4 DEF NodeType
  <1>6. /\ Determined(n, status).status = status /\ Determined(n, status).from = from
        /\ Determined(n, status).dep = nodes[n].dep
        /\ Determined(n, status).call = nodes[n].call
        /\ Determined(n, status).parent = nodes[n].parent
        /\ Determined(n, status).setup = nodes[n].setup
        /\ Determined(n, status).cleanup = nodes[n].cleanup
        /\ Determined(n, status).result = nodes[n].result
    BY <1>3, <1>4 DEF NodeType
  <1> QED
    BY <1>5, <1>6 DEF n, status, from

\* A node takes its result from the cache.
TookCached(n) ==
    /\ phase = "solving" /\ open = None /\ frames # <<>> /\ Len(frames) > 1
    /\ n = Frame.node /\ Frame.done = Len(Uses(Frame))
    /\ NodeChanges(n) /\ cache[nodes[n].dep] # None
    /\ nodes'[n].status = "hit" /\ nodes'[n].from = CachedFrom("hit", nodes[n].dep)
    /\ nodes'[n].setup = nodes[n].setup /\ nodes'[n].cleanup = nodes[n].cleanup
    /\ nodes'[n].result = cache[nodes[n].dep]
    /\ CallsKept /\ Len(frames') = Len(frames) - 1 /\ frames' # <<>>
    /\ frames'[Len(frames')].done = frames[Len(frames')].done + 1
    /\ UNCHANGED <<app, phase, segments, cache, sources, open, stack, exits, finalized>>

LEMMA TakeCachedDoes ==
    ASSUME ShapeInv, TakeCached
    PROVE  TookCached(Frame.node)
  <1> DEFINE n == Frame.node
             status == CacheStatus(SiteOf(n))
             node == Determined(n, status)
             solved == [node EXCEPT !.result = cache[nodes[n].dep]]
  <1>1. /\ phase = "solving" /\ open = None /\ frames # <<>> /\ Len(frames) > 1
        /\ status = "hit" /\ nodes' = [nodes EXCEPT ![n] = solved]
        /\ Frame.done = Len(Uses(Frame))
        /\ frames' = Advance(Front(frames), FALSE)
        /\ UNCHANGED <<app, phase, segments, cache, sources, open, stack, exits, finalized>>
    BY DEF TakeCached, Solves, ShapeInv, Spine
  <1>2. SiteOf(n) \in Site /\ SiteOf(n).dep = nodes[n].dep /\ n \in Nodes
    BY <1>1, SiteFacts
  <1>3. cache[nodes[n].dep] # None /\ cache[nodes[n].dep] \in Ref \cup {External}
    BY <1>1, <1>2, StatusFacts, ShapeTypes DEF Site
  <1>4. /\ node \in NodeType /\ node.status = status
        /\ node.from = CachedFrom(status, node.dep)
        /\ node.dep = nodes[n].dep /\ node.call = nodes[n].call
        /\ node.parent = nodes[n].parent /\ node.setup = nodes[n].setup
        /\ node.cleanup = nodes[n].cleanup
    BY <1>1, DeterminedFacts
  <1> HIDE DEF node, n, status
  <1>5. /\ solved \in NodeType /\ solved.result = cache[nodes[n].dep]
        /\ solved.status = node.status /\ solved.from = node.from
        /\ solved.dep = node.dep /\ solved.call = node.call
        /\ solved.parent = node.parent /\ solved.setup = node.setup
        /\ solved.cleanup = node.cleanup
    BY <1>3, <1>4 DEF NodeType
  <1> HIDE DEF solved
  <1>6. /\ nodes' \in Seq(NodeType) /\ Len(nodes') = Len(nodes) /\ Nodes' = Nodes
        /\ nodes'[n] = solved /\ \A k \in Nodes \ {n} : nodes'[k] = nodes[k]
    BY <1>1, <1>2, <1>5, Changed, ShapeTypes DEF Nodes
  <1>7. NodeChanges(n)
    BY <1>2, <1>4, <1>5, <1>6 DEF NodeChanges, SameUse
  <1>8. /\ CallsKept /\ Len(frames') = Len(frames) - 1 /\ frames' # <<>>
        /\ frames'[Len(frames')].done = frames[Len(frames')].done + 1
    BY <1>1, CallReturns
  <1> QED
    BY <1>1, <1>3, <1>4, <1>5, <1>6, <1>7, <1>8 DEF TookCached, n

\* A node is executed, in a segment that begins.
Executes(n) ==
    /\ phase = "solving" /\ open = None /\ frames # <<>> /\ Len(frames) > 1
    /\ n = Frame.node /\ Frame.done = Len(Uses(Frame)) /\ NodeChanges(n)
    /\ nodes'[n].status \in {"miss", "bypass"} /\ nodes'[n].from = None
    /\ nodes'[n].status = "miss" => cache[nodes[n].dep] = None
    /\ nodes'[n].setup = Len(segments) + 1 /\ nodes'[n].cleanup = nodes[n].cleanup
    /\ nodes'[n].result = nodes[n].result
    /\ segments' \in Seq(SegmentType) /\ Len(segments') = Len(segments) + 1
    /\ \A k \in DOMAIN segments : segments'[k] = segments[k]
    /\ segments'[Len(segments) + 1].node = n
    /\ open' = Len(segments) + 1 /\ open' \in Nat /\ stack' \in Seq(Nat) /\ StackFollows'
    /\ CallsKept /\ Len(frames') = Len(frames) - 1 /\ frames' # <<>>
    /\ frames'[Len(frames')] = frames[Len(frames')]
    /\ UNCHANGED <<app, phase, cache, sources, exits, finalized>>

LEMMA ExecuteDoes ==
    ASSUME ShapeInv, Execute
    PROVE  Executes(Frame.node)
  <1> DEFINE n == Frame.node
             status == CacheStatus(SiteOf(n))
             node == Determined(n, status)
             begun == [node EXCEPT !.setup = Len(segments) + 1]
  <1>1. /\ phase = "solving" /\ open = None /\ frames # <<>> /\ Len(frames) > 1
        /\ status # "hit" /\ nodes' = [nodes EXCEPT ![n] = begun]
        /\ Frame.done = Len(Uses(Frame))
        /\ Begin("setup", n) /\ frames' = Front(frames)
        /\ UNCHANGED <<app, phase, cache, sources, exits, finalized>>
    BY DEF Execute, Solves, ShapeInv, Spine
  <1>2. SiteOf(n) \in Site /\ SiteOf(n).dep = nodes[n].dep /\ n \in Nodes /\ n \in Nat
    BY <1>1, SiteFacts, ShapeTypes
  <1>3. /\ status \in {"miss", "bypass"}
        /\ status = "miss" => cache[nodes[n].dep] = None
        /\ CachedFrom(status, nodes[n].dep) = None
    BY <1>1, <1>2, StatusFacts
  <1>4. /\ node \in NodeType /\ node.status = status
        /\ node.from = CachedFrom(status, node.dep)
        /\ node.dep = nodes[n].dep /\ node.call = nodes[n].call
        /\ node.parent = nodes[n].parent /\ node.result = nodes[n].result
        /\ node.cleanup = nodes[n].cleanup
    BY <1>1, DeterminedFacts
  <1> HIDE DEF node, n, status
  <1>5. /\ begun \in NodeType /\ begun.setup = Len(segments) + 1
        /\ begun.status = node.status /\ begun.from = node.from
        /\ begun.dep = node.dep /\ begun.call = node.call
        /\ begun.parent = node.parent /\ begun.result = node.result
        /\ begun.cleanup = node.cleanup
    <2>1. Len(segments) + 1 \in Ref
      BY ShapeTypes DEF Ref
    <2> QED
      BY <1>4, <2>1 DEF NodeType
  <1> HIDE DEF begun
  <1>6. /\ nodes' \in Seq(NodeType) /\ Len(nodes') = Len(nodes) /\ Nodes' = Nodes
        /\ nodes'[n] = begun /\ \A k \in Nodes \ {n} : nodes'[k] = nodes[k]
    BY <1>1, <1>2, <1>5, Changed, ShapeTypes DEF Nodes
  <1>7. NodeChanges(n)
    BY <1>2, <1>4, <1>5, <1>6 DEF NodeChanges, SameUse
  <1>8. /\ CallsKept /\ Len(frames') = Len(frames) - 1 /\ frames' # <<>>
        /\ frames'[Len(frames')] = frames[Len(frames')]
    <2>1. /\ Front(frames) \in Seq(FrameType) /\ Front(frames) # <<>>
          /\ Len(Front(frames)) = Len(frames) - 1 /\ Len(frames) \in Nat
          /\ \A k \in 1 .. Len(frames) - 1 : Front(frames)[k] = frames[k]
      BY <1>1, Innermost
    <2> QED
      BY <1>1, <2>1 DEF CallsKept
  <1>9. /\ segments' \in Seq(SegmentType) /\ Len(segments') = Len(segments) + 1
        /\ \A k \in DOMAIN segments : segments'[k] = segments[k]
        /\ segments'[Len(segments) + 1].node = n
        /\ open' = Len(segments) + 1 /\ open' \in Nat /\ stack' \in Seq(Nat) /\ StackFollows'
    BY <1>1, <1>2, Begins
  <1> QED
    BY <1>1, <1>3, <1>4, <1>5, <1>6, <1>7, <1>8, <1>9 DEF Executes, n

\* The callable returned: the node has its result, and the cache may take it.
Finished(n) ==
    /\ phase = "solving" /\ open # None /\ n = segments[open].node /\ Executing(n)
    /\ frames # <<>> /\ NodeChanges(n)
    /\ nodes'[n].status = nodes[n].status /\ nodes'[n].from = nodes[n].from
    /\ nodes'[n].setup = nodes[n].setup /\ nodes'[n].cleanup = nodes[n].cleanup
    /\ nodes'[n].result = n
    /\ segments' \in Seq(SegmentType) /\ Len(segments') = Len(segments)
    /\ \A k \in DOMAIN segments \ {open} : segments'[k] = segments[k]
    /\ \A k \in DOMAIN segments : segments'[k].node = segments[k].node
    /\ ~finalized => segments'[open].status # "incomplete"
    /\ open' = None /\ stack' = <<>>
    /\ \A d \in Deps : \/ /\ d = nodes[n].dep /\ cache[d] = None
                          /\ cache'[d] = n /\ sources'[d] = n
                       \/ /\ d = nodes[n].dep => cache[d] # None
                          /\ cache'[d] = cache[d] /\ sources'[d] = sources[d]
    /\ cache' \in [Deps -> Ref \cup {External}] /\ sources' \in [Deps -> Ref]
    /\ exits' \in [Scopes -> Seq(Nat)] /\ StackOf(n) \in Scopes
    /\ \A s \in Scopes : exits'[s] = IF s = StackOf(n) /\ IsGenerator(n)
                                     THEN Append(exits[s], n) ELSE exits[s]
    /\ CallsKept /\ Len(frames') = Len(frames) /\ frames' # <<>>
    /\ frames'[Len(frames')].done = frames[Len(frames')].done + 1
    /\ UNCHANGED <<app, phase, finalized>>

LEMMA ExecutedDoes ==
    ASSUME ShapeInv, Executed
    PROVE  Finished(segments[open].node)
  <1> DEFINE n == segments[open].node
             solved == [nodes[n] EXCEPT !.result = n]
             d == nodes[n].dep
  <1>1. /\ phase = "solving" /\ frames # <<>> /\ End("ok")
        /\ nodes' = [nodes EXCEPT ![n] = solved]
        /\ exits' = IF nodes[n].call \in app.generators
                    THEN [exits EXCEPT ![StackOf(n)] = Append(exits[StackOf(n)], n)]
                    ELSE exits
        /\ cache' = IF cache[d] = None THEN [cache EXCEPT ![d] = n] ELSE cache
        /\ sources' = IF cache[d] = None THEN [sources EXCEPT ![d] = n] ELSE sources
        /\ frames' = Advance(frames, FALSE)
        /\ UNCHANGED <<app, phase, finalized>>
    BY DEF Executed, ShapeInv, Spine, IsStored, Source
  <1>2. /\ open # None /\ open \in DOMAIN segments
        /\ segments' \in Seq(SegmentType) /\ Len(segments') = Len(segments)
        /\ \A k \in DOMAIN segments \ {open} : segments'[k] = segments[k]
        /\ \A k \in DOMAIN segments : segments'[k].node = segments[k].node
        /\ ~finalized => segments'[open].status = "ok"
        /\ open' = None /\ stack' = <<>>
    <2>1. "ok" \in Statuses
      BY DEF Statuses
    <2> QED
      BY <1>1, <2>1, Ends
  <1>3. Executing(n)
    BY <1>1, <1>2 DEF ShapeInv, Awaited
  <1>4. n \in Nodes /\ nodes[n] \in NodeType /\ n \in Ref /\ n \in Nat
    BY <1>3, ShapeTypes DEF Executing, Ref
  <1>5. d \in Deps /\ StackOf(n) \in Scopes
    BY <1>4, ShapeTypes DEF NodeType, StackOf
  <1> HIDE DEF n
  <1>6. /\ solved \in NodeType /\ solved.result = n /\ solved.status = nodes[n].status
        /\ solved.from = nodes[n].from /\ solved.setup = nodes[n].setup
        /\ solved.cleanup = nodes[n].cleanup /\ solved.dep = nodes[n].dep
        /\ solved.call = nodes[n].call /\ solved.parent = nodes[n].parent
    BY <1>4 DEF NodeType
  <1> HIDE DEF solved
  <1>7. /\ nodes' \in Seq(NodeType) /\ Len(nodes') = Len(nodes) /\ Nodes' = Nodes
        /\ nodes'[n] = solved /\ \A k \in Nodes \ {n} : nodes'[k] = nodes[k]
    BY <1>1, <1>4, <1>6, Changed, ShapeTypes DEF Nodes
  <1>8. NodeChanges(n)
    BY <1>4, <1>6, <1>7 DEF NodeChanges, SameUse
  <1>9. /\ CallsKept /\ Len(frames') = Len(frames) /\ frames' # <<>>
        /\ frames'[Len(frames')].done = frames[Len(frames')].done + 1
    BY <1>1, CallGoesOn
  <1>10. /\ \A e \in Deps : \/ /\ e = d /\ cache[e] = None /\ cache'[e] = n /\ sources'[e] = n
                            \/ /\ e = d => cache[e] # None
                               /\ cache'[e] = cache[e] /\ sources'[e] = sources[e]
         /\ cache' \in [Deps -> Ref \cup {External}] /\ sources' \in [Deps -> Ref]
    BY <1>1, <1>4, <1>5, ShapeTypes
  <1>11. /\ exits' \in [Scopes -> Seq(Nat)]
         /\ \A s \in Scopes : exits'[s] = IF s = StackOf(n) /\ IsGenerator(n)
                                          THEN Append(exits[s], n) ELSE exits[s]
    <2>1. exits \in [Scopes -> Seq(Nat)]
      BY ShapeTypes
    <2>2. Append(exits[StackOf(n)], n) \in Seq(Nat)
      BY <1>4, <1>5, <2>1, Appended
    <2> QED
      BY <1>1, <1>5, <2>1, <2>2 DEF IsGenerator
  <1> QED
    BY <1>1, <1>2, <1>3, <1>5, <1>6, <1>7, <1>8, <1>9, <1>10, <1>11 DEF Finished, n

\* A generator is cleaned up, in a segment that begins.
Cleans(n) ==
    /\ phase = "closing" /\ open = None /\ Unwinding \in Scopes
    /\ exits[Unwinding] # <<>> /\ n = Last(exits[Unwinding]) /\ NodeChanges(n)
    /\ nodes'[n].status = nodes[n].status /\ nodes'[n].from = nodes[n].from
    /\ nodes'[n].setup = nodes[n].setup /\ nodes'[n].cleanup = Len(segments) + 1
    /\ nodes'[n].result = nodes[n].result
    /\ segments' \in Seq(SegmentType) /\ Len(segments') = Len(segments) + 1
    /\ \A k \in DOMAIN segments : segments'[k] = segments[k]
    /\ open' = Len(segments) + 1 /\ open' \in Nat /\ stack' \in Seq(Nat) /\ StackFollows'
    /\ exits' \in [Scopes -> Seq(Nat)] /\ exits'[Unwinding] = Front(exits[Unwinding])
    /\ \A s \in Scopes \ {Unwinding} : exits'[s] = exits[s]
    /\ UNCHANGED <<app, phase, frames, cache, sources, finalized>>

LEMMA CleanDoes ==
    ASSUME ShapeInv, Clean
    PROVE  Cleans(Last(exits[Unwinding]))
  <1> DEFINE n == Last(exits[Unwinding])
             cleaned == [nodes[n] EXCEPT !.cleanup = Len(segments) + 1]
             u == Unwinding
  <1>1. /\ phase = "closing" /\ open = None /\ exits[u] # <<>>
        /\ nodes' = [nodes EXCEPT ![n] = cleaned] /\ Begin("cleanup", n)
        /\ exits' = [exits EXCEPT ![u] = Front(exits[u])]
        /\ UNCHANGED <<app, phase, frames, cache, sources, finalized>>
    BY DEF Clean
  <1>2. u \in Scopes /\ exits \in [Scopes -> Seq(Nat)]
    BY ShapeTypes DEF Unwinding, Scopes
  <1>3. /\ Len(exits[u]) \in DOMAIN exits[u] /\ n = exits[u][Len(exits[u])]
        /\ Front(exits[u]) \in Seq(Nat)
    <2>1. exits[u] \in Seq(Nat)
      BY <1>2
    <2>2. /\ Len(exits[u]) \in Nat \ {0} /\ DOMAIN exits[u] = 1 .. Len(exits[u])
          /\ Last(exits[u]) = exits[u][Len(exits[u])] /\ Front(exits[u]) \in Seq(Nat)
      BY <1>1, <2>1, FrontLast
    <2> QED
      BY <2>2
  <1>4. n \in Nodes
    BY <1>2, <1>3 DEF ShapeInv, Named
  <1>5. nodes[n] \in NodeType /\ n \in Nat
    BY <1>4, ShapeTypes
  <1> HIDE DEF n, u
  <1>6. /\ cleaned \in NodeType /\ cleaned.cleanup = Len(segments) + 1
        /\ cleaned.status = nodes[n].status /\ cleaned.from = nodes[n].from
        /\ cleaned.setup = nodes[n].setup /\ cleaned.result = nodes[n].result
        /\ cleaned.dep = nodes[n].dep /\ cleaned.call = nodes[n].call
        /\ cleaned.parent = nodes[n].parent
    <2>1. Len(segments) + 1 \in Ref
      BY ShapeTypes DEF Ref
    <2> QED
      BY <1>5, <2>1 DEF NodeType
  <1> HIDE DEF cleaned
  <1>7. /\ nodes' \in Seq(NodeType) /\ Len(nodes') = Len(nodes) /\ Nodes' = Nodes
        /\ nodes'[n] = cleaned /\ \A k \in Nodes \ {n} : nodes'[k] = nodes[k]
    BY <1>1, <1>4, <1>6, Changed, ShapeTypes DEF Nodes
  <1>8. NodeChanges(n)
    BY <1>4, <1>6, <1>7 DEF NodeChanges, SameUse
  <1>9. /\ segments' \in Seq(SegmentType) /\ Len(segments') = Len(segments) + 1
        /\ \A k \in DOMAIN segments : segments'[k] = segments[k]
        /\ open' = Len(segments) + 1 /\ open' \in Nat /\ stack' \in Seq(Nat) /\ StackFollows'
    BY <1>1, <1>5, Begins
  <1>10. /\ exits' \in [Scopes -> Seq(Nat)] /\ exits'[u] = Front(exits[u])
         /\ \A s \in Scopes \ {u} : exits'[s] = exits[s]
    BY <1>1, <1>2, <1>3
  <1> QED
    BY <1>1, <1>2, <1>6, <1>7, <1>8, <1>9, <1>10 DEF Cleans, n, u

-----------------------------------------------------------------------------
(* The shape is kept. *)

LEMMA DescendShape ==
    ASSUME ShapeInv, NEW site \in Site, Descended(site)
    PROVE  ShapeInv'
  <1> DEFINE n == Len(nodes) + 1
             L == Len(frames)
  <1>1. /\ nodes' \in Seq(NodeType) /\ Nodes' = Nodes \cup {n} /\ n \notin Nodes
        /\ \A k \in Nodes : nodes'[k] = nodes[k]
        /\ nodes'[n].dep = site.dep /\ nodes'[n].call = app.override[site.dep]
        /\ nodes'[n].parent = Frame.node /\ nodes'[n].result = None
        /\ nodes'[n].setup = None /\ nodes'[n].cleanup = None
    BY DEF Descended
  <1>2. /\ phase = "solving" /\ open = None /\ frames # <<>> /\ Frame.done < Len(Uses(Frame))
        /\ site = Uses(Frame)[Frame.done + 1]
        /\ frames' \in Seq(FrameType) /\ Len(frames') = L + 1
        /\ \A k \in 1 .. L : frames'[k] = frames[k]
        /\ frames'[L + 1].node = n /\ frames'[L + 1].call = app.override[site.dep]
        /\ UNCHANGED <<app, phase, segments, cache, sources, open, stack, exits, finalized>>
    BY DEF Descended
  <1>3. /\ L \in Nat \ {0} /\ Frame = frames[L] /\ DOMAIN frames = 1 .. L
        /\ DOMAIN frames' = 1 .. L + 1 /\ Len(nodes) \in Nat /\ Nodes = 1 .. Len(nodes)
    BY <1>2, Innermost, ShapeTypes
  <1>4. TypeOK'
    BY <1>1, <1>2 DEF ShapeInv, TypeOK
  <1>5. \A k \in DOMAIN frames : frames[k].node \in Nodes \/ k = 1
    BY <1>3 DEF ShapeInv, Spine, Waiting
  <1>6. Spine'
    <2>1. frames' # <<>> /\ frames'[1].node = None /\ frames'[1].call = Route
      BY <1>2, <1>3 DEF ShapeInv, Spine
    <2>2. ASSUME NEW k \in DOMAIN frames', k > 1
          PROVE  Waiting(k)'
      <3>1. frames'[k - 1] = frames[k - 1]
        BY <1>2, <1>3, <2>2
      <3>2. Uses(frames[k - 1])' = Uses(frames[k - 1])
        BY <1>2, <3>1 DEF Uses
      <3>3. CASE k \in DOMAIN frames
        <4>1. Waiting(k)
          BY <2>2, <3>3 DEF ShapeInv, Spine
        <4>2. frames'[k] = frames[k]
          BY <1>2, <1>3, <3>3
        <4> QED
          BY <1>1, <3>1, <3>2, <4>1, <4>2 DEF Waiting
      <3>4. CASE k = L + 1
        <4>1. k - 1 = L
          BY <1>3, <3>4
        <4>2. frames'[k - 1] = Frame
          BY <1>3, <3>1, <4>1
        <4>3. Uses(frames[k - 1])' = Uses(Frame)
          BY <1>3, <3>2, <4>1
        <4>4. frames'[k].node = n /\ frames'[k].call = app.override[site.dep]
          BY <1>2, <3>4
        <4> HIDE DEF n, L
        <4> QED
          BY <1>1, <1>2, <4>2, <4>3, <4>4 DEF Waiting
      <3> QED
        BY <1>3, <2>2, <3>3, <3>4
    <2>3. ASSUME NEW j \in DOMAIN frames', NEW k \in DOMAIN frames', 1 < j, j < k
          PROVE  frames'[j].node < frames'[k].node
      <3>1. j \in DOMAIN frames /\ frames'[j] = frames[j] /\ frames[j].node \in Nodes
        BY <1>2, <1>3, <1>5, <2>3
      <3>2. CASE k \in DOMAIN frames
        BY <1>2, <1>3, <2>3, <3>1, <3>2 DEF ShapeInv, Spine
      <3>3. CASE k = L + 1
        BY <1>2, <1>3, <3>1, <3>3
      <3> QED
        BY <1>3, <2>3, <3>2, <3>3
    <2> QED
      BY <1>2, <2>1, <2>2, <2>3 DEF Spine
  <1>7. Awaited'
    BY <1>2 DEF Awaited
  <1>8. Named'
    BY <1>1, <1>2 DEF ShapeInv, Named
  <1>9. StackFollows'
    BY <1>2 DEF ShapeInv, StackFollows
  <1> QED
    BY <1>4, <1>6, <1>7, <1>8, <1>9 DEF ShapeInv

\* Names are kept by a step that changes no use and adds no exit.
LEMMA NamedKept ==
    ASSUME ShapeInv, app' = app, Nodes' = Nodes, \A k \in Nodes : SameUse(k),
           exits' = exits
    PROVE  Named'
  BY DEF ShapeInv, Named, SameUse

\* A node that changes is the only one.
LEMMA UsesStay ==
    ASSUME NEW n, NodeChanges(n)
    PROVE  /\ \A k \in Nodes : SameUse(k)
           /\ Nodes' = Nodes /\ nodes' \in Seq(NodeType)
  BY DEF NodeChanges, SameUse

LEMMA ReturnInvalidShape ==
    ASSUME ShapeInv, ReturnInvalid
    PROVE  ShapeInv'
  <1>1. /\ phase = "solving" /\ open = None /\ frames # <<>> /\ Len(frames) > 1
        /\ frames' = Advance(Front(frames), TRUE)
        /\ UNCHANGED <<app, phase, nodes, segments, cache, sources, open, stack, exits,
                       finalized>>
    BY DEF ReturnInvalid, Solves, ShapeInv, Spine
  <1>2. CallsKept /\ frames' # <<>>
    BY <1>1, CallReturns
  <1>3. TypeOK'
    BY <1>1, <1>2 DEF ShapeInv, TypeOK, CallsKept
  <1>4. Spine'
    BY <1>1, <1>2, SpineKept DEF CallsKept, Nodes
  <1> QED
    BY <1>1, <1>3, <1>4
       DEF ShapeInv, Awaited, Named, StackFollows, Nodes

LEMMA TakeCachedShape ==
    ASSUME ShapeInv, NEW n, TookCached(n)
    PROVE  ShapeInv'
  <1>1. /\ phase = "solving" /\ open = None /\ frames # <<>> /\ Len(frames) > 1
        /\ n = Frame.node /\ NodeChanges(n)
        /\ CallsKept /\ Len(frames') = Len(frames) - 1 /\ frames' # <<>>
        /\ UNCHANGED <<app, phase, segments, cache, sources, open, stack, exits, finalized>>
    BY DEF TookCached
  <1>2. (\A k \in Nodes : SameUse(k)) /\ Nodes' = Nodes /\ nodes' \in Seq(NodeType)
    BY <1>1, UsesStay
  <1>3. \A k \in 2 .. Len(frames') : nodes'[frames[k].node] = nodes[frames[k].node]
    <2> SUFFICES ASSUME NEW k \in 2 .. Len(frames')
                 PROVE  nodes'[frames[k].node] = nodes[frames[k].node]
      OBVIOUS
    <2>1. k \in 1 .. Len(frames) - 1 /\ k \in DOMAIN frames /\ k > 1
      BY <1>1, ShapeTypes
    <2>2. frames[k].node \in Nodes /\ frames[k].node # n
      BY <1>1, <2>1, Innermost DEF ShapeInv, Spine, Waiting
    <2> QED
      BY <1>1, <2>2 DEF NodeChanges
  <1>4. Spine'
    BY <1>1, <1>2, <1>3, SpineKept DEF CallsKept
  <1>5. TypeOK'
    BY <1>1, <1>2 DEF ShapeInv, TypeOK, CallsKept
  <1>6. Named'
    BY <1>1, <1>2, NamedKept
  <1> QED
    BY <1>1, <1>4, <1>5, <1>6 DEF ShapeInv, Awaited, StackFollows

LEMMA ExecuteShape ==
    ASSUME ShapeInv, NEW n, Executes(n)
    PROVE  ShapeInv'
  <1>1. /\ phase = "solving" /\ open = None /\ frames # <<>> /\ Len(frames) > 1
        /\ n = Frame.node /\ NodeChanges(n)
        /\ CallsKept /\ Len(frames') = Len(frames) - 1 /\ frames' # <<>>
        /\ frames'[Len(frames')] = frames[Len(frames')]
        /\ segments' \in Seq(SegmentType) /\ Len(segments') = Len(segments) + 1
        /\ segments'[Len(segments) + 1].node = n
        /\ open' = Len(segments) + 1 /\ open' \in Nat /\ stack' \in Seq(Nat) /\ StackFollows'
        /\ UNCHANGED <<app, phase, cache, sources, exits, finalized>>
    BY DEF Executes
  <1>2. (\A k \in Nodes : SameUse(k)) /\ Nodes' = Nodes /\ nodes' \in Seq(NodeType)
    BY <1>1, UsesStay
  <1>3. \A k \in 2 .. Len(frames') : nodes'[frames[k].node] = nodes[frames[k].node]
    <2> SUFFICES ASSUME NEW k \in 2 .. Len(frames')
                 PROVE  nodes'[frames[k].node] = nodes[frames[k].node]
      OBVIOUS
    <2>1. k \in 1 .. Len(frames) - 1 /\ k \in DOMAIN frames /\ k > 1
      BY <1>1, ShapeTypes
    <2>2. frames[k].node \in Nodes /\ frames[k].node # n
      BY <1>1, <2>1, Innermost DEF ShapeInv, Spine, Waiting
    <2> QED
      BY <1>1, <2>2 DEF NodeChanges
  <1>4. Spine'
    BY <1>1, <1>2, <1>3, SpineKept DEF CallsKept
  <1>5. TypeOK'
    BY <1>1, <1>2 DEF ShapeInv, TypeOK, CallsKept, Ref
  <1>6. Named'
    BY <1>1, <1>2, NamedKept
  <1>7. Executing(n)'
    <2>1. Waiting(Len(frames)) /\ Frame = frames[Len(frames)] /\ Len(frames) \in Nat
      BY <1>1, Innermost
    <2>2. Frame' = frames[Len(frames) - 1]
      BY <1>1, <2>1 DEF Frame, Last
    <2>3. Uses(Frame)' = Uses(frames[Len(frames) - 1])
      BY <1>1, <2>2 DEF Uses
    <2>4. /\ nodes'[n].setup = open' /\ nodes'[n].result = None /\ nodes'[n].cleanup = None
          /\ nodes'[n].parent = nodes[n].parent /\ nodes'[n].dep = nodes[n].dep
          /\ n \in Nodes'
      BY <1>1, <2>1 DEF Executes, Waiting, NodeChanges, SameUse
    <2> QED
      BY <1>1, <2>1, <2>2, <2>3, <2>4 DEF Executing, Waiting
  <1>8. Awaited'
    BY <1>1, <1>7, ShapeTypes DEF Awaited
  <1> QED
    BY <1>1, <1>4, <1>5, <1>6, <1>8 DEF ShapeInv

LEMMA ExecutedShape ==
    ASSUME ShapeInv, NEW n, Finished(n)
    PROVE  ShapeInv'
  <1>1. /\ phase = "solving" /\ open # None /\ n = segments[open].node /\ Executing(n)
        /\ frames # <<>> /\ NodeChanges(n)
        /\ segments' \in Seq(SegmentType) /\ open' = None /\ stack' = <<>>
        /\ cache' \in [Deps -> Ref \cup {External}] /\ sources' \in [Deps -> Ref]
        /\ exits' \in [Scopes -> Seq(Nat)]
        /\ CallsKept /\ Len(frames') = Len(frames) /\ frames' # <<>>
        /\ UNCHANGED <<app, phase, finalized>>
    BY DEF Finished
  <1>2. (\A k \in Nodes : SameUse(k)) /\ Nodes' = Nodes /\ nodes' \in Seq(NodeType)
    BY <1>1, UsesStay
  <1>3. \A k \in 2 .. Len(frames') : nodes'[frames[k].node] = nodes[frames[k].node]
    <2> SUFFICES ASSUME NEW k \in 2 .. Len(frames')
                 PROVE  nodes'[frames[k].node] = nodes[frames[k].node]
      OBVIOUS
    <2>1. k \in DOMAIN frames /\ k > 1
      BY <1>1, ShapeTypes
    <2>2. frames[k].node \in Nodes /\ nodes[frames[k].node].setup = None
      BY <2>1 DEF ShapeInv, Spine, Waiting
    <2>3. frames[k].node # n
      BY <1>1, <2>2 DEF Executing
    <2> QED
      BY <1>1, <2>2, <2>3 DEF NodeChanges
  <1>4. Spine'
    BY <1>1, <1>2, <1>3, SpineKept DEF CallsKept
  <1>5. TypeOK'
    BY <1>1, <1>2 DEF ShapeInv, TypeOK, CallsKept, Ref, Scopes
  <1>6. Named'
    <2>1. \A k \in Nodes' : nodes'[k].call = app'.override[nodes'[k].dep]
      BY <1>1, <1>2 DEF ShapeInv, Named, SameUse
    <2>2. ASSUME NEW s \in Scopes, NEW k \in DOMAIN exits'[s]
          PROVE  exits'[s][k] \in Nodes'
      <3>1. exits'[s] = Append(exits[s], n) \/ exits'[s] = exits[s]
        BY DEF Finished
      <3>2. exits[s] \in Seq(Nat) /\ n \in Nodes /\ n \in Nat
        BY <1>1, ShapeTypes DEF Executing
      <3>3. \/ exits'[s][k] = n
            \/ k \in DOMAIN exits[s] /\ exits'[s][k] = exits[s][k]
        BY SMTT(30), <2>2, <3>1, <3>2, Appended
      <3> QED
        BY <1>2, <3>2, <3>3 DEF ShapeInv, Named
    <2> QED
      BY <2>1, <2>2 DEF Named
  <1> QED
    BY <1>1, <1>4, <1>5, <1>6 DEF ShapeInv, Awaited, StackFollows

LEMMA CleanShape ==
    ASSUME ShapeInv, NEW n, Cleans(n)
    PROVE  ShapeInv'
  <1>1. /\ phase = "closing" /\ open = None /\ Unwinding \in Scopes
        /\ exits[Unwinding] # <<>> /\ NodeChanges(n)
        /\ segments' \in Seq(SegmentType) /\ Len(segments') = Len(segments) + 1
        /\ open' = Len(segments) + 1 /\ open' \in Nat /\ stack' \in Seq(Nat) /\ StackFollows'
        /\ exits' \in [Scopes -> Seq(Nat)] /\ exits'[Unwinding] = Front(exits[Unwinding])
        /\ \A s \in Scopes \ {Unwinding} : exits'[s] = exits[s]
        /\ UNCHANGED <<app, phase, frames, cache, sources, finalized>>
    BY DEF Cleans
  <1>2. (\A k \in Nodes : SameUse(k)) /\ Nodes' = Nodes /\ nodes' \in Seq(NodeType)
    BY <1>1, UsesStay
  <1>3. TypeOK'
    BY <1>1, <1>2 DEF ShapeInv, TypeOK, Ref, Scopes
  <1>4. frames = <<>> /\ Len(frames) = 0
    BY <1>1 DEF ShapeInv, Spine
  <1>5. Spine'
    BY <1>1, <1>4 DEF Spine
  <1>6. Named'
    <2>1. \A k \in Nodes' : nodes'[k].call = app'.override[nodes'[k].dep]
      BY <1>1, <1>2 DEF ShapeInv, Named, SameUse
    <2>2. ASSUME NEW s \in Scopes, NEW k \in DOMAIN exits'[s]
          PROVE  exits'[s][k] \in Nodes'
      <3>1. k \in DOMAIN exits[s] /\ exits'[s][k] = exits[s][k]
        <4>1. CASE s = Unwinding
          <5>1. exits[s] \in Seq(Nat) /\ exits[s] # <<>> /\ exits'[s] = Front(exits[s])
            BY <1>1, <4>1, ShapeTypes
          <5>2. /\ Len(exits[s]) \in Nat \ {0} /\ DOMAIN exits[s] = 1 .. Len(exits[s])
                /\ DOMAIN Front(exits[s]) = 1 .. Len(exits[s]) - 1
                /\ \A m \in 1 .. Len(exits[s]) - 1 : Front(exits[s])[m] = exits[s][m]
            BY <5>1, FrontLast
          <5> QED
            BY SMTT(30), <2>2, <5>1, <5>2
        <4>2. CASE s # Unwinding
          BY <1>1, <2>2, <4>2
        <4> QED
          BY <4>1, <4>2
      <3> QED
        BY <1>2, <3>1 DEF ShapeInv, Named
    <2> QED
      BY <2>1, <2>2 DEF Named
  <1>7. Awaited'
    BY <1>1, ShapeTypes DEF Awaited
  <1> QED
    BY <1>1, <1>3, <1>5, <1>6, <1>7 DEF ShapeInv

\* The solver returns or raises, or a segment ends outside of it.
Leaves ==
    /\ app' = app /\ nodes' = nodes /\ exits' = exits /\ cache' = cache
    /\ sources' = sources /\ finalized' = finalized
    /\ frames' = <<>> /\ phase' \in {"solved", "closing"}
    /\ phase' = "solved" => /\ phase = "solving" /\ open = None /\ Len(frames) = 1
                            /\ Frame.done = Len(Uses(Frame))
    /\ segments' \in Seq(SegmentType) /\ Len(segments') = Len(segments)
    /\ \A k \in DOMAIN segments : k # open => segments'[k] = segments[k]
    /\ \A k \in DOMAIN segments : segments'[k].node = segments[k].node
    /\ open # None /\ ~finalized => segments'[open].status # "incomplete"
    /\ open' = None /\ stack' = <<>>

LEMMA LeavesCases ==
    ASSUME ShapeInv,
           \/ \E status \in {"error", "cancelled"} : Raises(status)
           \/ BodyRaises
           \/ \E invalid \in BOOLEAN : Return(invalid)
           \/ \E status \in {"ok", "error", "cancelled"} : Cleaned(status)
    PROVE  Leaves
  <1>1. ASSUME NEW status \in {"ok", "error", "cancelled"}, End(status)
        PROVE  /\ segments' \in Seq(SegmentType) /\ Len(segments') = Len(segments)
               /\ \A k \in DOMAIN segments : k # open => segments'[k] = segments[k]
               /\ \A k \in DOMAIN segments : segments'[k].node = segments[k].node
               /\ open # None /\ ~finalized => segments'[open].status # "incomplete"
               /\ open' = None /\ stack' = <<>>
    <2>1. status \in Statuses /\ status # "incomplete"
      BY DEF Statuses
    <2> QED
      BY <1>1, <2>1, Ends
  <1>2. ASSUME NEW status \in {"error", "cancelled"}, Raises(status)
        PROVE  Leaves
    BY <1>1, <1>2 DEF Raises, Leaves
  <1>3. ASSUME NEW status \in {"ok", "error", "cancelled"}, Cleaned(status)
        PROVE  Leaves
    BY <1>1, <1>3 DEF Cleaned, Leaves, ShapeInv, Spine
  <1>4. open = None => stack = <<>> /\ segments \in Seq(SegmentType)
    BY ShapeTypes DEF ShapeInv, StackFollows
  <1>5. CASE BodyRaises
    BY <1>4, <1>5 DEF BodyRaises, Leaves
  <1>6. ASSUME NEW invalid \in BOOLEAN, Return(invalid)
        PROVE  Leaves
    BY <1>4, <1>6 DEF Return, Solves, Leaves
  <1> QED
    BY <1>2, <1>3, <1>5, <1>6

LEMMA LeavesShape ==
    ASSUME ShapeInv, Leaves
    PROVE  ShapeInv'
  <1>1. TypeOK'
    BY DEF ShapeInv, TypeOK, Leaves, Ref
  <1>2. Spine'
    <2>1. DOMAIN frames' = {} /\ phase' # "solving"
      BY DEF Leaves
    <2> QED
      BY <2>1 DEF Spine, Leaves
  <1>3. Awaited' /\ StackFollows'
    BY DEF Awaited, StackFollows, Leaves
  <1>4. Named'
    BY DEF ShapeInv, Named, Nodes, Leaves
  <1> QED
    BY <1>1, <1>2, <1>3, <1>4 DEF ShapeInv

\* The steps that leave the nodes alone: the request goes on, or it is finalized.
GoesOn ==
    /\ UNCHANGED <<app, frames, nodes, segments, cache, sources, open, stack, exits>>
    /\ \/ phase' = phase /\ finalized' \in BOOLEAN /\ (finalized => finalized')
       \/ phase = "solved" /\ phase' = "closing" /\ finalized' = finalized
       \/ /\ phase = "closing" /\ phase' = "ended" /\ finalized' = finalized
          /\ open = None /\ exits[Unwinding] = <<>>

LEMMA GoesOnShape ==
    ASSUME ShapeInv, GoesOn
    PROVE  ShapeInv'
  <1>1. TypeOK'
    BY DEF ShapeInv, TypeOK, GoesOn
  <1>2. \A k : Waiting(k) => Waiting(k)'
    BY DEF Waiting, GoesOn, Nodes, Uses
  <1>3. Spine'
    BY <1>2 DEF ShapeInv, Spine, GoesOn
  <1>4. Named' /\ StackFollows'
    BY DEF ShapeInv, Named, Nodes, StackFollows, GoesOn
  <1>5. Awaited'
    <2>1. \A n : Executing(n) => Executing(n)'
      BY DEF Executing, GoesOn, Nodes, Frame, Uses
    <2> QED
      BY <2>1 DEF ShapeInv, Awaited, GoesOn
  <1> QED
    BY <1>1, <1>3, <1>4, <1>5 DEF ShapeInv

\* Every step is one of these.
LEMMA StepCases ==
    ASSUME ShapeInv, [Next]_vars
    PROVE  \/ \E site \in Site : Descended(site)
           \/ ReturnInvalid
           \/ TookCached(Frame.node)
           \/ Executes(Frame.node)
           \/ Finished(segments[open].node)
           \/ Cleans(Last(exits[Unwinding]))
           \/ Leaves
           \/ GoesOn
  <1>1. CASE UNCHANGED vars
    BY <1>1, ShapeTypes DEF vars, GoesOn
  <1>2. CASE Respond \/ Close \/ Finalize
    <2>1. finalized \in BOOLEAN
      BY ShapeTypes
    <2> QED
      BY <1>2, <2>1 DEF Respond, Close, Finalize, GoesOn
  <1>3. CASE Next
    BY <1>2, <1>3, DescendDoes, TakeCachedDoes, ExecuteDoes, ExecutedDoes, CleanDoes,
       LeavesCases DEF Next
  <1> QED
    BY <1>1, <1>3

LEMMA ShapeStep ==
    ASSUME ShapeInv, [Next]_vars
    PROVE  ShapeInv'
  BY StepCases, DescendShape, ReturnInvalidShape, TakeCachedShape, ExecuteShape,
     ExecutedShape, CleanShape, LeavesShape, GoesOnShape

LEMMA ShapeInit == Init => ShapeInv
  <1> SUFFICES ASSUME Init PROVE ShapeInv
    OBVIOUS
  <1> DEFINE first == [call |-> Route, node |-> None, done |-> 0, invalid |-> FALSE]
  <1>1. first \in FrameType /\ first.node = None /\ first.call = Route
    BY DEF FrameType, Ref
  <1> HIDE DEF first
  <1>2. frames = <<first>>
    BY DEF Init, first
  <1>3. /\ frames \in Seq(FrameType) /\ DOMAIN frames = 1 .. 1 /\ frames[1] = first
        /\ frames # <<>>
    BY <1>1, <1>2
  <1>4. app \in ApplicationType
    BY ApplicationsAssumption DEF Init
  <1>5. TypeOK
    <2>1. nodes = <<>> /\ segments = <<>> /\ stack = <<>>
      BY DEF Init
    <2>2. nodes \in Seq(NodeType) /\ segments \in Seq(SegmentType) /\ stack \in Seq(Nat)
      BY <2>1
    <2>3. exits \in [Scopes -> Seq(Nat)]
      BY DEF Init, Scopes
    <2>4. cache \in [Deps -> Ref \cup {External}] /\ sources \in [Deps -> Ref]
      BY DEF Init, Ref
    <2> QED
      BY <1>3, <1>4, <2>2, <2>3, <2>4 DEF TypeOK, Init, Ref, Scopes
  <1>6. Spine
    BY <1>1, <1>3 DEF Spine, Init
  <1>7. Awaited /\ StackFollows
    BY DEF Awaited, StackFollows, Init
  <1>8. Named
    BY DEF Named, Nodes, Scopes, Init
  <1> QED
    BY <1>5, <1>6, <1>7, <1>8 DEF ShapeInv

(***************************************************************************)
(* Type correctness: every variable keeps its type.                        *)
(***************************************************************************)
THEOREM SolverTypes == Spec => []TypeOK
  <1>1. ShapeInv => TypeOK
    BY DEF ShapeInv
  <1>2. ShapeInv /\ [Next]_vars => ShapeInv'
    BY ShapeStep
  <1> QED
    BY <1>1, <1>2, ShapeInit, PTL DEF Spec

-----------------------------------------------------------------------------
(* What the nodes say of the cache. *)

\* Node n is solved to the result of a node for the same key, which ran.
RanFor(m, d) ==
    /\ m \in Nodes /\ nodes[m].dep = d /\ nodes[m].result = m /\ nodes[m].setup # None

HoldsSource ==
    \A d \in Deps :
        /\ sources[d] # None => cache[d] = sources[d]
        /\ cache[d] \notin {None, External} => sources[d] = cache[d] /\ RanFor(cache[d], d)

\* A node and its segments fit together.
Fits(n) ==
    /\ nodes[n].setup # None =>
         /\ nodes[n].setup \in DOMAIN segments /\ segments[nodes[n].setup].node = n
         /\ nodes[n].status # "hit"
    /\ nodes[n].cleanup # None =>
         /\ nodes[n].cleanup \in DOMAIN segments /\ IsGenerator(n)
         /\ nodes[n].result = n /\ nodes[n].setup # None
    /\ nodes[n].status = "hit" <=> nodes[n].from # None
    /\ nodes[n].result # None =>
         /\ nodes[n].status = "hit" <=> nodes[n].setup = None
         /\ nodes[n].status = "hit" => nodes[n].from = nodes[n].result
         /\ nodes[n].status # "hit" => nodes[n].result = n
         /\ nodes[n].result # External => RanFor(nodes[n].result, nodes[n].dep)
         /\ nodes[n].status = "miss" => cache[nodes[n].dep] # None

\* Only generators that yielded wait on exit stacks.
Held ==
    \A s \in Scopes : \A k \in DOMAIN exits[s] :
        LET n == exits[s][k] IN
        IsGenerator(n) /\ nodes[n].result = n /\ nodes[n].setup # None

\* A node that is executed since it missed has still missed.
Missed ==
    phase = "solving" /\ open # None =>
        LET n == segments[open].node IN
        nodes[n].status = "miss" => cache[nodes[n].dep] = None

RanOnMiss(n) == nodes[n].status = "miss" /\ nodes[n].result # None

OnceEach ==
    \A m, n \in Nodes :
        RanOnMiss(m) /\ RanOnMiss(n) /\ nodes[m].dep = nodes[n].dep => m = n

AllFit == \A n \in Nodes : Fits(n)

CacheInv == HoldsSource /\ AllFit /\ Held /\ Missed /\ OnceEach

\* What is solved, recorded or cached stays.
Settled ==
    /\ app' = app /\ Nodes \subseteq Nodes'
    /\ \A m \in Nodes : nodes[m].result # None =>
          /\ nodes'[m].dep = nodes[m].dep /\ nodes'[m].call = nodes[m].call
          /\ nodes'[m].result = nodes[m].result /\ nodes'[m].setup = nodes[m].setup
          /\ nodes'[m].status = nodes[m].status
    /\ \A k \in DOMAIN segments :
          k \in DOMAIN segments' /\ segments'[k].node = segments[k].node
    /\ \A d \in Deps : cache[d] # None => cache'[d] = cache[d]

LEMMA RanStays ==
    ASSUME ShapeInv, Settled, NEW m, NEW d, RanFor(m, d)
    PROVE  RanFor(m, d)'
  BY ShapeTypes DEF Settled, RanFor

LEMMA FitStays ==
    ASSUME ShapeInv, CacheInv, Settled, NEW n \in Nodes, nodes'[n] = nodes[n]
    PROVE  Fits(n)'
  <1>1. Fits(n) /\ nodes[n].dep \in Deps
    BY ShapeTypes DEF CacheInv, AllFit, NodeType
  <1>2. nodes[n].result \notin {None, External} => RanFor(nodes[n].result, nodes[n].dep)'
    BY <1>1, RanStays DEF Fits
  <1>3. IsGenerator(n) => IsGenerator(n)'
    BY DEF IsGenerator, Settled
  <1> QED
    BY <1>1, <1>2, <1>3 DEF Fits, Settled

LEMMA SourceStays ==
    ASSUME ShapeInv, CacheInv, Settled, UNCHANGED <<cache, sources>>
    PROVE  HoldsSource'
  BY RanStays DEF CacheInv, HoldsSource

LEMMA HeldStays ==
    ASSUME ShapeInv, CacheInv, Settled, UNCHANGED exits
    PROVE  Held'
  <1> SUFFICES ASSUME NEW s \in Scopes, NEW k \in DOMAIN exits[s]
               PROVE  LET n == exits[s][k] IN
                      IsGenerator(n)' /\ nodes'[n].result = n /\ nodes'[n].setup # None
    BY DEF Held
  <1> DEFINE n == exits[s][k]
  <1>1. IsGenerator(n) /\ nodes[n].result = n /\ nodes[n].setup # None
    BY DEF CacheInv, Held
  <1>2. n \in Nodes /\ n # None
    BY ShapeTypes DEF ShapeInv, Named
  <1> HIDE DEF n
  <1> QED
    BY <1>1, <1>2 DEF Settled, IsGenerator, n

\* What is not solved may change.
LEMMA SettledUnless ==
    ASSUME NEW n, NodeChanges(n), nodes[n].result = None, app' = app,
           \A k \in DOMAIN segments :
              k \in DOMAIN segments' /\ segments'[k].node = segments[k].node,
           \A d \in Deps : cache[d] # None => cache'[d] = cache[d]
    PROVE  Settled
  BY DEF Settled, NodeChanges, SameUse

LEMMA DescendCache ==
    ASSUME ShapeInv, CacheInv, NEW site \in Site, Descended(site)
    PROVE  CacheInv'
  <1> SUFFICES ASSUME NEW n, n = Len(nodes) + 1
               PROVE  CacheInv'
    OBVIOUS
  <1>1. /\ open = None /\ Nodes' = Nodes \cup {n} /\ n \notin Nodes
        /\ \A k \in Nodes : nodes'[k] = nodes[k]
        /\ nodes'[n].status = CacheStatus(site)
        /\ nodes'[n].from = CachedFrom(CacheStatus(site), site.dep)
        /\ nodes'[n].result = None /\ nodes'[n].setup = None /\ nodes'[n].cleanup = None
        /\ UNCHANGED <<app, phase, segments, cache, sources, open, stack, exits, finalized>>
    BY DEF Descended
  <1>2. Settled
    BY <1>1 DEF Settled
  <1>3. HoldsSource' /\ Held'
    BY <1>1, <1>2, SourceStays, HeldStays
  <1>4. Fits(n)'
    BY <1>1, StatusFacts DEF Fits
  <1>5. AllFit'
    BY <1>1, <1>2, <1>4, FitStays DEF AllFit
  <1>6. Missed' /\ OnceEach'
    BY <1>1 DEF CacheInv, Missed, OnceEach, RanOnMiss
  <1> QED
    BY <1>3, <1>5, <1>6 DEF CacheInv

LEMMA TakeCachedCache ==
    ASSUME ShapeInv, CacheInv, NEW n, TookCached(n)
    PROVE  CacheInv'
  <1>1. /\ open = None /\ NodeChanges(n) /\ cache[nodes[n].dep] # None
        /\ nodes'[n].status = "hit" /\ nodes'[n].from = CachedFrom("hit", nodes[n].dep)
        /\ nodes'[n].setup = nodes[n].setup /\ nodes'[n].cleanup = nodes[n].cleanup
        /\ nodes'[n].result = cache[nodes[n].dep]
        /\ UNCHANGED <<app, segments, cache, sources, open, exits>>
    BY DEF TookCached
  <1>2. /\ nodes[n].result = None /\ nodes[n].setup = None /\ nodes[n].cleanup = None
        /\ n \in Nodes /\ nodes[n].dep \in Deps
    BY Innermost, ShapeTypes DEF TookCached, Waiting, NodeType
  <1>3. Settled
    BY <1>1, <1>2, SettledUnless
  <1>4. HoldsSource' /\ Held'
    BY <1>1, <1>3, SourceStays, HeldStays
  <1>5. Fits(n)'
    <2> SUFFICES ASSUME NEW d, d = nodes[n].dep, NEW m, m = cache[d]
                 PROVE  Fits(n)'
      OBVIOUS
    <2>1. /\ sources[d] # None => cache[d] = sources[d]
          /\ cache[d] \notin {None, External} => sources[d] = cache[d] /\ RanFor(cache[d], d)
      BY <1>2 DEF CacheInv, HoldsSource
    <2>2. nodes'[n].from = cache[d] /\ nodes'[n].from # None
      BY <1>1, <2>1 DEF CachedFrom
    <2>3. m # External => RanFor(m, d)'
      BY <1>1, <1>3, <2>1, RanStays
    <2>4. nodes'[n].dep = d
      BY <1>1 DEF NodeChanges, SameUse
    <2> QED
      BY <1>1, <1>2, <2>2, <2>3, <2>4 DEF Fits
  <1>6. AllFit'
    BY <1>1, <1>3, <1>5, FitStays DEF AllFit, NodeChanges
  <1>7. Missed'
    BY <1>1 DEF Missed
  <1>8. OnceEach'
    BY <1>1 DEF CacheInv, OnceEach, RanOnMiss, NodeChanges
  <1> QED
    BY <1>4, <1>6, <1>7, <1>8 DEF CacheInv

LEMMA ExecuteCache ==
    ASSUME ShapeInv, CacheInv, NEW n, Executes(n)
    PROVE  CacheInv'
  <1>1. /\ NodeChanges(n)
        /\ nodes'[n].status \in {"miss", "bypass"} /\ nodes'[n].from = None
        /\ nodes'[n].status = "miss" => cache[nodes[n].dep] = None
        /\ nodes'[n].setup = Len(segments) + 1 /\ nodes'[n].cleanup = nodes[n].cleanup
        /\ nodes'[n].result = nodes[n].result
        /\ segments' \in Seq(SegmentType) /\ Len(segments') = Len(segments) + 1
        /\ \A k \in DOMAIN segments : segments'[k] = segments[k]
        /\ segments'[Len(segments) + 1].node = n
        /\ open' = Len(segments) + 1
        /\ UNCHANGED <<app, phase, cache, sources, exits, finalized>>
    BY DEF Executes
  <1>2. /\ nodes[n].result = None /\ nodes[n].cleanup = None
        /\ n \in Nodes /\ nodes'[n].dep = nodes[n].dep
    BY <1>1, Innermost DEF Executes, Waiting, NodeChanges, SameUse
  <1>3. /\ DOMAIN segments = 1 .. Len(segments) /\ Len(segments) \in Nat
        /\ DOMAIN segments' = 1 .. Len(segments) + 1
    BY <1>1, ShapeTypes
  <1>4. Settled
    BY <1>1, <1>2, <1>3, SettledUnless
  <1>5. HoldsSource' /\ Held'
    BY <1>1, <1>4, SourceStays, HeldStays
  <1>6. Fits(n)'
    BY <1>1, <1>2, <1>3 DEF Fits
  <1>7. AllFit'
    BY <1>1, <1>4, <1>6, FitStays DEF AllFit, NodeChanges
  <1>8. Missed'
    BY <1>1, <1>2 DEF Missed
  <1>9. OnceEach'
    BY <1>1, <1>2 DEF CacheInv, OnceEach, RanOnMiss, NodeChanges
  <1> QED
    BY <1>5, <1>7, <1>8, <1>9 DEF CacheInv

LEMMA ExecutedCache ==
    ASSUME ShapeInv, CacheInv, NEW n, Finished(n)
    PROVE  CacheInv'
  <1>1. /\ phase = "solving" /\ open # None /\ n = segments[open].node
        /\ NodeChanges(n) /\ n \in Nodes
        /\ nodes[n].setup = open /\ nodes[n].result = None /\ nodes[n].cleanup = None
        /\ nodes'[n].status = nodes[n].status /\ nodes'[n].from = nodes[n].from
        /\ nodes'[n].setup = nodes[n].setup /\ nodes'[n].cleanup = nodes[n].cleanup
        /\ nodes'[n].result = n /\ nodes'[n].dep = nodes[n].dep
        /\ segments' \in Seq(SegmentType) /\ Len(segments') = Len(segments)
        /\ \A k \in DOMAIN segments : segments'[k].node = segments[k].node
        /\ open' = None /\ app' = app
    BY DEF Finished, Executing, NodeChanges, SameUse
  <1>2. \A d \in Deps : \/ /\ d = nodes[n].dep /\ cache[d] = None
                           /\ cache'[d] = n /\ sources'[d] = n
                        \/ /\ d = nodes[n].dep => cache[d] # None
                           /\ cache'[d] = cache[d] /\ sources'[d] = sources[d]
    BY DEF Finished
  <1>3. /\ n # None /\ n # External /\ nodes[n].dep \in Deps
        /\ DOMAIN segments' = DOMAIN segments
    <2>1. /\ n # None /\ n # External /\ nodes[n].dep \in Deps
      BY <1>1, ShapeTypes DEF NodeType
    <2>2. segments \in Seq(SegmentType)
      BY ShapeTypes
    <2>3. DOMAIN segments' = 1 .. Len(segments') /\ DOMAIN segments = 1 .. Len(segments)
      BY <1>1, <2>2, LenProperties
    <2> QED
      BY <1>1, <2>1, <2>3
  <1>4. Settled
    <2>1. \A d \in Deps : cache[d] # None => cache'[d] = cache[d]
      BY <1>2
    <2> QED
      BY <1>1, <1>3, <2>1, SettledUnless
  <1>5. /\ Fits(n) /\ nodes[n].status # "hit" /\ nodes[n].from = None
    BY <1>1 DEF CacheInv, AllFit, Fits
  <1>6. RanFor(n, nodes[n].dep)'
    <2> SUFFICES ASSUME NEW d, d = nodes[n].dep
                 PROVE  RanFor(n, d)'
      BY <1>1 DEF RanFor
    <2> QED
      BY <1>1 DEF RanFor, NodeChanges
  <1>7. HoldsSource'
    <2> SUFFICES ASSUME NEW d \in Deps
                 PROVE  /\ sources'[d] # None => cache'[d] = sources'[d]
                        /\ cache'[d] \notin {None, External} =>
                             sources'[d] = cache'[d] /\ RanFor(cache[d], d)'
      BY DEF HoldsSource
    <2>1. CASE d = nodes[n].dep /\ cache[d] = None /\ cache'[d] = n /\ sources'[d] = n
      BY <1>1, <1>6, <2>1 DEF RanFor
    <2>2. CASE cache'[d] = cache[d] /\ sources'[d] = sources[d]
      <3>1. /\ sources[d] # None => cache[d] = sources[d]
            /\ cache[d] \notin {None, External} => sources[d] = cache[d] /\ RanFor(cache[d], d)
        BY DEF CacheInv, HoldsSource
      <3> SUFFICES ASSUME NEW m, m = cache[d], m \notin {None, External}
                   PROVE  RanFor(m, d)'
        BY <2>2, <3>1 DEF RanFor
      <3> QED
        BY <1>4, <3>1, RanStays
    <2> QED
      BY <1>2, <2>1, <2>2
  <1>8. AllFit'
    <2>1. cache'[nodes[n].dep] # None
      BY <1>2, <1>3
    <2>2. Fits(n)'
      BY <1>1, <1>3, <1>5, <1>6, <2>1 DEF Fits, RanFor
    <2> QED
      BY <1>1, <1>4, <2>2, FitStays DEF AllFit, NodeChanges
  <1>9. Held'
    <2> SUFFICES ASSUME NEW s \in Scopes, NEW k \in DOMAIN exits'[s], NEW m, m = exits'[s][k]
                 PROVE  IsGenerator(m)' /\ nodes'[m].result = m /\ nodes'[m].setup # None
      BY DEF Held
    <2>1. \/ exits'[s] = Append(exits[s], n) /\ IsGenerator(n)
          \/ exits'[s] = exits[s]
      BY DEF Finished
    <2>2. exits[s] \in Seq(Nat) /\ n \in Nat
      BY <1>1, ShapeTypes
    <2>3. \/ m = n /\ IsGenerator(n)
          \/ k \in DOMAIN exits[s] /\ m = exits[s][k]
      BY SMTT(30), <2>1, <2>2, Appended
    <2>4. CASE m = n /\ IsGenerator(n)
      BY <1>1, <2>4 DEF IsGenerator, NodeChanges, SameUse
    <2>5. CASE k \in DOMAIN exits[s] /\ m = exits[s][k]
      <3>1. m \in Nodes /\ m # None /\ IsGenerator(m) /\ nodes[m].result = m
        BY <2>5, ShapeTypes DEF ShapeInv, Named, CacheInv, Held
      <3>2. nodes[m].setup # None
        BY <2>5 DEF CacheInv, Held
      <3> QED
        BY <1>4, <3>1, <3>2 DEF Settled, IsGenerator
    <2> QED
      BY <2>3, <2>4, <2>5
  <1>10. Missed'
    BY <1>1 DEF Missed
  <1>11. OnceEach'
    <2>1. RanOnMiss(n)' => cache[nodes[n].dep] = None
      BY <1>1 DEF CacheInv, Missed, RanOnMiss
    <2>2. \A m \in Nodes : RanOnMiss(m) => cache[nodes[m].dep] # None
      BY DEF CacheInv, AllFit, Fits, RanOnMiss
    <2>3. \A m \in Nodes \ {n} : /\ RanOnMiss(m)' <=> RanOnMiss(m)
                                 /\ nodes'[m].dep = nodes[m].dep
      BY <1>1 DEF RanOnMiss, NodeChanges
    <2>4. Nodes' = Nodes /\ nodes'[n].dep = nodes[n].dep
      BY <1>1 DEF NodeChanges
    <2> QED
      BY <2>1, <2>2, <2>3, <2>4 DEF CacheInv, OnceEach
  <1> QED
    BY <1>7, <1>8, <1>9, <1>10, <1>11 DEF CacheInv

LEMMA CleanCache ==
    ASSUME ShapeInv, CacheInv, NEW n, Cleans(n)
    PROVE  CacheInv'
  <1>1. /\ phase = "closing" /\ Unwinding \in Scopes /\ exits[Unwinding] # <<>>
        /\ n = Last(exits[Unwinding]) /\ NodeChanges(n)
        /\ nodes'[n].status = nodes[n].status /\ nodes'[n].from = nodes[n].from
        /\ nodes'[n].setup = nodes[n].setup /\ nodes'[n].cleanup = Len(segments) + 1
        /\ nodes'[n].result = nodes[n].result
        /\ segments' \in Seq(SegmentType) /\ Len(segments') = Len(segments) + 1
        /\ \A k \in DOMAIN segments : segments'[k] = segments[k]
        /\ exits'[Unwinding] = Front(exits[Unwinding])
        /\ \A s \in Scopes \ {Unwinding} : exits'[s] = exits[s]
        /\ UNCHANGED <<app, phase, cache, sources>>
    BY DEF Cleans
  <1>2. /\ Len(exits[Unwinding]) \in DOMAIN exits[Unwinding]
        /\ DOMAIN Front(exits[Unwinding]) \subseteq DOMAIN exits[Unwinding]
        /\ n = exits[Unwinding][Len(exits[Unwinding])]
        /\ \A k \in DOMAIN Front(exits[Unwinding]) :
              Front(exits[Unwinding])[k] = exits[Unwinding][k]
    <2>1. exits[Unwinding] \in Seq(Nat)
      BY <1>1, ShapeTypes
    <2> DEFINE q == exits[Unwinding]
    <2>2. q \in Seq(Nat) /\ q # <<>> /\ n = Last(q)
      BY <1>1, <2>1
    <2> HIDE DEF q
    <2>3. /\ Len(q) \in DOMAIN q /\ DOMAIN Front(q) \subseteq DOMAIN q
          /\ n = q[Len(q)] /\ \A k \in DOMAIN Front(q) : Front(q)[k] = q[k]
      BY SMTT(30), <2>2, FrontLast
    <2> QED
      BY <2>3 DEF q
  <1>3. /\ n \in Nodes /\ IsGenerator(n) /\ nodes[n].result = n /\ nodes[n].setup # None
    BY <1>1, <1>2 DEF ShapeInv, Named, CacheInv, Held
  <1>4. /\ DOMAIN segments = 1 .. Len(segments) /\ Len(segments) \in Nat
        /\ DOMAIN segments' = 1 .. Len(segments) + 1 /\ n # None
    BY <1>1, <1>3, ShapeTypes
  <1>5. Settled
    BY <1>1, <1>3, <1>4 DEF Settled, NodeChanges, SameUse
  <1>6. HoldsSource'
    BY <1>1, <1>5, SourceStays
  <1>7. Fits(n)'
    <2>1. Fits(n) /\ nodes'[n].dep = nodes[n].dep
      BY <1>1, <1>3 DEF CacheInv, AllFit, NodeChanges, SameUse
    <2>2. n # External /\ RanFor(n, nodes[n].dep)
      BY <1>3, ShapeTypes DEF RanFor
    <2>3. RanFor(n, nodes[n].dep)'
      <3> SUFFICES ASSUME NEW d, d = nodes[n].dep
                   PROVE  RanFor(n, d)'
        BY <2>1 DEF RanFor
      <3> QED
        BY <1>5, <2>2, RanStays
    <2>4. IsGenerator(n)'
      BY <1>1, <1>3 DEF IsGenerator, NodeChanges, SameUse
    <2>5. nodes[n].setup \in DOMAIN segments' /\ segments'[nodes[n].setup].node = n
      BY <1>1, <1>3, <1>4, <2>1 DEF Fits
    <2>6. Len(segments) + 1 \in DOMAIN segments'
      BY <1>4
    <2> QED
      BY <1>1, <1>3, <2>1, <2>3, <2>4, <2>5, <2>6 DEF Fits, RanFor
  <1>8. AllFit'
    BY <1>1, <1>5, <1>7, FitStays DEF AllFit, NodeChanges
  <1>9. Held'
    <2> SUFFICES ASSUME NEW s \in Scopes, NEW k \in DOMAIN exits'[s], NEW m, m = exits'[s][k]
                 PROVE  IsGenerator(m)' /\ nodes'[m].result = m /\ nodes'[m].setup # None
      BY DEF Held
    <2>1. k \in DOMAIN exits[s] /\ m = exits[s][k]
      BY <1>1, <1>2
    <2>2. m \in Nodes /\ m # None /\ IsGenerator(m) /\ nodes[m].result = m
      BY <2>1, ShapeTypes DEF ShapeInv, Named, CacheInv, Held
    <2>3. nodes[m].setup # None
      BY <2>1 DEF CacheInv, Held
    <2> QED
      BY <1>5, <2>2, <2>3 DEF Settled, IsGenerator
  <1>10. Missed'
    BY <1>1 DEF Missed
  <1>11. OnceEach'
    BY SMTT(30), <1>1 DEF CacheInv, OnceEach, RanOnMiss, NodeChanges, SameUse
  <1> QED
    BY <1>6, <1>8, <1>9, <1>10, <1>11 DEF CacheInv

\* A step that leaves the nodes, the cache and the exit stacks alone.
LEMMA NodesAloneCache ==
    ASSUME ShapeInv, CacheInv, UNCHANGED <<app, nodes, cache, sources, exits>>,
           DOMAIN segments' = DOMAIN segments,
           \A k \in DOMAIN segments : segments'[k].node = segments[k].node,
           \/ phase' # "solving" \/ open' = None
           \/ UNCHANGED <<phase, open, segments>>
    PROVE  CacheInv'
  <1>1. Settled /\ Nodes' = Nodes
    BY DEF Settled, Nodes
  <1>2. HoldsSource' /\ Held'
    BY <1>1, SourceStays, HeldStays
  <1>3. AllFit'
    BY <1>1, FitStays DEF AllFit
  <1>4. Missed' /\ OnceEach'
    BY <1>1 DEF CacheInv, Missed, OnceEach, RanOnMiss
  <1> QED
    BY <1>2, <1>3, <1>4 DEF CacheInv

LEMMA CacheStep ==
    ASSUME ShapeInv, CacheInv, [Next]_vars
    PROVE  CacheInv'
  <1>1. CASE ReturnInvalid
    BY <1>1, NodesAloneCache DEF ReturnInvalid
  <1>2. CASE Leaves
    <2>1. /\ UNCHANGED <<app, nodes, cache, sources, exits>> /\ open' = None
          /\ \A k \in DOMAIN segments : segments'[k].node = segments[k].node
      BY <1>2 DEF Leaves
    <2>2. DOMAIN segments' = DOMAIN segments
      BY <1>2, ShapeTypes DEF Leaves
    <2> QED
      BY <2>1, <2>2, NodesAloneCache
  <1>3. CASE GoesOn
    BY <1>3, NodesAloneCache DEF GoesOn
  <1> QED
    BY <1>1, <1>2, <1>3, StepCases, DescendCache, TakeCachedCache, ExecuteCache,
       ExecutedCache, CleanCache

LEMMA CacheInit == Init => CacheInv
  <1> SUFFICES ASSUME Init PROVE CacheInv
    OBVIOUS
  <1>1. Nodes = {} /\ open = None /\ \A s \in Scopes : DOMAIN exits[s] = {}
    BY DEF Init, Nodes, Scopes
  <1>2. HoldsSource
    BY DEF Init, HoldsSource
  <1> QED
    BY <1>1, <1>2 DEF CacheInv, AllFit, Held, Missed, OnceEach

(***************************************************************************)
(* What the trace tells of the cache is true: a hit names the node whose   *)
(* result it got, every other node was executed itself, every node can be  *)
(* frozen at any time, and a dependency whose uses take the cache runs at  *)
(* most once for a request.                                                *)
(***************************************************************************)
THEOREM TracesTellHits == Spec => []CacheIsTold
  <1>1. ASSUME ShapeInv, CacheInv
        PROVE  CacheIsTold
    <2>1. HitsNameTheirSource
      BY <1>1 DEF HitsNameTheirSource, CacheInv, AllFit, Fits, RanFor
    <2>2. NodesCanFreeze
      BY <1>1 DEF NodesCanFreeze, CacheInv, AllFit, Fits
    <2>3. RunsOnce
      <3> SUFFICES ASSUME NEW d \in Deps
                   PROVE  Cardinality({n \in Nodes : nodes[n].dep = d /\ nodes[n].status = "miss"
                                                     /\ nodes[n].result # None}) <= 1
        BY DEF RunsOnce
      <3> DEFINE ran == {n \in Nodes : nodes[n].dep = d /\ nodes[n].status = "miss"
                                       /\ nodes[n].result # None}
      <3>1. \A m, n \in ran : m = n
        BY <1>1 DEF CacheInv, OnceEach, RanOnMiss
      <3> HIDE DEF ran
      <3>2. ran = {} \/ \E n : ran = {n}
        BY <3>1
      <3>3. CASE ran = {}
        <4>1. Cardinality({}) = 0
          BY FS_EmptySet
        <4> QED
          BY <3>3, <4>1 DEF ran
      <3>4. CASE \E n : ran = {n}
        <4>1. PICK n : ran = {n}
          BY <3>4
        <4>2. Cardinality({n}) = 1
          BY FS_Singleton
        <4> QED
          BY <4>1, <4>2 DEF ran
      <3> QED
        BY <3>2, <3>3, <3>4
    <2> QED
      BY <2>1, <2>2, <2>3 DEF CacheIsTold
  <1>2. ShapeInv /\ CacheInv /\ [Next]_vars => ShapeInv' /\ CacheInv'
    BY ShapeStep, CacheStep
  <1> QED
    BY <1>1, <1>2, ShapeInit, CacheInit, PTL DEF Spec

-----------------------------------------------------------------------------
(* Scopes. *)

\* FastAPI allows the scopes of the application.
Allowed == ScopesAllowed(app)

\* Node m is below node n, for a use that the callable of n declares.
UsedBy(m, n) ==
    /\ nodes[m].parent = n
    /\ \E k \in DOMAIN app.uses[nodes[n].call] : app.uses[nodes[n].call][k].dep = nodes[m].dep

Related == \A m \in Nodes : nodes[m].parent # None =>
               nodes[m].parent \in Nodes /\ UsedBy(m, nodes[m].parent)

\* What a node was given was set up before it was.
Earlier ==
    \A m, n \in Nodes :
        nodes[m].parent = n /\ nodes[n].setup # None /\ nodes[m].result \in Nodes =>
            nodes[nodes[m].result].setup < nodes[n].setup

\* Nothing is cleaned up before the endpoint has run or the solver has raised.
Late == phase \in {"solving", "solved"} => \A n \in Nodes : nodes[n].cleanup = None

\* A generator that yielded and is not cleaned up yet.
Waits(n) ==
    n \in Nodes /\ IsGenerator(n) /\ nodes[n].result = n /\ nodes[n].cleanup = None

\* Those wait on the exit stack of their scope, in the order of their setup.
OnStack == \A s \in Scopes : \A k \in DOMAIN exits[s] :
               Waits(exits[s][k]) /\ StackOf(exits[s][k]) = s

Queued == \A n \in Nodes : Waits(n) =>
              \E k \in DOMAIN exits[StackOf(n)] : exits[StackOf(n)][k] = n

Sorted == \A s \in Scopes : \A j, k \in DOMAIN exits[s] :
              j < k => nodes[exits[s][j]].setup < nodes[exits[s][k]].setup

Exits == OnStack /\ Queued /\ Sorted

Unwound == phase = "ended" => \A s \in Scopes : exits[s] = <<>>

\* No segment but the one that is awaited is open.
Ended ==
    ~finalized => \A k \in DOMAIN segments : segments[k].status = "incomplete" => k = open

ScopeInv ==
    Allowed /\ Related /\ Earlier /\ Late /\ Exits /\ Unwound /\ Ended /\ CleanedAfterUse

\* What is below a node, and why, stays.
LEMMA RelatedStays ==
    ASSUME Related, app' = app, Nodes' = Nodes, \A k \in Nodes : SameUse(k)
    PROVE  Related'
  <1> SUFFICES ASSUME NEW m \in Nodes, nodes[m].parent # None
               PROVE  nodes[m].parent \in Nodes /\ UsedBy(m, nodes[m].parent)'
    BY DEF Related, SameUse, UsedBy
  <1> SUFFICES ASSUME NEW n, n = nodes[m].parent
               PROVE  n \in Nodes /\ UsedBy(m, n)'
    BY DEF UsedBy, SameUse
  <1> QED
    BY DEF Related, UsedBy, SameUse

\* The exit stacks stay if the same generators wait.
LEMMA ExitsStay ==
    ASSUME ShapeInv, Exits, exits' = exits, app' = app,
           \A n \in Nodes' : Waits(n)' => Waits(n),
           \A n \in Nodes : Waits(n) => /\ Waits(n)' /\ nodes'[n].dep = nodes[n].dep
                                        /\ nodes'[n].setup = nodes[n].setup
    PROVE  Exits'
  <1>1. \A s \in Scopes : \A k \in DOMAIN exits[s] : exits[s][k] \in Nodes /\ Waits(exits[s][k])
    BY DEF ShapeInv, Named, Exits, OnStack
  <1>2. ASSUME NEW s \in Scopes, NEW k \in DOMAIN exits[s], NEW n, n = exits[s][k]
        PROVE  Waits(n)' /\ StackOf(n)' = s
    BY <1>1, <1>2 DEF Exits, OnStack, StackOf
  <1>3. OnStack'
    BY <1>2 DEF OnStack, Waits, StackOf
  <1>4. Queued'
    <2> SUFFICES ASSUME NEW n \in Nodes', Waits(n)'
                 PROVE  \E k \in DOMAIN exits'[StackOf(n)'] : exits'[StackOf(n)'][k] = n
      BY DEF Queued
    <2>1. Waits(n) /\ n \in Nodes
      BY DEF Waits
    <2>2. StackOf(n)' = StackOf(n)
      BY <2>1 DEF StackOf
    <2> QED
      BY <2>1, <2>2 DEF Exits, Queued
  <1>5. Sorted'
    <2> SUFFICES ASSUME NEW s \in Scopes, NEW j \in DOMAIN exits[s], NEW k \in DOMAIN exits[s],
                        j < k, NEW m, m = exits[s][j], NEW n, n = exits[s][k]
                 PROVE  nodes'[m].setup < nodes'[n].setup
      BY DEF Sorted
    <2>1. nodes[m].setup < nodes[n].setup
      BY DEF Exits, Sorted
    <2> QED
      BY <1>1, <2>1
  <1> QED
    BY <1>3, <1>4, <1>5 DEF Exits

\* While the solver runs, nothing is cleaned up.
LEMMA NotYetCleaned ==
    ASSUME Late, phase \in {"solving", "solved"}
    PROVE  CleanedAfterUse
  BY DEF Late, CleanedAfterUse, Children, Nodes

\* No segment is left open by one that begins.
LEMMA BeginsLast ==
    ASSUME ShapeInv, Ended, open = None, finalized' = finalized,
           segments' \in Seq(SegmentType), Len(segments') = Len(segments) + 1,
           \A k \in DOMAIN segments : segments'[k] = segments[k],
           open' = Len(segments) + 1
    PROVE  Ended'
  <1>1. /\ DOMAIN segments = 1 .. Len(segments) /\ Len(segments) \in Nat
        /\ DOMAIN segments' = 1 .. Len(segments) + 1
        /\ \A k \in Nat : k # None
    BY ShapeTypes
  <1> QED
    BY <1>1 DEF Ended

LEMMA DescendScope ==
    ASSUME ShapeInv, CacheInv, ScopeInv, NEW site \in Site, Descended(site)
    PROVE  ScopeInv'
  <1> SUFFICES ASSUME NEW n, n = Len(nodes) + 1
               PROVE  ScopeInv'
    OBVIOUS
  <1>1. /\ phase = "solving" /\ frames # <<>> /\ Frame.done < Len(Uses(Frame))
        /\ site = Uses(Frame)[Frame.done + 1]
        /\ Nodes' = Nodes \cup {n} /\ n \notin Nodes
        /\ \A k \in Nodes : nodes'[k] = nodes[k]
        /\ nodes'[n].dep = site.dep /\ nodes'[n].parent = Frame.node
        /\ nodes'[n].result = None /\ nodes'[n].setup = None /\ nodes'[n].cleanup = None
        /\ UNCHANGED <<app, phase, segments, cache, sources, open, stack, exits, finalized>>
    BY DEF Descended
  <1>2. n \in Nat /\ n # None /\ None \notin Nodes'
    BY <1>1, ShapeTypes, DependencyAssumption
  <1>3. Allowed' /\ Unwound' /\ Ended'
    BY <1>1 DEF ScopeInv, Allowed, Unwound, Ended
  <1>4. Related'
    <2>1. ASSUME NEW m \in Nodes, NEW p, p = nodes[m].parent, p # None
          PROVE  p \in Nodes' /\ UsedBy(m, p)'
      <3>1. p \in Nodes /\ UsedBy(m, p)
        BY <2>1 DEF ScopeInv, Related
      <3>2. nodes'[m] = nodes[m] /\ nodes'[p] = nodes[p] /\ app' = app
        BY <1>1, <2>1, <3>1
      <3> QED
        BY <1>1, <3>1, <3>2 DEF UsedBy
    <2>2. ASSUME NEW p, p = Frame.node, p # None
          PROVE  p \in Nodes' /\ UsedBy(n, p)'
      <3>1. Len(frames) > 1
        BY <1>1, <2>2, Innermost DEF ShapeInv, Spine
      <3>2. Waiting(Len(frames)) /\ Frame = frames[Len(frames)] /\ Frame \in FrameType
        BY <1>1, <3>1, Innermost
      <3>3. p \in Nodes /\ Frame.call = nodes[p].call
        BY <2>2, <3>2 DEF Waiting
      <3>4. Frame.done + 1 \in DOMAIN app.uses[nodes[p].call]
        <4>1. Uses(Frame) \in Seq(Site) /\ Frame.done \in Nat
          BY <1>1, <3>2, Innermost DEF FrameType
        <4>2. Frame.done + 1 \in DOMAIN Uses(Frame)
          BY <1>1, <4>1
        <4> QED
          BY <3>3, <4>2 DEF Uses
      <3>5. app.uses[nodes[p].call][Frame.done + 1].dep = site.dep
        BY <1>1, <3>3 DEF Uses
      <3> QED
        BY <1>1, <2>2, <3>3, <3>4, <3>5 DEF UsedBy
    <2> SUFFICES ASSUME NEW m \in Nodes', NEW p, p = nodes'[m].parent, p # None
                 PROVE  p \in Nodes' /\ UsedBy(m, p)'
      BY DEF Related, UsedBy
    <2>3. (m \in Nodes /\ nodes'[m] = nodes[m]) \/ m = n
      BY <1>1
    <2> QED
      BY <1>1, <2>1, <2>2, <2>3
  <1>5. Earlier'
    <2> SUFFICES ASSUME NEW m \in Nodes', NEW p \in Nodes', nodes'[m].parent = p,
                        nodes'[p].setup # None, NEW u \in Nodes', nodes'[m].result = u
                 PROVE  nodes'[u].setup < nodes'[p].setup
      BY DEF Earlier
    <2>1. m \in Nodes /\ p \in Nodes
      BY <1>1, <1>2
    <2>2. u \in Nodes
      <3>1. u # None /\ u # External /\ nodes[m].result = u
        BY <1>1, <1>2, <2>1, ShapeTypes
      <3>2. Fits(m)
        BY <2>1 DEF CacheInv, AllFit
      <3> QED
        BY <3>1, <3>2 DEF Fits, RanFor
    <2> QED
      BY <1>1, <2>1, <2>2 DEF ScopeInv, Earlier
  <1>6. Late' /\ CleanedAfterUse'
    <2>1. Late'
      BY <1>1 DEF ScopeInv, Late
    <2> QED
      BY <1>1, <2>1 DEF Late, CleanedAfterUse, Children
  <1>7. Exits'
    <2>1. ~ Waits(n)'
      BY <1>1, <1>2 DEF Waits
    <2>2. \A k \in Nodes : Waits(k)' <=> Waits(k)
      BY <1>1 DEF Waits, IsGenerator
    <2> QED
      BY <1>1, <2>1, <2>2, ExitsStay DEF ScopeInv, Waits
  <1> QED
    BY <1>3, <1>4, <1>5, <1>6, <1>7 DEF ScopeInv

\* The node of the innermost call is below one that is not executed yet.
LEMMA CallerIsOpen ==
    ASSUME ShapeInv, frames # <<>>, Len(frames) > 1,
           NEW p \in Nodes, nodes[Frame.node].parent = p
    PROVE  nodes[p].setup = None
  <1>1. /\ Len(frames) \in Nat /\ Waiting(Len(frames)) /\ Frame = frames[Len(frames)]
        /\ DOMAIN frames = 1 .. Len(frames) /\ p # None
    BY Innermost, ShapeTypes
  <1>2. frames[Len(frames) - 1].node = p
    BY <1>1 DEF Waiting
  <1>3. Len(frames) - 1 > 1
    BY <1>1, <1>2 DEF ShapeInv, Spine
  <1>4. Waiting(Len(frames) - 1)
    BY <1>1, <1>3 DEF ShapeInv, Spine
  <1> QED
    BY <1>2, <1>4 DEF Waiting

\* What a node was given ran in a segment.
LEMMA RanSegment ==
    ASSUME ShapeInv, CacheInv, NEW m \in Nodes, NEW u \in Nodes, nodes[m].result = u
    PROVE  /\ nodes[u].setup \in DOMAIN segments /\ segments[nodes[u].setup].node = u
           /\ nodes[u].dep = nodes[m].dep /\ nodes[u].result = u
  <1>1. u # None /\ u # External
    BY ShapeTypes
  <1>2. Fits(m) /\ Fits(u)
    BY DEF CacheInv, AllFit
  <1>3. RanFor(u, nodes[m].dep)
    BY <1>1, <1>2 DEF Fits
  <1> QED
    BY <1>2, <1>3 DEF Fits, RanFor

LEMMA TakeCachedScope ==
    ASSUME ShapeInv, CacheInv, ScopeInv, NEW n, TookCached(n)
    PROVE  ScopeInv'
  <1>1. /\ phase = "solving" /\ frames # <<>> /\ Len(frames) > 1 /\ n = Frame.node
        /\ NodeChanges(n)
        /\ nodes'[n].setup = nodes[n].setup /\ nodes'[n].cleanup = nodes[n].cleanup
        /\ nodes'[n].result = cache[nodes[n].dep]
        /\ UNCHANGED <<app, phase, segments, cache, sources, open, stack, exits, finalized>>
    BY DEF TookCached
  <1>2. /\ n \in Nodes /\ nodes[n].result = None /\ nodes[n].setup = None
        /\ nodes[n].cleanup = None /\ nodes[n].dep \in Deps /\ n # None /\ n # External
        /\ Waiting(Len(frames)) /\ Frame = frames[Len(frames)]
    BY <1>1, Innermost, ShapeTypes DEF Waiting, NodeType
  <1>3. Allowed' /\ Unwound' /\ Ended'
    BY <1>1 DEF ScopeInv, Allowed, Unwound, Ended
  <1>4. Related'
    BY <1>1, UsesStay, RelatedStays DEF ScopeInv
  <1>5. \A k \in Nodes : nodes'[k].setup = nodes[k].setup /\ nodes'[k].cleanup = nodes[k].cleanup
    BY <1>1 DEF NodeChanges
  <1>6. Earlier'
    <2> SUFFICES ASSUME NEW m \in Nodes, NEW p \in Nodes, nodes[m].parent = p,
                        nodes[p].setup # None, NEW u \in Nodes, nodes'[m].result = u
                 PROVE  nodes[u].setup < nodes[p].setup
      BY <1>1, <1>5, UsesStay DEF Earlier, SameUse
    <2>1. m # n
      BY <1>1, <1>2, CallerIsOpen
    <2> QED
      BY <1>1, <2>1 DEF ScopeInv, Earlier, NodeChanges
  <1>7. Late' /\ CleanedAfterUse'
    <2>1. Late'
      BY <1>1, <1>5 DEF ScopeInv, Late, NodeChanges
    <2> QED
      BY <1>1, <2>1 DEF Late, CleanedAfterUse, Children
  <1>8. Exits'
    <2>1. cache[nodes[n].dep] # n
      BY <1>2 DEF CacheInv, HoldsSource, RanFor
    <2>2. \A k \in Nodes : Waits(k)' <=> Waits(k)
      BY <1>1, <1>2, <1>5, <2>1 DEF Waits, IsGenerator, NodeChanges, SameUse
    <2>3. \A k \in Nodes : nodes'[k].dep = nodes[k].dep
      BY <1>1, UsesStay DEF SameUse
    <2> QED
      BY <1>1, <1>5, <2>2, <2>3, UsesStay, ExitsStay DEF ScopeInv
  <1> QED
    BY <1>3, <1>4, <1>6, <1>7, <1>8 DEF ScopeInv

LEMMA ExecuteScope ==
    ASSUME ShapeInv, CacheInv, ScopeInv, NEW n, Executes(n)
    PROVE  ScopeInv'
  <1>1. /\ phase = "solving" /\ open = None /\ frames # <<>> /\ Len(frames) > 1
        /\ n = Frame.node /\ NodeChanges(n)
        /\ nodes'[n].setup = Len(segments) + 1 /\ nodes'[n].cleanup = nodes[n].cleanup
        /\ nodes'[n].result = nodes[n].result
        /\ segments' \in Seq(SegmentType) /\ Len(segments') = Len(segments) + 1
        /\ \A k \in DOMAIN segments : segments'[k] = segments[k]
        /\ open' = Len(segments) + 1
        /\ UNCHANGED <<app, phase, cache, sources, exits, finalized>>
    BY DEF Executes
  <1>2. /\ n \in Nodes /\ nodes[n].result = None /\ nodes[n].setup = None /\ n # None
        /\ nodes[n].cleanup = None
    BY <1>1, Innermost, ShapeTypes DEF Waiting
  <1>3. Allowed' /\ Unwound' /\ Ended'
    BY <1>1, BeginsLast DEF ScopeInv, Allowed, Unwound
  <1>4. Related'
    BY <1>1, UsesStay, RelatedStays DEF ScopeInv
  <1>5. /\ \A k \in Nodes : /\ nodes'[k].result = nodes[k].result
                            /\ nodes'[k].cleanup = nodes[k].cleanup
        /\ \A k \in Nodes \ {n} : nodes'[k].setup = nodes[k].setup
    BY <1>1 DEF NodeChanges
  <1>6. Earlier'
    <2> SUFFICES ASSUME NEW m \in Nodes, NEW p \in Nodes, nodes[m].parent = p,
                        nodes'[p].setup # None, NEW u \in Nodes, nodes[m].result = u
                 PROVE  nodes'[u].setup < nodes'[p].setup
      BY <1>1, <1>5, UsesStay DEF Earlier, SameUse
    <2>1. nodes[u].setup \in DOMAIN segments
      BY RanSegment
    <2>2. u # n /\ nodes'[u].setup = nodes[u].setup
      BY <1>2, <1>5, <2>1, ShapeTypes
    <2>3. CASE p = n
      BY <1>1, <2>1, <2>2, <2>3, ShapeTypes
    <2>4. CASE p # n
      BY <1>5, <2>2, <2>4 DEF ScopeInv, Earlier
    <2> QED
      BY <2>3, <2>4
  <1>7. Late' /\ CleanedAfterUse'
    <2>1. Late'
      BY <1>1, <1>5 DEF ScopeInv, Late, NodeChanges
    <2> QED
      BY <1>1, <2>1 DEF Late, CleanedAfterUse, Children
  <1>8. Exits'
    <2>1. \A k \in Nodes : Waits(k)' <=> Waits(k)
      BY <1>1, <1>5 DEF Waits, IsGenerator, NodeChanges, SameUse
    <2>2. \A k \in Nodes : /\ nodes'[k].dep = nodes[k].dep
                           /\ Waits(k) => nodes'[k].setup = nodes[k].setup
      BY <1>1, <1>2, <1>5, UsesStay DEF SameUse, Waits
    <2> QED
      BY <1>1, <2>1, <2>2, UsesStay, ExitsStay DEF ScopeInv
  <1> QED
    BY <1>3, <1>4, <1>6, <1>7, <1>8 DEF ScopeInv

LEMMA ExecutedScope ==
    ASSUME ShapeInv, CacheInv, ScopeInv, NEW n, Finished(n)
    PROVE  ScopeInv'
  <1>1. /\ phase = "solving" /\ open # None /\ n = segments[open].node /\ Executing(n)
        /\ frames # <<>> /\ NodeChanges(n)
        /\ nodes'[n].setup = nodes[n].setup /\ nodes'[n].cleanup = nodes[n].cleanup
        /\ nodes'[n].result = n
        /\ segments' \in Seq(SegmentType) /\ Len(segments') = Len(segments)
        /\ \A k \in DOMAIN segments \ {open} : segments'[k] = segments[k]
        /\ ~finalized => segments'[open].status # "incomplete"
        /\ exits' \in [Scopes -> Seq(Nat)] /\ StackOf(n) \in Scopes
        /\ \A s \in Scopes : exits'[s] = IF s = StackOf(n) /\ IsGenerator(n)
                                         THEN Append(exits[s], n) ELSE exits[s]
        /\ UNCHANGED <<app, phase, finalized>>
    BY DEF Finished
  <1>2. /\ n \in Nodes /\ nodes[n].result = None /\ nodes[n].cleanup = None
        /\ nodes[n].parent = Frame.node /\ nodes[n].setup = open /\ n # None /\ n \in Nat
        /\ open = Len(segments) /\ Len(segments) \in Nat
        /\ DOMAIN segments = 1 .. Len(segments) /\ DOMAIN segments' = DOMAIN segments
    BY <1>1, ShapeTypes DEF Executing, ShapeInv, Awaited
  <1>3. Allowed' /\ Unwound'
    BY <1>1 DEF ScopeInv, Allowed, Unwound
  <1>4. Ended'
    BY <1>1, <1>2 DEF ScopeInv, Ended
  <1>5. Related'
    BY <1>1, UsesStay, RelatedStays DEF ScopeInv
  <1>6. /\ \A k \in Nodes : /\ nodes'[k].setup = nodes[k].setup
                            /\ nodes'[k].cleanup = nodes[k].cleanup
                            /\ nodes'[k].dep = nodes[k].dep
                            /\ nodes'[k].parent = nodes[k].parent
                            /\ IsGenerator(k)' = IsGenerator(k)
        /\ \A k \in Nodes \ {n} : nodes'[k].result = nodes[k].result
        /\ Nodes' = Nodes
    BY <1>1 DEF NodeChanges, SameUse, IsGenerator
  <1>7. Earlier'
    <2> SUFFICES ASSUME NEW m \in Nodes, NEW p \in Nodes, nodes[m].parent = p,
                        nodes[p].setup # None, NEW u \in Nodes, nodes'[m].result = u
                 PROVE  nodes[u].setup < nodes[p].setup
      BY <1>6 DEF Earlier
    <2>1. m # n
      <3> SUFFICES ASSUME p = Frame.node
                   PROVE  FALSE
        BY <1>2
      <3>1. /\ Len(frames) \in Nat \ {0} /\ Frame = frames[Len(frames)]
            /\ Len(frames) > 1 => Waiting(Len(frames))
        BY <1>1, Innermost
      <3>2. Len(frames) > 1
        BY <1>1, <3>1, ShapeTypes DEF ShapeInv, Spine
      <3> QED
        BY <3>1, <3>2 DEF Waiting
    <2> QED
      BY <1>6, <2>1 DEF ScopeInv, Earlier
  <1>8. Late' /\ CleanedAfterUse'
    <2>1. Late'
      BY <1>1, <1>6 DEF ScopeInv, Late
    <2> QED
      BY <1>1, <2>1 DEF Late, CleanedAfterUse, Children
  <1>9. \A k \in Nodes : k # n => (Waits(k)' <=> Waits(k))
    BY <1>6 DEF Waits
  <1>10. ~ Waits(n)
    BY <1>2 DEF Waits
  <1>11. Exits'
    <2>1. CASE ~ IsGenerator(n)
      <3>1. exits' = exits
        BY <1>1, <2>1, ShapeTypes
      <3>2. ~ Waits(n)'
        BY <1>2, <1>6, <2>1 DEF Waits
      <3> QED
        BY <1>1, <1>6, <1>9, <1>10, <3>1, <3>2, ExitsStay DEF ScopeInv
    <2>2. CASE IsGenerator(n)
      <3>1. Waits(n)'
        BY <1>1, <1>2, <1>6, <2>2 DEF Waits
      <3>2. \A k \in Nodes : StackOf(k)' = StackOf(k)
        BY <1>1, <1>6 DEF StackOf
      <3>3. ASSUME NEW s \in Scopes
            PROVE  /\ DOMAIN exits[s] = 1 .. Len(exits[s]) /\ Len(exits[s]) \in Nat
                   /\ s # StackOf(n) => exits'[s] = exits[s]
                   /\ s = StackOf(n) =>
                        /\ DOMAIN exits'[s] = 1 .. Len(exits[s]) + 1
                        /\ \A k \in DOMAIN exits[s] : exits'[s][k] = exits[s][k]
                        /\ exits'[s][Len(exits[s]) + 1] = n
        <4>1. exits[s] \in Seq(Nat)
          BY ShapeTypes
        <4>2. exits'[s] = IF s = StackOf(n) THEN Append(exits[s], n) ELSE exits[s]
          BY <1>1, <2>2
        <4>3. /\ Len(exits[s]) \in Nat /\ DOMAIN exits[s] = 1 .. Len(exits[s])
              /\ DOMAIN Append(exits[s], n) = 1 .. Len(exits[s]) + 1
              /\ \A k \in 1 .. Len(exits[s]) : Append(exits[s], n)[k] = exits[s][k]
              /\ Append(exits[s], n)[Len(exits[s]) + 1] = n
          BY <1>2, <4>1, Appended
        <4> QED
          BY <4>2, <4>3
      <3>4. ASSUME NEW s \in Scopes, NEW k \in DOMAIN exits[s], NEW m, m = exits[s][k]
            PROVE  /\ m \in Nodes /\ m # n /\ Waits(m) /\ StackOf(m) = s
                   /\ nodes[m].setup \in Nat /\ nodes[m].setup < open
        <4>1. m \in Nodes /\ Waits(m) /\ StackOf(m) = s
          BY <3>4 DEF ShapeInv, Named, ScopeInv, Exits, OnStack
        <4>2. m # n
          BY <1>10, <4>1
        <4>3. nodes[m].setup \in DOMAIN segments /\ segments[nodes[m].setup].node = m
          BY <4>1, RanSegment DEF Waits
        <4> QED
          BY <1>1, <1>2, <4>1, <4>2, <4>3
      <3>5. ASSUME NEW s \in Scopes, NEW k \in DOMAIN exits'[s], NEW m, m = exits'[s][k]
            PROVE  \/ k \in DOMAIN exits[s] /\ m = exits[s][k]
                   \/ s = StackOf(n) /\ k = Len(exits[s]) + 1 /\ m = n
        <4>1. CASE s = StackOf(n)
          <5>1. k \in DOMAIN exits[s] \/ k = Len(exits[s]) + 1
            BY <3>3, <3>5, <4>1
          <5> QED
            BY <3>3, <3>5, <4>1, <5>1
        <4>2. CASE s # StackOf(n)
          BY <3>3, <3>5, <4>2
        <4> QED
          BY <4>1, <4>2
      <3>6. OnStack'
        <4> SUFFICES ASSUME NEW s \in Scopes, NEW k \in DOMAIN exits'[s],
                            NEW m, m = exits'[s][k]
                     PROVE  Waits(m)' /\ StackOf(m)' = s
          BY DEF OnStack, Waits, StackOf
        <4>1. CASE k \in DOMAIN exits[s] /\ m = exits[s][k]
          BY <1>9, <3>2, <3>4, <4>1
        <4>2. CASE s = StackOf(n) /\ m = n
          BY <1>2, <3>1, <3>2, <4>2
        <4> QED
          BY <3>5, <4>1, <4>2
      <3>7. Queued'
        <4> SUFFICES ASSUME NEW m \in Nodes, Waits(m)', NEW s, s = StackOf(m)
                     PROVE  \E k \in DOMAIN exits'[s] : exits'[s][k] = m
          BY <1>6, <3>2 DEF Queued
        <4>1. CASE m = n
          <5>1. Len(exits[s]) + 1 \in DOMAIN exits'[s] /\ exits'[s][Len(exits[s]) + 1] = m
            BY <1>1, <3>3, <4>1
          <5> QED
            BY <5>1
        <4>2. CASE m # n
          <5>1. PICK k \in DOMAIN exits[s] : exits[s][k] = m
            BY <1>9, <4>2 DEF ScopeInv, Exits, Queued
          <5>2. s \in Scopes
            BY ShapeTypes DEF StackOf, NodeType
          <5>3. k \in DOMAIN exits'[s] /\ exits'[s][k] = m
            BY <3>3, <5>1, <5>2
          <5> QED
            BY <5>3
        <4> QED
          BY <4>1, <4>2
      <3>8. Sorted'
        <4> SUFFICES ASSUME NEW s \in Scopes, NEW j \in DOMAIN exits'[s],
                            NEW k \in DOMAIN exits'[s], j < k,
                            NEW l, l = exits'[s][j], NEW m, m = exits'[s][k]
                     PROVE  nodes'[l].setup < nodes'[m].setup
          BY DEF Sorted
        <4>1. j \in DOMAIN exits[s] /\ l = exits[s][j]
          <5>1. \/ k \in DOMAIN exits[s]
                \/ s = StackOf(n) /\ k = Len(exits[s]) + 1
            BY <3>5
          <5>2. \/ j \in DOMAIN exits[s] /\ l = exits[s][j]
                \/ s = StackOf(n) /\ j = Len(exits[s]) + 1
            BY <3>5
          <5> QED
            BY <3>3, <5>1, <5>2
        <4>2. l \in Nodes /\ nodes[l].setup \in Nat /\ nodes[l].setup < open
          BY <3>4, <4>1
        <4>3. CASE k \in DOMAIN exits[s] /\ m = exits[s][k]
          <5>1. nodes[l].setup < nodes[m].setup
            BY <4>1, <4>3 DEF ScopeInv, Exits, Sorted
          <5>2. m \in Nodes
            BY <3>4, <4>3
          <5> QED
            BY <1>6, <4>2, <5>1, <5>2
        <4>4. CASE m = n
          BY <1>2, <1>6, <4>2, <4>4
        <4> QED
          BY <3>5, <4>3, <4>4
      <3> QED
        BY <3>6, <3>7, <3>8 DEF Exits
    <2> QED
      BY <2>1, <2>2
  <1> QED
    BY <1>3, <1>4, <1>5, <1>7, <1>8, <1>11 DEF ScopeInv

\* A generator that was given a value waits no longer when that is cleaned up.
LEMMA UserCleaned ==
    ASSUME ShapeInv, CacheInv, ScopeInv, Unwinding \in Scopes, exits[Unwinding] # <<>>,
           NEW u, u = Last(exits[Unwinding]),
           NEW n \in Nodes, NEW m \in Nodes, nodes[m].parent = n, nodes[m].result = u,
           IsGenerator(n), nodes[n].result = n
    PROVE  nodes[n].cleanup # None
  <1> SUFFICES ASSUME nodes[n].cleanup = None
               PROVE  FALSE
    OBVIOUS
  <1> DEFINE q == exits[Unwinding]
             r == exits[StackOf(n)]
  <1>1. q \in Seq(Nat) /\ StackOf(n) \in Scopes
    BY ShapeTypes DEF StackOf, NodeType
  <1>2. /\ Len(q) \in DOMAIN q /\ u = q[Len(q)] /\ Len(q) \in Nat
        /\ DOMAIN q = 1 .. Len(q)
    <2>1. q # <<>> /\ u = Last(q) /\ q \in Seq(Nat)
      BY <1>1
    <2> HIDE DEF q
    <2>2. /\ Len(q) \in Nat \ {0} /\ DOMAIN q = 1 .. Len(q) /\ Last(q) = q[Len(q)]
      BY <2>1, FrontLast
    <2> QED
      BY <2>1, <2>2
  <1>3. u \in Nodes /\ Waits(u) /\ StackOf(u) = Unwinding
    BY <1>2 DEF ShapeInv, Named, ScopeInv, Exits, OnStack
  <1>4. Waits(n)
    BY DEF Waits
  <1>5. PICK j \in DOMAIN r : r[j] = n
    BY <1>4 DEF ScopeInv, Exits, Queued
  <1>6. /\ nodes[n].setup \in DOMAIN segments /\ nodes[u].setup \in DOMAIN segments
        /\ nodes[u].dep = nodes[m].dep
    BY <1>3, RanSegment
  <1>7. nodes[n].setup \in Nat /\ nodes[u].setup \in Nat
    <2>1. DOMAIN segments = 1 .. Len(segments) /\ Len(segments) \in Nat
      BY ShapeTypes
    <2> QED
      BY <1>6, <2>1
  <1>8. nodes[u].setup < nodes[n].setup
    BY <1>3, <1>7, ShapeTypes DEF ScopeInv, Earlier
  <1>9. CASE StackOf(n) = Unwinding
    <2>1. j \in DOMAIN q /\ q[j] = n
      BY <1>5, <1>9
    <2>2. j < Len(q) \/ j = Len(q)
      BY <1>2, <2>1
    <2>3. CASE j < Len(q)
      <3>1. nodes[n].setup < nodes[u].setup
        BY <1>2, <2>1, <2>3 DEF ScopeInv, Exits, Sorted
      <3> QED
        BY <1>7, <1>8, <3>1
    <2>4. CASE j = Len(q)
      BY <1>2, <1>7, <1>8, <2>1, <2>4
    <2> QED
      BY <2>2, <2>3, <2>4
  <1>10. CASE StackOf(n) # Unwinding
    <2>1. r # <<>>
      BY <1>5
    <2>2. Unwinding = "function" /\ StackOf(n) = "request"
      BY <1>1, <1>10, <2>1 DEF Unwinding, Scopes
    <2>3. /\ app.scope[nodes[m].dep] = "function" /\ app.scope[nodes[n].dep] = "request"
      BY <1>3, <1>6, <2>2 DEF StackOf
    <2>4. /\ nodes[n].call = app.override[nodes[n].dep] /\ nodes[n].dep \in Deps
          /\ nodes[n].call \in app.generators
      BY ShapeTypes DEF ShapeInv, Named, NodeType, IsGenerator
    <2>5. PICK k \in DOMAIN app.uses[nodes[n].call] :
                 app.uses[nodes[n].call][k].dep = nodes[m].dep
      BY ShapeTypes DEF ScopeInv, Related, UsedBy
    <2>6. app.scope[app.uses[nodes[n].call][k].dep] # "function"
      BY <2>3, <2>4 DEF ScopeInv, Allowed, ScopesAllowed
    <2> QED
      BY <2>3, <2>5, <2>6
  <1> QED
    BY <1>9, <1>10

LEMMA CleanScope ==
    ASSUME ShapeInv, CacheInv, ScopeInv, NEW n, Cleans(n)
    PROVE  ScopeInv'
  <1>1. /\ phase = "closing" /\ open = None /\ Unwinding \in Scopes
        /\ exits[Unwinding] # <<>> /\ n = Last(exits[Unwinding]) /\ NodeChanges(n)
        /\ nodes'[n].setup = nodes[n].setup /\ nodes'[n].cleanup = Len(segments) + 1
        /\ nodes'[n].result = nodes[n].result
        /\ segments' \in Seq(SegmentType) /\ Len(segments') = Len(segments) + 1
        /\ \A k \in DOMAIN segments : segments'[k] = segments[k]
        /\ open' = Len(segments) + 1
        /\ exits' \in [Scopes -> Seq(Nat)] /\ exits'[Unwinding] = Front(exits[Unwinding])
        /\ \A s \in Scopes \ {Unwinding} : exits'[s] = exits[s]
        /\ UNCHANGED <<app, phase, finalized>>
    BY DEF Cleans
  <1>2. Allowed' /\ Unwound' /\ Ended' /\ Late'
    BY <1>1, BeginsLast DEF ScopeInv, Allowed, Unwound, Late
  <1>3. Related'
    BY <1>1, UsesStay, RelatedStays DEF ScopeInv
  <1>4. /\ \A k \in Nodes : /\ nodes'[k].setup = nodes[k].setup
                            /\ nodes'[k].result = nodes[k].result
                            /\ nodes'[k].dep = nodes[k].dep
                            /\ nodes'[k].parent = nodes[k].parent
                            /\ IsGenerator(k)' = IsGenerator(k)
                            /\ StackOf(k)' = StackOf(k)
        /\ \A k \in Nodes \ {n} : nodes'[k].cleanup = nodes[k].cleanup
        /\ Nodes' = Nodes /\ n \in Nodes
    BY <1>1 DEF NodeChanges, SameUse, IsGenerator, StackOf
  <1>5. Earlier'
    BY <1>4 DEF ScopeInv, Earlier
  <1>6. Len(segments) \in Nat /\ Len(segments) + 1 # None
    BY ShapeTypes
  <1>7. /\ \A k \in Nodes \ {n} : Waits(k)' <=> Waits(k)
        /\ ~ Waits(n)'
    BY <1>1, <1>4, <1>6 DEF Waits
  <1> DEFINE last == Len(exits[Unwinding])
  <1>8. /\ exits[Unwinding] \in Seq(Nat) /\ last \in Nat /\ last \in DOMAIN exits[Unwinding]
        /\ DOMAIN exits[Unwinding] = 1 .. last
        /\ DOMAIN exits'[Unwinding] = 1 .. last - 1
        /\ \A k \in DOMAIN exits'[Unwinding] : exits'[Unwinding][k] = exits[Unwinding][k]
        /\ exits[Unwinding][last] = n
    <2>1. exits[Unwinding] \in Seq(Nat)
      BY <1>1, ShapeTypes
    <2> DEFINE q == exits[Unwinding]
    <2>2. q \in Seq(Nat) /\ q # <<>> /\ n = Last(q) /\ exits'[Unwinding] = Front(q)
      BY <1>1, <2>1
    <2> HIDE DEF q
    <2>3. /\ Len(q) \in Nat \ {0} /\ DOMAIN q = 1 .. Len(q) /\ q[Len(q)] = n
          /\ DOMAIN Front(q) = 1 .. Len(q) - 1
          /\ \A k \in 1 .. Len(q) - 1 : Front(q)[k] = q[k]
      BY <2>2, FrontLast
    <2> QED
      BY <2>2, <2>3 DEF q
  <1> HIDE DEF last
  <1>9. ASSUME NEW s \in Scopes, NEW k \in DOMAIN exits'[s]
        PROVE  k \in DOMAIN exits[s] /\ exits'[s][k] = exits[s][k]
    <2>1. CASE s = Unwinding
      BY <1>8, <1>9, <2>1
    <2>2. CASE s # Unwinding
      BY <1>1, <1>9, <2>2
    <2> QED
      BY <2>1, <2>2
  <1>a. Waits(n) /\ StackOf(n) = Unwinding
    BY <1>1, <1>8 DEF ScopeInv, Exits, OnStack
  <1>10. ASSUME NEW s \in Scopes, NEW k \in DOMAIN exits'[s], NEW m, m = exits'[s][k]
         PROVE  m \in Nodes /\ m # n /\ Waits(m) /\ StackOf(m) = s
    <2>1. k \in DOMAIN exits[s] /\ m = exits[s][k]
      BY <1>9, <1>10
    <2>2. m \in Nodes /\ Waits(m) /\ StackOf(m) = s
      BY <2>1 DEF ShapeInv, Named, ScopeInv, Exits, OnStack
    <2>3. m # n
      <3> SUFFICES ASSUME m = n
                   PROVE  FALSE
        OBVIOUS
      <3>1. StackOf(n) = Unwinding /\ Waits(n)
        BY <1>a
      <3>2. s = Unwinding /\ k < last
        BY <1>8, <1>10, <2>2, <3>1
      <3>3. nodes[m].setup < nodes[n].setup
        BY <1>8, <2>1, <3>2 DEF ScopeInv, Exits, Sorted
      <3>4. nodes[n].setup \in Nat
        BY <1>4, <3>1, RanSegment, ShapeTypes DEF Waits
      <3> QED
        BY <3>3, <3>4
    <2> QED
      BY <2>2, <2>3
  <1>11. OnStack'
    <2> SUFFICES ASSUME NEW s \in Scopes, NEW k \in DOMAIN exits'[s],
                        NEW m, m = exits'[s][k]
                 PROVE  Waits(m)' /\ StackOf(m)' = s
      BY DEF OnStack, Waits, StackOf
    <2> QED
      BY <1>4, <1>7, <1>10
  <1>12. Queued'
    <2> SUFFICES ASSUME NEW m \in Nodes, Waits(m)', NEW s, s = StackOf(m)
                 PROVE  \E k \in DOMAIN exits'[s] : exits'[s][k] = m
      BY <1>4 DEF Queued
    <2>1. m # n /\ Waits(m)
      BY <1>7
    <2>2. PICK k \in DOMAIN exits[s] : exits[s][k] = m
      BY <2>1 DEF ScopeInv, Exits, Queued
    <2>3. s \in Scopes
      BY ShapeTypes DEF StackOf, NodeType
    <2>4. k \in DOMAIN exits'[s]
      <3>1. CASE s = Unwinding
        BY <1>8, <2>1, <2>2, <3>1
      <3>2. CASE s # Unwinding
        BY <1>1, <2>2, <2>3, <3>2
      <3> QED
        BY <3>1, <3>2
    <2> QED
      BY <1>9, <2>2, <2>3, <2>4
  <1>13. Sorted'
    <2> SUFFICES ASSUME NEW s \in Scopes, NEW j \in DOMAIN exits'[s],
                        NEW k \in DOMAIN exits'[s], j < k,
                        NEW l, l = exits'[s][j], NEW m, m = exits'[s][k]
                 PROVE  nodes'[l].setup < nodes'[m].setup
      BY DEF Sorted
    <2>1. /\ j \in DOMAIN exits[s] /\ k \in DOMAIN exits[s]
          /\ l = exits[s][j] /\ m = exits[s][k]
      BY <1>9
    <2>2. nodes[l].setup < nodes[m].setup
      BY <2>1 DEF ScopeInv, Exits, Sorted
    <2> QED
      BY <1>4, <1>10, <2>2
  <1>14. CleanedAfterUse'
    <2> SUFFICES ASSUME NEW k \in Nodes, NEW m \in Nodes, nodes[m].parent = k,
                        IsGenerator(k), nodes[k].result = k,
                        NEW u \in Nodes, nodes[m].result = u,
                        IsGenerator(u), nodes'[u].cleanup # None
                 PROVE  nodes'[k].cleanup # None /\ nodes'[k].cleanup < nodes'[u].cleanup
      BY <1>4 DEF CleanedAfterUse, Children
    <2>1. CASE u = n
      <3>1. nodes[k].cleanup # None
        BY <1>1, <2>1, UserCleaned
      <3>2. k # n
        BY <1>a, <3>1 DEF Waits
      <3>3. nodes[k].cleanup \in DOMAIN segments
        BY <3>1 DEF CacheInv, AllFit, Fits
      <3>4. nodes[k].cleanup < Len(segments) + 1
        BY <1>6, <3>3, ShapeTypes
      <3> QED
        BY <1>1, <1>4, <2>1, <3>1, <3>2, <3>4
    <2>2. CASE u # n
      <3>1. nodes'[u].cleanup = nodes[u].cleanup
        BY <1>4, <2>2
      <3>2. nodes[k].cleanup # None /\ nodes[k].cleanup < nodes[u].cleanup
        BY <3>1 DEF ScopeInv, CleanedAfterUse, Children
      <3>3. k # n
        BY <1>a, <3>2 DEF Waits
      <3> QED
        BY <1>4, <3>1, <3>2, <3>3
    <2> QED
      BY <2>1, <2>2
  <1> QED
    BY <1>2, <1>3, <1>5, <1>11, <1>12, <1>13, <1>14 DEF ScopeInv, Exits

\* A step that leaves the nodes and the exit stacks alone.
LEMMA NodesAloneScope ==
    ASSUME ShapeInv, ScopeInv, UNCHANGED <<app, nodes, exits>>, Ended', Unwound',
           phase' \in {"solving", "solved"} => phase \in {"solving", "solved"}
    PROVE  ScopeInv'
  <1>1. Allowed' /\ Late'
    BY DEF ScopeInv, Allowed, Late, Nodes
  <1>2. Related' /\ Earlier' /\ CleanedAfterUse'
    BY DEF ScopeInv, Related, UsedBy, Earlier, CleanedAfterUse, Nodes, Children, IsGenerator
  <1>3. Exits'
    BY DEF ScopeInv, Exits, OnStack, Queued, Sorted, Waits, Nodes, IsGenerator, StackOf
  <1> QED
    BY <1>1, <1>2, <1>3 DEF ScopeInv

LEMMA ScopeStep ==
    ASSUME ShapeInv, CacheInv, ScopeInv, [Next]_vars
    PROVE  ScopeInv'
  <1>1. CASE ReturnInvalid
    BY <1>1, NodesAloneScope DEF ReturnInvalid, ScopeInv, Ended, Unwound
  <1>2. CASE Leaves
    <2>1. Unwound'
      BY <1>2 DEF Leaves, Unwound
    <2>2. Ended'
      <3>1. DOMAIN segments' = DOMAIN segments
        BY <1>2, ShapeTypes DEF Leaves
      <3> QED
        BY <1>2, <3>1 DEF Leaves, ScopeInv, Ended
    <2> QED
      BY <1>2, <2>1, <2>2, NodesAloneScope DEF Leaves
  <1>3. CASE GoesOn
    <2>1. Ended'
      BY <1>3 DEF GoesOn, ScopeInv, Ended
    <2>2. Unwound'
      <3>1. exits[Unwinding] = <<>> => \A s \in Scopes : exits[s] = <<>>
        BY DEF Unwinding, Scopes
      <3> QED
        BY <1>3, <3>1 DEF GoesOn, ScopeInv, Unwound
    <2> QED
      BY <1>3, <2>1, <2>2, NodesAloneScope DEF GoesOn
  <1> QED
    BY <1>1, <1>2, <1>3, StepCases, DescendScope, TakeCachedScope, ExecuteScope,
       ExecutedScope, CleanScope

LEMMA ScopeInit == Init => ScopeInv
  <1> SUFFICES ASSUME Init PROVE ScopeInv
    OBVIOUS
  <1>1. Nodes = {} /\ segments = <<>> /\ \A s \in Scopes : DOMAIN exits[s] = {}
    BY DEF Init, Nodes, Scopes
  <1>2. Allowed
    BY ApplicationsAssumption DEF Init, Allowed
  <1>3. Unwound
    BY DEF Init, Unwound
  <1> QED
    BY <1>1, <1>2, <1>3
       DEF ScopeInv, Related, Earlier, Late, Exits, OnStack, Queued, Sorted, Ended,
           CleanedAfterUse, Nodes

(***************************************************************************)
(* Scopes nest: no generator is cleaned up before those that were given    *)
(* its value, each that yielded is cleaned up once the exit stacks are     *)
(* unwound, no segment is left open, and the context names the segment     *)
(* that is awaited, on errors, cancellations and finalization at any step. *)
(***************************************************************************)
THEOREM ScopesNest == Spec => []ScopesAreClean
  <1>1. ASSUME ShapeInv, CacheInv, ScopeInv
        PROVE  ScopesAreClean
    <2>1. CleanedAfterUse /\ StackFollows
      BY <1>1 DEF ScopeInv, ShapeInv
    <2>2. EndsClean
      <3> SUFFICES ASSUME phase = "ended"
                   PROVE  /\ \A n \in Nodes : (IsGenerator(n) /\ nodes[n].result = n)
                                                 = (nodes[n].cleanup # None)
                          /\ ~finalized => \A s \in DOMAIN segments :
                                               segments[s].status # "incomplete"
        BY DEF EndsClean
      <3>1. ASSUME NEW n \in Nodes
            PROVE  (IsGenerator(n) /\ nodes[n].result = n) = (nodes[n].cleanup # None)
        <4>1. StackOf(n) \in Scopes
          BY <1>1, ShapeTypes DEF StackOf, NodeType
        <4>2. exits[StackOf(n)] = <<>>
          BY <1>1, <4>1 DEF ScopeInv, Unwound
        <4>3. ~ Waits(n)
          BY <1>1, <4>2 DEF ScopeInv, Exits, Queued
        <4>4. nodes[n].cleanup # None => IsGenerator(n) /\ nodes[n].result = n
          BY <1>1 DEF CacheInv, AllFit, Fits
        <4> QED
          BY <4>3, <4>4 DEF Waits, IsGenerator
      <3>2. open = None /\ \A s \in DOMAIN segments : s # None
        BY SMTT(30), <1>1, ShapeTypes DEF ShapeInv, Awaited
      <3> QED
        BY <1>1, <3>1, <3>2 DEF ScopeInv, Ended
    <2> QED
      BY <2>1, <2>2 DEF ScopesAreClean
  <1>2. ShapeInv /\ CacheInv /\ ScopeInv /\ [Next]_vars => ShapeInv' /\ CacheInv' /\ ScopeInv'
    BY ShapeStep, CacheStep, ScopeStep
  <1> QED
    BY <1>1, <1>2, ShapeInit, CacheInit, ScopeInit, PTL DEF Spec

-----------------------------------------------------------------------------
(* The logical tree. *)

\* The nodes below n are those of the first c uses, in their order.
ShowsFirst(n, uses, c) ==
    \E child \in [1 .. c -> Nodes] :
        /\ Children(n) = {child[k] : k \in 1 .. c}
        /\ \A j, k \in 1 .. c : j < k => child[j] < child[k]
        /\ \A k \in 1 .. c : nodes[child[k]].dep = uses[k].dep

\* Of what a call of _solve uses, how much has a node.
Shown(k) == frames[k].done + IF k < Len(frames) \/ open # None THEN 1 ELSE 0

BeingSolved(n) == \E k \in DOMAIN frames : frames[k].node = n

\* All that the callable of node n uses has a node.
Whole(n) ==
    ShowsFirst(n, app.uses[nodes[n].call], Len(app.uses[nodes[n].call]))

Growing == \A k \in DOMAIN frames :
    ShowsFirst(frames[k].node, app.uses[frames[k].call], Shown(k))

Grown ==
    /\ phase \in {"solving", "solved"} => \A n \in Nodes : ~ BeingSolved(n) => Whole(n)
    /\ phase = "solved" => ShowsFirst(None, app.uses[Route], Len(app.uses[Route]))

TreeInv == Growing /\ Grown

\* What is below a node stays, as no use changes and no node is added.
LEMMA ChildrenStay ==
    ASSUME Nodes' = Nodes, \A k \in Nodes : SameUse(k),
           NEW n, NEW uses, NEW c, ShowsFirst(n, uses, c)
    PROVE  ShowsFirst(n, uses, c)'
  <1>1. Children(n)' = Children(n)
    BY DEF Children, SameUse
  <1>2. PICK child \in [1 .. c -> Nodes] :
           /\ Children(n) = {child[k] : k \in 1 .. c}
           /\ \A j, k \in 1 .. c : j < k => child[j] < child[k]
           /\ \A k \in 1 .. c : nodes[child[k]].dep = uses[k].dep
    BY DEF ShowsFirst
  <1>3. \A k \in 1 .. c : nodes'[child[k]].dep = uses[k].dep
    BY <1>2 DEF SameUse
  <1> QED
    BY <1>1, <1>2, <1>3 DEF ShowsFirst

\* A node whose callable is solved further keeps what is below it.
LEMMA WholeStays ==
    ASSUME Nodes' = Nodes, \A k \in Nodes : SameUse(k), app' = app,
           NEW n \in Nodes, Whole(n)
    PROVE  Whole(n)'
  <1> SUFFICES ASSUME NEW uses, uses = app.uses[nodes[n].call], NEW c, c = Len(uses)
               PROVE  ShowsFirst(n, uses, c)'
    BY DEF Whole, SameUse
  <1> QED
    BY ChildrenStay DEF Whole

\* The innermost call has shown all it uses.
LEMMA AllShown ==
    ASSUME ShapeInv, TreeInv, frames # <<>>, open = None, Frame.done = Len(Uses(Frame))
    PROVE  /\ Len(frames) > 1 => Whole(Frame.node)
           /\ Len(frames) = 1 => ShowsFirst(None, app.uses[Route], Len(app.uses[Route]))
  <1>1. /\ Len(frames) \in Nat \ {0} /\ Frame = frames[Len(frames)] /\ Frame.done \in Nat
        /\ Len(frames) \in DOMAIN frames /\ Len(frames) > 1 => Waiting(Len(frames))
    BY Innermost, ShapeTypes DEF FrameType
  <1>2. Shown(Len(frames)) = Frame.done
    BY <1>1 DEF Shown
  <1>3. ShowsFirst(Frame.node, app.uses[Frame.call], Len(app.uses[Frame.call]))
    BY <1>1, <1>2 DEF TreeInv, Growing, Uses
  <1>4. Len(frames) > 1 => Frame.call = nodes[Frame.node].call
    BY <1>1 DEF Waiting
  <1>5. Len(frames) = 1 => Frame.call = Route /\ Frame.node = None
    BY <1>1 DEF ShapeInv, Spine
  <1> QED
    BY <1>3, <1>4, <1>5 DEF Whole

\* The innermost call is left, and its node is whole.
LEMMA CallLeft ==
    ASSUME ShapeInv, TreeInv, phase = "solving", UNCHANGED <<app, phase>>,
           Len(frames) > 1, open = None, Frame.done = Len(Uses(Frame)),
           Nodes' = Nodes, \A k \in Nodes : SameUse(k),
           CallsKept, Len(frames') = Len(frames) - 1,
           NEW last, last = Len(frames) - 1, Shown(last)' = Shown(last)
    PROVE  TreeInv'
  <1>1. /\ Len(frames) \in Nat \ {0} /\ Frame = frames[Len(frames)]
        /\ DOMAIN frames = 1 .. Len(frames) /\ frames # <<>>
        /\ frames' \in Seq(FrameType) /\ DOMAIN frames' = 1 .. Len(frames) - 1
        /\ \A k \in 1 .. Len(frames) - 1 :
              /\ frames'[k].node = frames[k].node /\ frames'[k].call = frames[k].call
              /\ k < Len(frames) - 1 => frames'[k] = frames[k]
    BY Innermost, ShapeTypes DEF CallsKept, ShapeInv, Spine
  <1>2. Growing'
    <2> SUFFICES ASSUME NEW k \in 1 .. Len(frames) - 1, NEW n, n = frames[k].node,
                        NEW uses, uses = app.uses[frames[k].call], NEW c, c = Shown(k)'
                 PROVE  ShowsFirst(n, uses, c)'
      BY <1>1 DEF Growing
    <2>1. c = Shown(k)
      <3>1. CASE k = last
        BY <3>1
      <3>2. CASE k # last
        <4>1. k < Len(frames') /\ k < Len(frames) /\ frames'[k] = frames[k]
          BY <1>1, <3>2
        <4> QED
          BY <4>1 DEF Shown
      <3> QED
        BY <3>1, <3>2
    <2>2. ShowsFirst(n, uses, c)
      <3>1. k \in DOMAIN frames
        BY <1>1
      <3>2. ShowsFirst(frames[k].node, app.uses[frames[k].call], Shown(k))
        BY <3>1 DEF TreeInv, Growing
      <3> QED
        BY <2>1, <3>2
    <2> QED
      BY <2>2, ChildrenStay
  <1>3. Grown'
    <2> SUFFICES ASSUME NEW n \in Nodes, ~ BeingSolved(n)'
                 PROVE  Whole(n)'
      BY DEF Grown
    <2>1. CASE n = Frame.node
      BY <1>1, <2>1, AllShown, WholeStays
    <2>2. CASE n # Frame.node
      <3>1. ~ BeingSolved(n)
        <4> SUFFICES ASSUME NEW k \in DOMAIN frames, frames[k].node = n
                     PROVE  FALSE
          BY DEF BeingSolved
        <4>1. k \in 1 .. Len(frames) - 1
          BY <1>1, <2>2
        <4> QED
          BY <1>1, <4>1 DEF BeingSolved
      <3> QED
        BY <3>1, WholeStays DEF TreeInv, Grown
    <2> QED
      BY <2>1, <2>2
  <1> QED
    BY <1>2, <1>3 DEF TreeInv

\* Nothing is said of the tree once the solver has raised.
LEMMA TreeFallen == frames' = <<>> /\ phase' \in {"closing", "ended"} => TreeInv'
  BY DEF TreeInv, Growing, Grown

LEMMA DescendTree ==
    ASSUME ShapeInv, ScopeInv, TreeInv, NEW site \in Site, Descended(site)
    PROVE  TreeInv'
  <1> SUFFICES ASSUME NEW n, n = Len(nodes) + 1, NEW top, top = Len(frames)
               PROVE  TreeInv'
    OBVIOUS
  <1>1. /\ phase = "solving" /\ open = None /\ frames # <<>>
        /\ site = Uses(Frame)[Frame.done + 1]
        /\ Nodes' = Nodes \cup {n} /\ n \notin Nodes
        /\ \A k \in Nodes : nodes'[k] = nodes[k]
        /\ nodes'[n].dep = site.dep /\ nodes'[n].parent = Frame.node
        /\ frames' \in Seq(FrameType) /\ Len(frames') = top + 1
        /\ \A k \in 1 .. top : frames'[k] = frames[k]
        /\ frames'[top + 1].node = n /\ frames'[top + 1].done = 0
        /\ UNCHANGED <<app, phase, open>>
    BY DEF Descended
  <1>2. /\ top \in Nat \ {0} /\ Frame = frames[top] /\ DOMAIN frames = 1 .. top
        /\ DOMAIN frames' = 1 .. top + 1 /\ Frame \in FrameType /\ n \in Nat /\ n # None
        /\ Nodes = 1 .. Len(nodes) /\ Len(nodes) \in Nat
        /\ \A k \in Nodes : k \in Nat
    BY <1>1, Innermost, ShapeTypes
  <1>3. \A p : p # Frame.node /\ p # n => Children(p)' = Children(p)
    BY <1>1 DEF Children
  <1>4. Children(n)' = {}
    <2>1. \A k \in Nodes : nodes[k].parent # n
      BY <1>1, <1>2 DEF ScopeInv, Related
    <2>2. Frame.node # n
      <3>1. top > 1 => Frame.node \in Nodes
        BY <1>1, Innermost
      <3>2. top = 1 => Frame.node = None
        BY <1>1, <1>2 DEF ShapeInv, Spine
      <3> QED
        BY <1>1, <1>2, <3>1, <3>2
    <2> QED
      BY <1>1, <2>1, <2>2 DEF Children
  <1>5. ASSUME NEW p, p # Frame.node, p # n, NEW uses, NEW c, ShowsFirst(p, uses, c)
        PROVE  ShowsFirst(p, uses, c)'
    <2>1. PICK child \in [1 .. c -> Nodes] :
             /\ Children(p) = {child[k] : k \in 1 .. c}
             /\ \A j, k \in 1 .. c : j < k => child[j] < child[k]
             /\ \A k \in 1 .. c : nodes[child[k]].dep = uses[k].dep
      BY <1>5 DEF ShowsFirst
    <2>2. child \in [1 .. c -> Nodes']
      BY <1>1, <2>1
    <2>3. \A k \in 1 .. c : nodes'[child[k]].dep = uses[k].dep
      BY <1>1, <2>1
    <2>4. Children(p)' = {child[k] : k \in 1 .. c}
      BY <1>3, <1>5, <2>1
    <2> QED
      BY <2>1, <2>2, <2>3, <2>4 DEF ShowsFirst
  <1>6. ASSUME NEW uses
        PROVE  ShowsFirst(n, uses, 0)'
    <2> DEFINE child == [k \in 1 .. 0 |-> n]
    <2>1. child \in [1 .. 0 -> Nodes']
      BY <1>1
    <2>2. 1 .. 0 = {}
      OBVIOUS
    <2> HIDE DEF child
    <2> QED
      BY <1>4, <2>1, <2>2 DEF ShowsFirst
  <1>7. ASSUME NEW p, p = Frame.node, NEW uses, uses = Uses(Frame),
               NEW c \in Nat, c = Frame.done, ShowsFirst(p, uses, c)
        PROVE  ShowsFirst(p, uses, c + 1)'
    <2>1. PICK child \in [1 .. c -> Nodes] :
             /\ Children(p) = {child[k] : k \in 1 .. c}
             /\ \A j, k \in 1 .. c : j < k => child[j] < child[k]
             /\ \A k \in 1 .. c : nodes[child[k]].dep = uses[k].dep
      BY <1>7 DEF ShowsFirst
    <2> DEFINE more == [k \in 1 .. c + 1 |-> IF k = c + 1 THEN n ELSE child[k]]
    <2>2. /\ more \in [1 .. c + 1 -> Nodes'] /\ more[c + 1] = n
          /\ \A k \in 1 .. c : more[k] = child[k] /\ child[k] \in Nodes
          /\ 1 .. c + 1 = (1 .. c) \cup {c + 1} /\ c + 1 \notin 1 .. c
      BY <1>1, <2>1
    <2> HIDE DEF more
    <2>3. Children(p)' = Children(p) \cup {n}
      BY <1>1, <1>7 DEF Children
    <2>4. Children(p)' = {more[k] : k \in 1 .. c + 1}
      <3>1. {more[k] : k \in 1 .. c + 1} = {child[k] : k \in 1 .. c} \cup {n}
        BY <2>2
      <3> QED
        BY <2>1, <2>3, <3>1
    <2>5. ASSUME NEW j \in 1 .. c + 1, NEW k \in 1 .. c + 1, j < k
          PROVE  more[j] < more[k]
      <3>1. j \in 1 .. c /\ more[j] = child[j] /\ more[j] < n
        BY <1>2, <2>2, <2>5
      <3>2. CASE k = c + 1
        BY <2>2, <3>1, <3>2
      <3>3. CASE k # c + 1
        BY <2>1, <2>2, <2>5, <3>1, <3>3
      <3> QED
        BY <3>2, <3>3
    <2>6. ASSUME NEW k \in 1 .. c + 1
          PROVE  nodes'[more[k]].dep = uses[k].dep
      <3>1. CASE k = c + 1
        BY <1>1, <1>7, <2>2, <3>1
      <3>2. CASE k # c + 1
        <4>1. k \in 1 .. c
          BY <3>2
        <4> QED
          BY <1>1, <2>1, <2>2, <4>1
      <3> QED
        BY <3>1, <3>2
    <2> QED
      BY <2>2, <2>4, <2>5, <2>6 DEF ShowsFirst
  <1>8. Growing'
    <2> SUFFICES ASSUME NEW k \in 1 .. top + 1, NEW p, p = frames'[k].node,
                        NEW uses, uses = app.uses[frames'[k].call], NEW c, c = Shown(k)'
                 PROVE  ShowsFirst(p, uses, c)'
      BY <1>1, <1>2 DEF Growing
    <2>1. CASE k = top + 1
      <3>1. c = 0
        BY <1>1, <1>2, <2>1 DEF Shown
      <3> QED
        BY <1>1, <1>6, <2>1, <3>1
    <2>2. CASE k = top
      <3>1. c = Frame.done + 1 /\ Shown(k) = Frame.done /\ Frame.done \in Nat
        BY <1>1, <1>2, <2>2 DEF Shown, FrameType
      <3>2. p = Frame.node /\ uses = Uses(Frame)
        <4>1. /\ app' = app
              /\ frames'[k].node = Frame.node /\ frames'[k].call = Frame.call
          BY <1>1, <1>2, <2>2
        <4> QED
          BY <4>1 DEF Uses
      <3>3. ShowsFirst(frames[k].node, app.uses[frames[k].call], Shown(k))
        BY <1>2, <2>2 DEF TreeInv, Growing
      <3>4. ShowsFirst(p, uses, Frame.done)
        BY <1>2, <2>2, <3>1, <3>2, <3>3 DEF Uses
      <3> QED
        BY <1>7, <3>1, <3>2, <3>4
    <2>3. CASE k < top
      <3>1. k \in DOMAIN frames /\ frames'[k] = frames[k]
        BY <1>1, <1>2, <2>3
      <3>2. c = Shown(k)
        BY <1>1, <1>2, <2>3, <3>1 DEF Shown
      <3>3. ShowsFirst(frames[k].node, app.uses[frames[k].call], Shown(k))
        BY <3>1 DEF TreeInv, Growing
      <3>4. p # Frame.node
        BY <1>1, <1>2, <2>3, <3>1, Innermost
      <3>5. p # n
        <4>1. k > 1 => p \in Nodes
          BY <3>1 DEF ShapeInv, Spine, Waiting
        <4>2. k = 1 => p = None
          BY <1>1, <3>1 DEF ShapeInv, Spine
        <4> QED
          BY <1>1, <1>2, <4>1, <4>2
      <3> QED
        BY <1>5, <3>1, <3>2, <3>3, <3>4, <3>5
    <2> QED
      BY <1>2, <2>1, <2>2, <2>3
  <1>9. Grown'
    <2> SUFFICES ASSUME NEW m \in Nodes', ~ BeingSolved(m)'
                 PROVE  Whole(m)'
      BY <1>1 DEF Grown
    <2>1. m # n /\ m \in Nodes
      BY <1>1, <1>2 DEF BeingSolved
    <2>2. ~ BeingSolved(m)
      <3> SUFFICES ASSUME NEW k \in DOMAIN frames, frames[k].node = m
                   PROVE  FALSE
        BY DEF BeingSolved
      <3>1. k \in DOMAIN frames' /\ frames'[k].node = m
        BY <1>1, <1>2
      <3> QED
        BY <3>1 DEF BeingSolved
    <2>3. Whole(m) /\ m # Frame.node
      BY <1>1, <1>2, <2>1, <2>2 DEF TreeInv, Grown, BeingSolved
    <2> SUFFICES ASSUME NEW uses, uses = app.uses[nodes[m].call], NEW c, c = Len(uses)
                 PROVE  ShowsFirst(m, uses, c)'
      BY <1>1, <2>1 DEF Whole
    <2> QED
      BY <1>5, <2>1, <2>3 DEF Whole
  <1> QED
    BY <1>8, <1>9 DEF TreeInv

\* The calls count what they have gone through.
LEMMA Counts ==
    ASSUME ShapeInv, NEW k \in DOMAIN frames
    PROVE  frames[k].done \in Nat
  <1>1. frames[k] \in FrameType
    BY ElementOfSeq, ShapeTypes
  <1> QED
    BY <1>1 DEF FrameType

LEMMA ReturnInvalidTree ==
    ASSUME ShapeInv, TreeInv, ReturnInvalid
    PROVE  TreeInv'
  <1> SUFFICES ASSUME NEW last, last = Len(frames) - 1
               PROVE  TreeInv'
    OBVIOUS
  <1>1. /\ phase = "solving" /\ open = None /\ frames # <<>> /\ Len(frames) > 1
        /\ Frame.done = Len(Uses(Frame))
        /\ frames' = Advance(Front(frames), TRUE)
        /\ UNCHANGED <<app, phase, nodes, open>>
    BY DEF ReturnInvalid, Solves, ShapeInv, Spine
  <1>2. /\ CallsKept /\ Len(frames') = Len(frames) - 1 /\ frames' # <<>>
        /\ frames'[Len(frames')].done = frames[Len(frames')].done + 1
    BY <1>1, CallReturns
  <1>3. Nodes' = Nodes /\ \A k \in Nodes : SameUse(k)
    BY <1>1 DEF Nodes, SameUse
  <1>4. Shown(last)' = Shown(last)
    <2>0. Len(frames) \in Nat /\ DOMAIN frames = 1 .. Len(frames) /\ Len(frames) > 1
      BY <1>1, ShapeTypes
    <2>1. /\ Len(frames) \in Nat /\ last < Len(frames) /\ last \in DOMAIN frames
          /\ Len(frames') = last /\ ~ (last < last)
          /\ frames'[last].done = frames[last].done + 1
      BY <1>2, <2>0
    <2>2. Shown(last) = frames[last].done + 1
      BY <2>1 DEF Shown
    <2>3. Shown(last)' = frames[last].done + 1 + 0
      BY <1>1, <2>1 DEF Shown
    <2> QED
      BY <2>1, <2>2, <2>3, Counts
  <1> QED
    BY <1>1, <1>2, <1>3, <1>4, CallLeft

LEMMA TakeCachedTree ==
    ASSUME ShapeInv, TreeInv, NEW n, TookCached(n)
    PROVE  TreeInv'
  <1> SUFFICES ASSUME NEW last, last = Len(frames) - 1
               PROVE  TreeInv'
    OBVIOUS
  <1>1. /\ phase = "solving" /\ open = None /\ frames # <<>> /\ Len(frames) > 1
        /\ Frame.done = Len(Uses(Frame)) /\ NodeChanges(n)
        /\ CallsKept /\ Len(frames') = Len(frames) - 1 /\ frames' # <<>>
        /\ frames'[Len(frames')].done = frames[Len(frames')].done + 1
        /\ UNCHANGED <<app, phase, open>>
    BY DEF TookCached
  <1>2. Nodes' = Nodes /\ \A k \in Nodes : SameUse(k)
    BY <1>1, UsesStay
  <1>3. Shown(last)' = Shown(last)
    <2>1. /\ Len(frames) \in Nat /\ last < Len(frames) /\ last \in DOMAIN frames
          /\ Len(frames') = last /\ ~ (last < last)
          /\ frames'[last].done = frames[last].done + 1
      BY <1>1, ShapeTypes
    <2>2. Shown(last) = frames[last].done + 1
      BY <2>1 DEF Shown
    <2>3. Shown(last)' = frames[last].done + 1 + 0
      BY <1>1, <2>1 DEF Shown
    <2> QED
      BY <2>1, <2>2, <2>3, Counts
  <1> QED
    BY <1>1, <1>2, <1>3, CallLeft

LEMMA ExecuteTree ==
    ASSUME ShapeInv, TreeInv, NEW n, Executes(n)
    PROVE  TreeInv'
  <1> SUFFICES ASSUME NEW last, last = Len(frames) - 1
               PROVE  TreeInv'
    OBVIOUS
  <1>1. /\ phase = "solving" /\ open = None /\ frames # <<>> /\ Len(frames) > 1
        /\ Frame.done = Len(Uses(Frame)) /\ NodeChanges(n)
        /\ CallsKept /\ Len(frames') = Len(frames) - 1 /\ frames' # <<>>
        /\ frames'[Len(frames')] = frames[Len(frames')]
        /\ open' = Len(segments) + 1 /\ open' \in Nat
        /\ UNCHANGED <<app, phase>>
    BY DEF Executes
  <1>2. Nodes' = Nodes /\ \A k \in Nodes : SameUse(k)
    BY <1>1, UsesStay
  <1>3. Shown(last)' = Shown(last)
    <2>1. /\ Len(frames) \in Nat /\ last < Len(frames)
          /\ frames'[last].done = frames[last].done /\ open' # None
      BY <1>1, ShapeTypes
    <2> QED
      BY <2>1 DEF Shown
  <1> QED
    BY <1>1, <1>2, <1>3, CallLeft

LEMMA ExecutedTree ==
    ASSUME ShapeInv, TreeInv, NEW n, Finished(n)
    PROVE  TreeInv'
  <1>1. /\ phase = "solving" /\ open # None /\ frames # <<>> /\ NodeChanges(n)
        /\ CallsKept /\ Len(frames') = Len(frames) /\ frames' # <<>>
        /\ frames'[Len(frames')].done = frames[Len(frames')].done + 1
        /\ open' = None /\ UNCHANGED <<app, phase>>
    BY DEF Finished
  <1>2. Nodes' = Nodes /\ \A k \in Nodes : SameUse(k)
    BY <1>1, UsesStay
  <1>3. /\ Len(frames) \in Nat \ {0} /\ DOMAIN frames = 1 .. Len(frames)
        /\ frames' \in Seq(FrameType) /\ DOMAIN frames' = DOMAIN frames
        /\ \A k \in DOMAIN frames :
              /\ frames'[k].node = frames[k].node /\ frames'[k].call = frames[k].call
              /\ k < Len(frames) => frames'[k] = frames[k]
    BY <1>1, Innermost, ShapeTypes DEF CallsKept
  <1>4. Growing'
    <2> SUFFICES ASSUME NEW k \in DOMAIN frames, NEW p, p = frames[k].node,
                        NEW uses, uses = app.uses[frames[k].call], NEW c, c = Shown(k)'
                 PROVE  ShowsFirst(p, uses, c)'
      BY <1>1, <1>3 DEF Growing
    <2>1. c = Shown(k)
      <3>1. CASE k = Len(frames)
        <4>1. ~ (k < Len(frames')) /\ frames'[k].done = frames[k].done + 1
          BY <1>1, <1>3, <3>1
        <4> QED
          BY <1>1, <4>1, Counts DEF Shown
      <3>2. CASE k # Len(frames)
        <4>1. k < Len(frames') /\ k < Len(frames) /\ frames'[k] = frames[k]
          BY <1>1, <1>3, <3>2
        <4> QED
          BY <4>1 DEF Shown
      <3> QED
        BY <3>1, <3>2
    <2>2. ShowsFirst(frames[k].node, app.uses[frames[k].call], Shown(k))
      BY DEF TreeInv, Growing
    <2>3. ShowsFirst(p, uses, c)
      BY <2>1, <2>2
    <2> QED
      BY <1>2, <2>3, ChildrenStay
  <1>5. Grown'
    <2> SUFFICES ASSUME NEW m \in Nodes, ~ BeingSolved(m)'
                 PROVE  Whole(m)'
      BY <1>1, <1>2 DEF Grown
    <2>1. ~ BeingSolved(m)
      BY <1>3 DEF BeingSolved
    <2> QED
      BY <1>1, <1>2, <2>1, WholeStays DEF TreeInv, Grown
  <1> QED
    BY <1>4, <1>5 DEF TreeInv

LEMMA LeavesTree ==
    ASSUME ShapeInv, TreeInv, Leaves
    PROVE  TreeInv'
  <1>1. /\ frames' = <<>> /\ phase' \in {"solved", "closing"} /\ app' = app /\ nodes' = nodes
        /\ phase' = "solved" => /\ phase = "solving" /\ open = None /\ Len(frames) = 1
                                /\ Frame.done = Len(Uses(Frame))
    BY DEF Leaves
  <1>2. CASE phase' # "solved"
    BY <1>1, <1>2, TreeFallen
  <1>3. CASE phase' = "solved"
    <2>1. Nodes' = Nodes /\ \A k \in Nodes : SameUse(k)
      BY <1>1 DEF Nodes, SameUse
    <2>2. frames # <<>>
      BY <1>1, <1>3 DEF ShapeInv, Spine
    <2>3. ShowsFirst(None, app.uses[Route], Len(app.uses[Route]))
      BY <1>1, <1>3, <2>2, AllShown
    <2>4. ShowsFirst(None, app.uses[Route], Len(app.uses[Route]))'
      <3> SUFFICES ASSUME NEW uses, uses = app.uses[Route], NEW c, c = Len(uses)
                   PROVE  ShowsFirst(None, uses, c)'
        BY <1>1
      <3> QED
        BY <2>1, <2>3, ChildrenStay
    <2>5. ASSUME NEW n \in Nodes
          PROVE  Whole(n)'
      <3>1. ~ BeingSolved(n)
        <4>1. DOMAIN frames = {1} /\ frames[1].node = None /\ n # None
          BY <1>1, <1>3, <2>2, ShapeTypes DEF ShapeInv, Spine
        <4> QED
          BY <4>1 DEF BeingSolved
      <3> QED
        BY <1>1, <1>3, <2>1, <3>1, WholeStays DEF TreeInv, Grown
    <2>6. Growing'
      BY <1>1 DEF Growing
    <2> QED
      BY <2>1, <2>4, <2>5, <2>6 DEF TreeInv, Grown
  <1> QED
    BY <1>2, <1>3

LEMMA GoesOnTree ==
    ASSUME ShapeInv, TreeInv, GoesOn
    PROVE  TreeInv'
  <1>1. /\ UNCHANGED <<app, frames, open>> /\ Nodes' = Nodes /\ \A k \in Nodes : SameUse(k)
        /\ phase' \in {"solving", "solved"} => phase' = phase
    BY DEF GoesOn, Nodes, SameUse
  <1>2. Growing'
    <2> SUFFICES ASSUME NEW k \in DOMAIN frames, NEW p, p = frames[k].node,
                        NEW uses, uses = app.uses[frames[k].call], NEW c, c = Shown(k)
                 PROVE  ShowsFirst(p, uses, c)'
      BY <1>1 DEF Growing, Shown
    <2>1. ShowsFirst(p, uses, c)
      BY DEF TreeInv, Growing
    <2> QED
      BY <1>1, <2>1, ChildrenStay
  <1>3. ASSUME phase \in {"solving", "solved"}, NEW n \in Nodes, ~ BeingSolved(n)
        PROVE  Whole(n)'
    BY <1>1, <1>3, WholeStays DEF TreeInv, Grown
  <1>4. ASSUME phase = "solved", NEW uses, uses = app.uses[Route], NEW c, c = Len(uses)
        PROVE  ShowsFirst(None, uses, c)'
    BY <1>1, <1>4, ChildrenStay DEF TreeInv, Grown
  <1>5. Grown'
    BY <1>1, <1>3, <1>4 DEF Grown, BeingSolved
  <1> QED
    BY <1>2, <1>5 DEF TreeInv

LEMMA TreeStep ==
    ASSUME ShapeInv, ScopeInv, TreeInv, [Next]_vars
    PROVE  TreeInv'
  <1>1. \A n : Cleans(n) => TreeInv'
    <2>1. \A n : Cleans(n) => frames' = <<>> /\ phase' = "closing"
      BY DEF Cleans, ShapeInv, Spine
    <2> QED
      BY <2>1, TreeFallen
  <1> QED
    BY <1>1, StepCases, DescendTree, ReturnInvalidTree, TakeCachedTree, ExecuteTree,
       ExecutedTree, LeavesTree, GoesOnTree

LEMMA TreeInit == Init => TreeInv
  <1> SUFFICES ASSUME Init PROVE TreeInv
    OBVIOUS
  <1>1. Nodes = {} /\ phase = "solving" /\ open = None
    BY DEF Init, Nodes
  <1>2. /\ DOMAIN frames = {1} /\ Len(frames) = 1 /\ frames[1].node = None /\ frames[1].done = 0
    BY DEF Init
  <1>3. Growing
    <2> SUFFICES ASSUME NEW uses
                 PROVE  ShowsFirst(None, uses, 0)
      BY <1>1, <1>2 DEF Growing, Shown
    <2> DEFINE child == [k \in 1 .. 0 |-> None]
    <2>1. 1 .. 0 = {} /\ Children(None) = {}
      BY <1>1 DEF Children
    <2>2. child \in [1 .. 0 -> Nodes]
      BY <2>1
    <2> HIDE DEF child
    <2> QED
      BY <2>1, <2>2 DEF ShowsFirst
  <1> QED
    BY <1>1, <1>3 DEF TreeInv, Grown

(***************************************************************************)
(* When the solver is done the logical tree is whole: below each node, and *)
(* below the route, are the uses that the callable declares, in their      *)
(* order, also below hits and below uses whose parameters were invalid.    *)
(***************************************************************************)
THEOREM TreesAreWhole == Spec => []TreeIsWhole
  <1>1. ASSUME ShapeInv, TreeInv
        PROVE  TreeIsWhole
    <2> SUFFICES ASSUME phase = "solved"
                 PROVE  /\ Shows(None, app.uses[Route])
                        /\ \A n \in Nodes : Shows(n, app.uses[app.override[nodes[n].dep]])
      BY DEF TreeIsWhole
    <2>1. ASSUME NEW n, NEW uses \in Seq(Site), ShowsFirst(n, uses, Len(uses))
          PROVE  Shows(n, uses)
      <3>1. DOMAIN uses = 1 .. Len(uses)
        OBVIOUS
      <3> QED
        BY <2>1, <3>1 DEF Shows, ShowsFirst
    <2>2. Shows(None, app.uses[Route])
      BY <1>1, <2>1, ShapeTypes DEF TreeInv, Grown
    <2>3. ASSUME NEW n \in Nodes
          PROVE  Shows(n, app.uses[app.override[nodes[n].dep]])
      <3>1. frames = <<>>
        BY <1>1 DEF ShapeInv, Spine
      <3>2. Whole(n)
        BY <1>1, <3>1 DEF TreeInv, Grown, BeingSolved
      <3>3. nodes[n].call = app.override[nodes[n].dep] /\ app.uses[nodes[n].call] \in Seq(Site)
        BY <1>1, ShapeTypes DEF ShapeInv, Named, NodeType
      <3> QED
        BY <2>1, <3>2, <3>3 DEF Whole
    <2> QED
      BY <2>2, <2>3
  <1>2. /\ ShapeInv /\ CacheInv /\ ScopeInv /\ TreeInv /\ [Next]_vars
           => ShapeInv' /\ CacheInv' /\ ScopeInv' /\ TreeInv'
    BY ShapeStep, CacheStep, ScopeStep, TreeStep
  <1> QED
    BY <1>1, <1>2, ShapeInit, CacheInit, ScopeInit, TreeInit, PTL DEF Spec
=============================================================================
