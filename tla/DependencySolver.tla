---------------------------- MODULE DependencySolver ----------------------------
(***************************************************************************)
(* The dependency solver that the adapter of instrumentation/              *)
(* dependencies.py puts in the place of FastAPI's: for each use of a       *)
(* dependency it records a logical node, solves what that depends on, and  *)
(* then takes the result from the cache or executes the callable, which is *)
(* a segment of the trace.  A generator is entered on one of two exit      *)
(* stacks of the request and cleaned up when the stack unwinds, which is   *)
(* another segment.                                                        *)
(*                                                                         *)
(* The solver is one task of a request.  The collector may be finalized at *)
(* any time, if that task outlives the request.                            *)
(***************************************************************************)
EXTENDS Naturals, Sequences, SequencesExt, FiniteSets

CONSTANTS
    Deps,           \* dependencies: callables, and the cache keys of their uses
    Route,          \* the endpoint, whose parameters use dependencies
    Applications,   \* what is declared, see ApplicationType
    External,       \* the producer of a result that the caller had cached
    None

ASSUME DependencyAssumption == Route \notin Deps /\ {External, None} \cap Nat = {}
                                 /\ External # None

Site == [dep : Deps, cached : BOOLEAN]

(* What each callable uses, in order; which callable overrides which; the  *)
(* generators; and the scope that the uses of a dependency declare.        *)
ApplicationType ==
    [uses : [Deps \cup {Route} -> Seq(Site)], override : [Deps -> Deps],
     generators : SUBSET Deps, scope : [Deps -> {"function", "request"}]]

\* FastAPI lets no generator of the request depend on one of the function.
ScopesAllowed(a) ==
    \A d \in Deps : a.override[d] \in a.generators /\ a.scope[d] = "request" =>
        \A k \in DOMAIN a.uses[a.override[d]] :
            a.scope[a.uses[a.override[d]][k].dep] # "function"

ASSUME ApplicationsAssumption ==
    \A a \in Applications : a \in ApplicationType /\ ScopesAllowed(a)

VARIABLES
    app,        \* the application
    phase,      \* of the request: solving, solved, closing, ended
    frames,     \* the calls of _solve, innermost last
    nodes,      \* the LogicalDependencyNodes, in the order of their creation
    segments,   \* the segments, in the order of their creation
    cache,      \* dependency_cache: which node produced the result
    sources,    \* cache_sources
    open,       \* the segment whose operation is awaited, or None
    stack,      \* _segment_stack, from where the request began
    exits,      \* the nodes whose generators each AsyncExitStack will clean up
    finalized

vars == <<app, phase, frames, nodes, segments, cache, sources, open, stack, exits,
          finalized>>

Statuses == {"incomplete", "ok", "error", "cancelled"}

Ref == Nat \cup {None}

NodeType ==
    [dep : Deps, call : Deps, parent : Ref, status : {"hit", "miss", "bypass"},
     from : Ref \cup {External}, setup : Ref, cleanup : Ref,
     recorded : BOOLEAN,              \* add_logical_dependency accepted it
     result : Ref \cup {External}]    \* the node that produced what it solved to

SegmentType ==
    [type : {"setup", "cleanup"}, node : Nat, recorded : BOOLEAN, status : Statuses]

FrameType == [call : Deps \cup {Route}, node : Ref, done : Nat, invalid : BOOLEAN]

\* A caller may hand in a cache.
Init ==
    /\ app \in Applications
    /\ phase = "solving"
    /\ frames = <<[call |-> Route, node |-> None, done |-> 0, invalid |-> FALSE]>>
    /\ nodes = <<>>
    /\ segments = <<>>
    /\ cache \in [Deps -> {None, External}]
    /\ Cardinality({d \in Deps : cache[d] # None}) <= 1
    /\ sources = [d \in Deps |-> None]
    /\ open = None
    /\ stack = <<>>
    /\ exits = [scope \in {"function", "request"} |-> <<>>]
    /\ finalized = FALSE

Frame == Last(frames)

\* The dependencies that a call of _solve goes through.
\* (Mutant: none, if the result is cached anyway.)
UsesUnlessHit(f) ==
    IF f.node # None /\ nodes[f.node].status = "hit" THEN <<>> ELSE app.uses[f.call]

Uses(f) == app.uses[f.call]

\* The frame f after one more dependency.
OneMore(f, invalid) == [f EXCEPT !.done = @ + 1, !.invalid = @ \/ invalid]

Advance(below, invalid) == Append(Front(below), OneMore(Last(below), invalid))

-----------------------------------------------------------------------------
(* One dependency. *)

CacheStatus(site) ==
    IF ~site.cached THEN "bypass"
    ELSE IF cache[site.dep] # None THEN "hit" ELSE "miss"

\* (Mutant: the key instead of the node.)
KeyOfHit(status, d) == IF status # "hit" THEN None ELSE d

CachedFrom(status, d) ==
    IF status # "hit" THEN None
    ELSE IF sources[d] # None THEN sources[d] ELSE External

\* The next use: a node, and the solver is called for what it uses itself.
Descend ==
    /\ phase = "solving" /\ open = None /\ Frame.done < Len(Uses(Frame))
    /\ LET site   == Uses(Frame)[Frame.done + 1]
           status == CacheStatus(site)
           call   == app.override[site.dep]
       IN /\ nodes' = Append(nodes,
                [dep |-> site.dep, call |-> call, parent |-> Frame.node,
                 status |-> status, from |-> CachedFrom(status, site.dep),
                 setup |-> None, cleanup |-> None, recorded |-> ~finalized,
                 result |-> None])
          /\ frames' = Append(frames, [call |-> call, node |-> Len(nodes) + 1,
                                       done |-> 0, invalid |-> FALSE])
    /\ UNCHANGED <<app, phase, segments, cache, sources, open, stack, exits, finalized>>

\* The parameters of the call itself are validated last.
Solves(invalid) ==
    /\ phase = "solving" /\ open = None /\ Frame.done = Len(Uses(Frame))
    /\ Frame.invalid => invalid

\* The caller goes on with the next dependency.
ReturnInvalid ==
    /\ Len(frames) > 1 /\ Solves(TRUE)
    /\ frames' = Advance(Front(frames), TRUE)
    /\ UNCHANGED <<app, phase, nodes, segments, cache, sources, open, stack, exits,
                   finalized>>

\* The use of node n, in the call that is solving it.
SiteOf(n) == LET f == frames[Len(frames) - 1] IN Uses(f)[f.done + 1]

\* The status of node n is determined again after what it uses is solved.
Determined(n, status) ==
    [nodes[n] EXCEPT !.status = status, !.from = CachedFrom(status, nodes[n].dep)]

TakeCached ==
    /\ Len(frames) > 1 /\ Solves(FALSE)
    /\ LET n == Frame.node
           status == CacheStatus(SiteOf(n)) IN
         /\ status = "hit"
         /\ nodes' = [nodes EXCEPT ![n] =
              [Determined(n, status) EXCEPT !.result = cache[nodes[n].dep]]]
    /\ frames' = Advance(Front(frames), FALSE)
    /\ UNCHANGED <<app, phase, segments, cache, sources, open, stack, exits, finalized>>

\* A new segment around an operation for node n that is awaited.
Begin(type, n) ==
    /\ segments' = Append(segments, [type |-> type, node |-> n,
                                     recorded |-> ~finalized, status |-> "incomplete"])
    /\ open' = Len(segments) + 1
    /\ stack' = IF finalized THEN stack ELSE Append(stack, Len(segments) + 1)

Execute ==
    /\ Len(frames) > 1 /\ Solves(FALSE)
    /\ LET n == Frame.node
           status == CacheStatus(SiteOf(n)) IN
         /\ status # "hit"
         /\ nodes' = [nodes EXCEPT ![n] =
              [Determined(n, status) EXCEPT !.setup = Len(segments) + 1]]
         /\ Begin("setup", n)
    /\ frames' = Front(frames)
    /\ UNCHANGED <<app, phase, cache, sources, exits, finalized>>

\* exit_segment, after the segment was accepted; it was the last pushed.
Restored == IF segments[open].recorded THEN Front(stack) ELSE stack

\* finish_segment: rejected once the trace is finalized.
Finishes(status) == ~finalized

End(status) ==
    /\ open # None
    /\ segments' = IF Finishes(status) THEN [segments EXCEPT ![open].status = status]
                   ELSE segments
    /\ stack' = Restored
    /\ open' = None

\* (Mutant: the stacks exchanged.)
OtherStack(n) == IF app.scope[nodes[n].dep] = "function" THEN "request" ELSE "function"

StackOf(n) == app.scope[nodes[n].dep]

IsStored(n) == cache[nodes[n].dep] = None

\* The source of what the cache holds.  (Mutant: whatever ran last.)
LastSource(n) == [sources EXCEPT ![nodes[n].dep] = n]

Source(n) == IF IsStored(n) THEN [sources EXCEPT ![nodes[n].dep] = n] ELSE sources

\* The callable returns, or the generator yields.
Executed ==
    /\ phase = "solving" /\ End("ok")
    /\ LET n == segments[open].node IN
         /\ nodes' = [nodes EXCEPT ![n].result = n]
         /\ exits' = IF nodes[n].call \in app.generators
                     THEN [exits EXCEPT ![StackOf(n)] = Append(@, n)] ELSE exits
         /\ cache' = IF IsStored(n) THEN [cache EXCEPT ![nodes[n].dep] = n] ELSE cache
         /\ sources' = Source(n)
    /\ frames' = Advance(frames, FALSE)
    /\ UNCHANGED <<app, phase, finalized>>

\* It raises: so does the solver, and the exit stacks unwind.
Raises(status) ==
    /\ phase = "solving" /\ End(status)
    /\ frames' = <<>>
    /\ phase' = "closing"
    /\ UNCHANGED <<app, nodes, cache, sources, exits, finalized>>

\* So does the reading of a body.
BodyRaises ==
    /\ phase = "solving" /\ open = None /\ Frame.done = Len(Uses(Frame))
    /\ frames' = <<>>
    /\ phase' = "closing"
    /\ UNCHANGED <<app, nodes, segments, cache, sources, open, stack, exits, finalized>>

Return(invalid) ==
    /\ Len(frames) = 1 /\ Solves(invalid)
    /\ frames' = <<>>
    /\ phase' = "solved"
    /\ UNCHANGED <<app, nodes, segments, cache, sources, open, stack, exits, finalized>>

-----------------------------------------------------------------------------
(* The request goes on and ends. *)

\* The endpoint runs, unless parameters are invalid; it returns or raises.
Respond ==
    /\ phase = "solved"
    /\ phase' = "closing"
    /\ UNCHANGED <<app, frames, nodes, segments, cache, sources, open, stack, exits,
                   finalized>>

\* The stack of the function unwinds before that of the request.
Unwinding == IF exits["function"] # <<>> THEN "function" ELSE "request"

Clean ==
    /\ phase = "closing" /\ open = None /\ exits[Unwinding] # <<>>
    /\ LET n == Last(exits[Unwinding]) IN
         /\ nodes' = [nodes EXCEPT ![n].cleanup = Len(segments) + 1]
         /\ Begin("cleanup", n)
    /\ exits' = [exits EXCEPT ![Unwinding] = Front(@)]
    /\ UNCHANGED <<app, phase, frames, cache, sources, finalized>>

\* The generator ends, or raises, and the stack unwinds further.
Cleaned(status) ==
    /\ phase = "closing" /\ End(status)
    /\ UNCHANGED <<app, phase, frames, nodes, cache, sources, exits, finalized>>

Close ==
    /\ phase = "closing" /\ open = None /\ exits[Unwinding] = <<>>
    /\ phase' = "ended"
    /\ UNCHANGED <<app, frames, nodes, segments, cache, sources, open, stack, exits,
                   finalized>>

Finalize ==
    /\ ~finalized
    /\ finalized' = TRUE
    /\ UNCHANGED <<app, phase, frames, nodes, segments, cache, sources, open, stack,
                   exits>>

Next ==
    \/ Descend \/ ReturnInvalid \/ TakeCached \/ Execute \/ Executed
    \/ \E status \in {"error", "cancelled"} : Raises(status)
    \/ BodyRaises
    \/ \E invalid \in BOOLEAN : Return(invalid)
    \/ Respond \/ Clean \/ Close \/ Finalize
    \/ \E status \in {"ok", "error", "cancelled"} : Cleaned(status)

Spec == Init /\ [][Next]_vars
-----------------------------------------------------------------------------
\* Every variable has its type.
TypeOK ==
    /\ app \in ApplicationType
    /\ phase \in {"solving", "solved", "closing", "ended"}
    /\ frames \in Seq(FrameType)
    /\ nodes \in Seq(NodeType)
    /\ segments \in Seq(SegmentType)
    /\ cache \in [Deps -> Ref \cup {External}]
    /\ sources \in [Deps -> Ref]
    /\ open \in Ref
    /\ stack \in Seq(Nat)
    /\ exits \in [{"function", "request"} -> Seq(Nat)]
    /\ finalized \in BOOLEAN

Nodes == DOMAIN nodes

IsGenerator(n) == nodes[n].call \in app.generators

Children(n) == {k \in Nodes : nodes[k].parent = n}

(***************************************************************************)
(* What a node says of the cache is what happened: a hit got the result of *)
(* the node it names, for the same key, or one the caller handed in; every *)
(* other node was executed itself, and only those have a setup segment.    *)
(***************************************************************************)
HitsNameTheirSource ==
    \A n \in Nodes : LET node == nodes[n] IN node.result # None =>
        /\ (node.status = "hit") = (node.setup = None)
        /\ node.status = "hit" => node.from = node.result
        /\ node.status # "hit" => node.from = None /\ node.result = n
        /\ node.result # External => /\ nodes[node.result].dep = node.dep
                                     /\ nodes[node.result].setup # None

(***************************************************************************)
(* The trace can be frozen at any time: the snapshot of a node, which      *)
(* raises on an impossible combination and thereby loses the trace, never  *)
(* meets one, also while the dependency is being solved.                   *)
(***************************************************************************)
NodesCanFreeze ==
    \A n \in Nodes : LET node == nodes[n] IN
        /\ node.status = "hit" => /\ node.from # None
                                  /\ node.setup = None /\ node.cleanup = None
        /\ node.status # "hit" => node.from = None
        /\ node.cleanup # None => node.setup # None

(***************************************************************************)
(* A dependency whose uses all take the cache runs once for a request,     *)
(* however many callables use it and however deep, unless it was bypassed. *)
(***************************************************************************)
RunsOnce ==
    \A d \in Deps :
        Cardinality({n \in Nodes : /\ nodes[n].dep = d /\ nodes[n].status = "miss"
                                   /\ nodes[n].result # None}) <= 1

(***************************************************************************)
(* What the trace tells of the cache is true, consistent and sparing.      *)
(***************************************************************************)
CacheIsTold == HitsNameTheirSource /\ NodesCanFreeze /\ RunsOnce

\* The nodes below n, in the order of their creation, are those of the uses.
Shows(n, uses) ==
    \E child \in [DOMAIN uses -> Nodes] :
        /\ Children(n) = {child[k] : k \in DOMAIN uses}
        /\ \A j, k \in DOMAIN uses : j < k => child[j] < child[k]
        /\ \A k \in DOMAIN uses : nodes[child[k]].dep = uses[k].dep

(***************************************************************************)
(* When the solver is done, the logical tree is whole: below each node are *)
(* the uses its callable declares, in their order, after overrides, also   *)
(* below hits and below uses whose parameters were invalid.                *)
(***************************************************************************)
TreeIsWhole ==
    phase = "solved" =>
        /\ Shows(None, app.uses[Route])
        /\ \A n \in Nodes : Shows(n, app.uses[app.override[nodes[n].dep]])

(***************************************************************************)
(* "Generator teardown order" is preserved: no generator is cleaned up     *)
(* before those that were given its value, be it from the cache, whatever  *)
(* the scopes, and whatever setup or cleanup raises.                       *)
(***************************************************************************)
CleanedAfterUse ==
    \A n \in Nodes : IsGenerator(n) /\ nodes[n].result = n =>
        \A k \in Children(n) :
            LET used == nodes[k].result IN
            used \in Nodes /\ IsGenerator(used) /\ nodes[used].cleanup # None =>
                nodes[n].cleanup # None /\ nodes[n].cleanup < nodes[used].cleanup

(***************************************************************************)
(* When the exit stacks are unwound, each generator that yielded has been  *)
(* cleaned up in a segment of its own, and no segment is left open, on     *)
(* errors and cancellations of any step.                                   *)
(***************************************************************************)
EndsClean ==
    phase = "ended" =>
        /\ \A n \in Nodes : (IsGenerator(n) /\ nodes[n].result = n)
                               = (nodes[n].cleanup # None)
        /\ ~finalized => \A s \in DOMAIN segments : segments[s].status # "incomplete"

(***************************************************************************)
(* The context names the segment that is awaited, if the collector took    *)
(* it, and nothing else, also when the trace is finalized in between.      *)
(***************************************************************************)
StackFollows ==
    stack = IF open # None /\ segments[open].recorded THEN <<open>> ELSE <<>>

(***************************************************************************)
(* Scopes nest: generators are cleaned up in order, each in a segment that *)
(* ends, and the context follows the segments.                             *)
(***************************************************************************)
ScopesAreClean == CleanedAfterUse /\ EndsClean /\ StackFollows
=============================================================================
