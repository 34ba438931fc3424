# fastapi-latensight in TLA+

This directory holds a verification development of `fastapi_latensight`, the
request profiler under `src/src/fastapi_latensight/` (`S/` below). It models
the program's control in TLA+, checks the models with TLC on small instances,
and proves every safety property that holds for every instance with TLAPS.

## The system

A `Latensight` object is attached to a FastAPI application. It adds an ASGI
middleware that gives each HTTP request a trace, patches a few functions of
FastAPI and listens to SQLAlchemy so that work done for the request is recorded
as segments of the trace, and keeps finished traces in a bounded store that a
dashboard reads.

| component | state | operations | talks to |
|---|---|---|---|
| Middleware (`S/middleware.py`) | `ProfilerState._enabled`; per call: the trace, the collector, a context token | `__call__`, `wrapped_send`, `_finalize`, `enable`, `disable` | application, collector, context, rules, sanitizer, store |
| Collector (`S/collector.py`) | the mutable `RequestTrace`, `_snapshot`, `_late_segment_count`, a lock | `add_segment`, `add_logical_dependency`, `finish_segment`, `finalize` | called by every task and thread of a request |
| Context (`S/context.py`) | two context variables: current collector, stack of open segments | `bind`/`reset_request_context`, `enter`/`exit_segment` | copied by asyncio and anyio to tasks and threads |
| Segments (`S/segments.py`) | a scope: collector, segment, token | `start`, `finish` | context, collector |
| Sanitizer (`S/redaction.py`) | none | `sanitize`, `_shrink_to_byte_limit` | changes the trace in place before it is frozen |
| Diagnostics (`S/diagnostics/`) | none | `evaluate` of each rule | reads a snapshot, appends findings |
| Store (`S/storage/memory.py`) | `_traces`, a lock | `save`, `get`, `list`, `clear` | middleware, dashboard |
| Dashboard API (`S/dashboard/api.py`) | none between requests | paged reads, summary per route, clear | store |
| Profiler (`S/profiler.py`) | `_closed`, registered engines | construction, `enable`, `disable`, `instrument_sqlalchemy`, `close` | adapters, state, store |
| Adapters (`S/instrumentation/`) | owners, saved originals, listeners, per-execution stacks | `install`, `remove`, `register`, `unregister`, wrappers | FastAPI, SQLAlchemy, context, collector |
| Dashboard page (`S/dashboard/static/app.js`) | selected trace, tables, panel, buttons | load, select, refresh, clear | dashboard API |
| Interval arithmetic (`S/utils/timing.py`, and again in `app.js`) | none | merge, union, self and unattributed time | rules, page |
| Pure helpers (`S/utils/patterns.py`, `S/exporters/`, `S/security.py`) | none | route patterns, JSON, CSRF tokens | |

What is hard here:

- *Interleaving.* Tasks of one event loop interleave at awaits; worker threads
  interleave with everything. Both keep writing to a collector after the request
  that owns it ended. `TraceCollector` locks each write, but `_finalize` takes
  the lock only in its last step.
- *Context.* Requests nest (a mounted profiled application, an in-process
  client) and start tasks whose context is a copy. Every push must be popped in
  the right order across exceptions, cancellation and rejected writes.
- *Partial failure.* A rule, the redaction, the freeze or the store may raise at
  the end of a request; the application must not notice and the context must be
  restored.
- *Ordering.* Traces reach the store in another order than they completed, and
  change under a reader that takes several pages.
- *Process-wide state.* Adapters patch global functions on behalf of several
  profilers.
- *Limits.* A dozen limits cut a trace before it is stored, each by itself, among
  them one on the findings that tell of the cuts, and a loop that halves what is
  left until its JSON fits.
- *Late answers.* The page awaits answers while the user goes on clicking, and
  shows each of them when it arrives.

What makes each component correct: the middleware finalizes or drops every trace
and restores the context; a finalized collector is frozen; requests never mix;
a stored trace is within its limits, is a tree, says what it lacks and has
findings about what it holds; nothing secret is stored; the time of segments is
counted once; the store holds the newest traces; a paged read ends, misses nothing
and repeats a trace only for one saved meanwhile; the page shows what is selected.

## The modules

| module | what it is |
|---|---|
| `TraceLifecycle` | middleware, collector, context, segments, sanitizer and integrity rule, composed, for any number of requests, tasks and threads |
| `TraceRecord` | the abstract specification: what the profiler promises about one trace |
| `TraceStore` | the memory store and its paged readers |
| `Adapters` | owners of the patched functions of FastAPI, and patches of other libraries |
| `Profilers` | extends `Adapters`: the `Latensight` objects, their engines, their callers |
| `SqlEvents` | the SQLAlchemy listeners, the stack of each connection, the segment stack |
| `DependencySolver` | the traced dependency solver: cache, logical tree, generators and their cleanup |
| `DiagnosticRules` | the six default rules, as operators on a trace |
| `TraceFinishing` | extends `DiagnosticRules`: what a trace passes from its request to the store: rules, redaction, limits, the loop to the byte limit |
| `IntervalMerge` | the merge of intervals, as the rules and the page do it |
| `DashboardPage` | the page, its calls under way, and the answers of its server |
| `MCTraceLifecycle`, `MCTraceStore`, `MCProfilers`, `MCSqlEvents`, `MCDashboardPage` | symmetry sets and small sets of values for TLC |
| `MCDependencySolver`, `MCTraceFinishing`, `MCIntervalMerge` | small applications, traces and lists of intervals for TLC |
| `TraceLifecycleProofs` | frozen snapshots, requests that never mix, marked losses, `TraceRecord` implemented, contexts that follow the calls; on one event loop trees, findings and limits |
| `FinishingProofs` | limits, marks, redaction, the end of the loop, shares of the request, trees that are explained |
| `ProfilerProofs` | open profilers stay instrumented, foreign patches survive, functions are restored, failures and `close()` leave no adapter |
| `SqlProofs` | late events, own outcomes, stacks that follow the statements |
| `DependencyProofs` | the cache, the logical tree, the order of cleanup |
| `StoreProofs` | the store holds the newest traces; paged reads miss nothing, repeat little and end |
| `IntervalProofs` | the merged intervals are the union of what was measured, and their sum its measure |
| `DashboardProofs` | the panel follows the selection; cleared traces stay gone |

Each of the proof modules also proves that its component keeps its types.

### TraceLifecycle

Each task has a call stack of frames; a frame is a request being served or an
open segment. `top[t]` is the innermost frame of task `t`, `below[f]` the next
one, `saved[f]` the context that the tokens of `f` restore. `ctx[t]` holds the
two context variables. `raising[t]` is the exception a task is unwinding. A task
or thread that a request started has `home[t]`, the request whose context it
copied.

| code | action |
|---|---|
| `ProfilerState.enable/disable` | `Switch` |
| `__call__` up to the await of the application | `Accept` |
| `wrapped_send`: start; last body chunk, before and after its await | `SendStart`, `SendLastBody`, `SendReturns` |
| `_SegmentScope.start`, `enter_segment`, `add_segment` | `OpenSegment`, or `RejectSegment` after finalization |
| `_SegmentScope.finish`, `finish_segment`, `exit_segment` | `CloseSegment` |
| the application raises, is cancelled, handles, starts a task or thread | `Raise`, `Catch`, `Spawn` |
| `finally` of `__call__`: error, `complete`, route decision | `AppEnds` |
| `_finalize`: rules; sanitizer; `finalize()`; `store.save` | `Diagnose`, `Sanitize`, `Finalize`, `Save` |
| an exception inside `_finalize` | `Drop` |
| `reset_request_context` | `Reset` |

From `AppEnds` to the await of the store the middleware runs without an await,
so no other task of the loop steps (`LoopFree`), but threads may step between
any two of these actions. That is why they are separate actions. The granularity
below that is not modelled: `sanitize()` and a snapshot are one step each.

Abstractions: the trace keeps its segment list, its checkpoints, its error, the
segments the integrity rule names, and whether it carries the truncation marker;
a segment keeps its owner, parent, status, whether its text is bounded, and the
kind of its attributes: `json`, `opaque` (no JSON form, so the size estimate and
the store raise) or `unsortable` (keys that do not sort, so `snapshot()` raises
too). The byte limit is a free choice: the list is halved any number of times.
`Sanitize` may set the marker even without cutting segments, for the texts, the
dependencies and the findings that it may cut. Which routes are profiled is a
free choice in `AppEnds`. The content a dropped trace is left with is read by
nobody and is not changed by `Drop`. The checkpoints are written by the task
that serves the request. After the start the server accepts one last body chunk.

### TraceRecord

Per request a phase, `absent`, `open`, `frozen` or `lost`; the segments
recorded; what was frozen. A trace is frozen once, in one step, and lacks a
recorded segment only with a mark; only frozen traces are published. The mapping
is `PhaseOf`, `RecordedOf`, `ContentOf` and `stored` in `TraceLifecycle`:
`Accept` is `Begin`, `OpenSegment` is `Record`, `Finalize` is `Freeze`, `Drop`
is `Lose`, `Save` is `Publish` or a stutter, and everything else stutters.

### TraceStore

`traces` is the key set of `_traces`; a trace is its id, and `completed` gives
`application_completed_ns` of each, chosen freely at the start so that traces
are saved in every order and with equal times. The list is described by ranks:
`Page(offset)` is the set of traces a call of `list` returns. The ghosts
`history` (saved since the last clear), `since` (in the store during the whole
read) and `saves` (how many traces were saved meanwhile) serve the properties only.
`PagesAreStable` puts a bound on what the docstring of `list` calls stable
pagination: pages are offsets into a list that grows at its head, so a save between
two pages shows one trace twice, and nothing else does.

`suspends` says whether others run between two store calls of one request:
false for the shipped store on one event loop, where awaiting it does not
suspend; true when threads share the store or another implementation of the
protocol awaits. A `client` reader makes one HTTP request per page, so others
always run in between. The dashboard's page size is taken not to exceed the
store's own limit; otherwise `list` raises `ValueError` and nothing is read.

### Adapters and Profilers

`owners[ad]` is `_owners` of an adapter, `patch[s]` what the patched reference
`s` holds now: the original, the wrapper, or a patch of another library, which
remembers in `saved[s]` what it found. `Reaches(s)` says that a call through `s`
gets to the wrapper. `registered[t]` are the owners of a synchronous engine;
it has listeners while it has owners. An engine that a caller names is a pair of
a target and `sync` or `async`, because `instrument_sqlalchemy` accepts both, the
adapter resolves them to one target, and `_registered_engines` keeps the object
that was named.

| code | action |
|---|---|
| `install`, `remove`, `restore_all` of an adapter, under its lock | `Install`, `Remove`, `RestoreAll` |
| another library patches the function, and puts back what it found | `Overlay`, `Withdraw` |
| `Latensight.__init__`: checks; the loop over the adapters; its rollback; the middleware; the mount of the dashboard, or its failure; the record on the application | `Refuse` and `Attach`; `InstallNext`; `ConstructionFails`, `UndoNext`, `GiveUp`; `AddMiddleware`; `Mount`, or `MountFails`; `Record` |
| `enable`, `disable` | `Enable` then `SetEnabled`, `Disable` |
| `instrument_sqlalchemy`: check; `register`; `_registered_engines` | `Instrument`; `Register`; `Remember` |
| `uninstrument_sqlalchemy` | `Uninstrument`, `Forget` |
| `close`: check and disable; engines; adapters in reverse; `_closed` | `Close`; `NoEngines`, or `ReleaseEngines` and `ClearEngines`; `RemoveNext`; `Shut` |
| FastAPI builds the middleware stack | `Start` |

The profiler takes no lock of its own. A method is a sequence of steps, one per
lock it takes or shared variable it reads or writes, and `call[c]` says where
caller `c` stands; with several callers the steps interleave. Abstractions:
`Refuse` covers every check before something is changed; a FastAPI whose
solver or serializer has another signature is `unsupported`, and a dashboard whose
path `LatensightConfig` accepts and the router rejects (`/{path}`, `/{x:foo}`) is
`unmountable`, both chosen in `Init`. The mount comes after `add_middleware` in the same
`try`, so `MountFails` leads into the rollback of the adapters with the middleware in place.
`RestoresAll` says whether anybody calls `restore_all()`, which drops all
owners at once.

### SqlEvents

`info[c]` is the list in `connection.info`, of a segment and `id()` of its
execution context; `running[t]` are the statements a task is inside of, which
only the properties and the nesting of events read. `stmt[s].ident` is a member
of a small set: the contexts of live statements differ, and a dead one's id may
come again (`MayBe`).

| code | action |
|---|---|
| `_before_cursor_execute` | `Before` (`Records` is its guard) |
| `_after_cursor_execute`; what it and `_handle_error` do with the entry they take | `After`; `Ends`, `EndedSegment` |
| `_handle_error`, in the execution or later while rows are fetched | `Fails`, `FetchFails` |
| `_pop_execution`; `finish_segment`; `exit_segment` | `IsOwn`; `Finishes`; `Restored` |
| the first and the last owner of the engine | `Listen` |
| request accepted or context copied; `finalize`; context reset | `Enter`, `Finalize`, `Reset` |

A task's stack is counted from the context it entered with. A connection is used
by one task at a time, as SQLAlchemy requires. Statement texts and
fingerprints are left out, and of a row count only that it was written (`counted`) is kept:
`_after_cursor_execute` writes it into the live segment before `finish_segment` asks whether
the trace is finalized. `RowCounts` says whether cursors have one, have none, or may have one.
`After` is one step, so a `finalize()` of another thread between the row count and
`finish_segment` is not modelled; it leads to the state of a late event. `steady` is a ghost: the listeners never came or went
while a statement ran. `StacksFollowStatements` compares the elements of a stack
(`Elements`, `StmtsOf`) and their order (`InOrder`).

### DependencySolver

`app` is what the application declares and never changes: which dependencies each
callable uses, overrides, which callables are generators, and the scope of each.
`frames` are the nested calls of `_solve`; a logical node and a segment are named
by their position in `nodes` and `segments`. `cache[d]` is the node that produced
the cached result, so `result` of a node says where its value came from. A caller
may hand in a cached result, from `External`.

| code | action |
|---|---|
| the loop of `_solve`, up to the nested call | `Descend` |
| a nested call returns errors; a cached result; neither | `ReturnInvalid`; `TakeCached`; `Execute` |
| the callable or the generator's setup returns, or raises | `Executed`, `Raises` |
| validation of parameters, last in each call | `Solves`, `BodyRaises`, `Return` |
| `__aexit__` of `_InstrumentedDependencyContext`, and its end | `Clean`, `Cleaned` |
| the endpoint; the unwinding of the two exit stacks | `Respond`, `Close`, `Unwinding` |
| `finalize` by the request, if the solver runs in a task that outlives it | `Finalize` |

The values of parameters, and whether a callable is a coroutine or runs in a
thread, are left out: both are awaited. The key of the cache is the dependency
with its scopes. FastAPI rejects a generator of the request that uses one of the
function when the application is built; `ApplicationsAssumption` asks this of the
applications that are looked at (`ScopesAllowed`). `TreeIsWhole` compares the children of
a node with the uses that its callable declares, in order (`Shows`).

### DiagnosticRules and TraceFinishing

A trace is a record of its checkpoints, segments, logical dependencies and
findings. `Findings(t)` is what the default rules report of it, in their order; a
finding is its code and its segment. The rules read a snapshot of the trace as the
request left it, so `Diagnose` appends them in one step. Where the code collects or sorts
positions of segments, the model takes the set of these positions and its members one
after the other (`Nth`).

| code | action |
|---|---|
| `_finalize`: the rules on a snapshot | `Diagnose` |
| `sanitize`: texts, error, three lists, attributes, marker | `Sanitize` |
| `_shrink_to_byte_limit`: its condition; one collection halved or passed over; the next round; the error; the texts; nothing left | `Loop`; `Halve`, `Pass`; `Again`; `DropError`; `ShortenTexts`; `GiveUp` |
| `finalize()`, and `MemoryTraceStore.save`, which raises on a document that is too large | `Save` |

A text is its length and whether it ends in an ellipsis: an ellipsis is one
character and three bytes, so cutting a text of two characters makes it longer in
bytes. Names and messages are `long` or not. The attributes of a segment are the set
of their leaves, each with the way of keys and positions that leads to it; `Way` is
how far `_mapping` and `_value` follow it, to a sensitive key, past the depth limit
or to the leaf. The size is a sum over the parts, with what each adds as a constant:
what the loop does depends only on the order of the sizes. The byte limits of the
sanitizer and of the store are the same, as `Latensight` configures them. Two things
are left out: attribute keys longer than the limit, of which two may become equal
when cut, and custom rules.

### IntervalMerge

One interval of the sorted list is taken in each step. `where` says who merges:
the rules (`interval_union_duration_ns`, which raises on an invalid interval and is not
called when a segment is not finished) or the page (`mergedDuration`, whose callers
leave invalid intervals out). Then the spans of the merged intervals are added, one in
each step (`Add`). Moments are integers, as nanoseconds are. The
division into milliseconds is left out.

### DashboardPage

`calls` are the requests of the page that are under way, in the order they were made.
Each is answered by the server in a step of its own (`Answer`, in any order, or with
a failure, which also stands for a lost call or answer and for a clear without its CSRF
token) and then arrives in another (`Arrive`), in any order. In between the user
clicks (`Click`), requests end (`Save`), and a full store evicts. `refresh` and `clear`
say what the two buttons await; each is disabled unless idle.

| code | action |
|---|---|
| the start of the script; a click on a row, on the tab of routes, on the buttons | `Init`; `Select`, `ActivateRoutes`, `ClickRefresh`, `ClickClear` |
| `loadTraces`, `loadRoutes`, `loadTrace` after their await | `ShowList`, `ShowRoutes`, `ShowTrace` |
| the refresh and the clear button after `Promise.all` | `LoadsSelected`, `EndsRefresh`, `EmptiesPanel` |
| `clearTraces` after the answer, or its failure | `ConfirmClear`, `FailClear` |

The store here is that of the server with a free choice of what is evicted. A table
that could not be loaded is empty. `hasty` and `crossed` are ghosts. Nothing in
`loadTrace` compares an answer with the selection, and nothing in `loadTraces` knows of
a clear, so two races are real: after two quick selections, or a selection while a clear
is confirmed or its tables load, the panel can end with the trace that is not selected;
and a list that was under way when the clear was confirmed brings the cleared traces
back until the next refresh. The ghosts say exactly when these happened;
`ShowsSelection` and `ClearedIsGone` say that nothing else leads there. No document of
the repository speaks of either, so they are no findings.

## The runs

| run | instance | shows |
|---|---|---|
| `lifecycle_loop` | 2 requests, 3 tasks, 2 segments, limit 1 | `NoMixing`, `ContextFollowsCalls`, `ParentsFirst`, `NoSilentLoss`, `FindingsMatch` hold on one event loop |
| `lifecycle_threads` | 1 request, its task and a worker thread, 2 segments, all failures, attributes that cannot be frozen, the switch | `SnapshotIsFinal`: the trace stays frozen; `KeepsPromise`: `TraceRecord` is implemented; `EndedIsSettled` |
| `lifecycle_limits` | as `lifecycle_threads`, without fairness | `WithinLimits` fails: see below |
| `lifecycle_complete` | the same | `CompleteMeansReturned` fails |
| `store_reads` | 4 traces, 2 times, capacity 2, page size 1, 2 readers, a store that suspends or not | `HoldsNewest`, `NoMiss`, `ReadIsBounded`, `PagesAreStable` |
| `profiler_calls` | 3 profilers, 2 applications, an engine under both names, 1 caller, `restore_all` | `ClosedIsReleased`, `RestoredWithoutOwners` |
| `profiler_threads` | 2 profilers, 2 applications, 2 callers, all adapters, dashboards that can be mounted or not, foreign patches of two references | `InstrumentedWhileOpen`, `FailureIsUndone`, `ForeignKept` |
| `sql_statements` | 2 tasks, 2 connections, 3 statements, 2 ids, 1 request, every cursor with a row count | `StatementsMatch`, `LateEventsIgnored` |
| `dependencies` | 3 dependencies in 12 shapes, 2 overrides, any generators and scopes, a cache handed in or not, any failure, a finalization at any time | `CacheIsTold`, `TreeIsWhole`, `ScopesAreClean` |
| `trace_finishing` | traces with every broken reference, timing, secret, depth and text; limits of 2 and 3; four byte limits | `LossIsTold`, `SecretsAreGone`, `RefusedIsBare`, `TreeIsExplained`, `ShareWithinWhole`, `EveryTraceEnds` |
| `interval_merge` | every list of up to 3 intervals over 5 moments, with bounds or without | `MergedIsUnion`, `DurationIsMeasure` |
| `dashboard_page` | 2 traces, 3 calls under way at once | `ShowsSelection`, `ClearedIsGone`, `ButtonsReturn` |

Three properties are conjunctions of properties with names of their own: `StatementsMatch`
(an event ends its own statement; the stacks follow the statements), `CacheIsTold` (a hit
names the node that produced the value; every node can be frozen; what is cached runs
once) and `ScopesAreClean` (generators end after those that use them; all that yielded
are cleaned up and all segments ended; the segment stack follows).

Bounds. Two requests are the smallest number that nest, run side by side, or mix;
a third task is one that outlives its request. Two segments make a parent and a
child, and with a limit of one a cut. One thread suffices to write between two
steps of `_finalize`. `MaxLate` bounds the late writes that are counted, which
no other step reads. Four traces over a capacity of two evict twice, once during
a read; two times give ties, so that ids decide; page size one makes every read
take several pages and end on a full one. Two profilers share an adapter and
three try two applications with one failure to spare; two callers suffice because
an operation never waits for more than one other. The dependency adapter is the
one with two references, of which a foreign patch covers one. Three statements
nest on one connection or overlap on two, and two ids are fewer than statements, so
an id comes again; one request is enough, since a listener compares statements and
not requests. Every cursor there has a row count, which is the case that writes most; the
theorems hold for any `RowCounts`. In the shapes of `dependencies` a dependency is used at the
endpoint and below another one, in both orders, with and without the cache, and two
levels deep, so that hits, misses and bypasses of one key meet in every order.
In `trace_finishing` each limit is exceeded by one, and attributes are one level deeper
than the depth limit; the byte limits are one that every trace exceeds even when bare,
two that are met inside the loop, and one that is met at once. Three intervals are
enough for one to nest in, touch or bridge two others. Three calls are a list, its
companion, and one from elsewhere; two traces are a selected one and another.
Runs stop when all requests are done
or all traces, statements, dependencies or intervals are spent, so deadlock is not
checked, except in the profiler runs, where no sequence of calls may leave every caller
stuck, and in `dashboard_page`, where the user can always click.

Fairness. `FairSpec` assumes weak fairness of the steps of the middleware after
the application ended (`Settle`): the event loop runs a ready task, and the
store answers. Nothing is assumed of the application, which may hang. In
`TraceFinishing` the loop runs without an await, so weak fairness of `Next` says that the
event loop goes on with it. In `DashboardPage` every call is answered or fails and every
answer runs its callback (the browser gives up on a call that is lost); nothing is
assumed of the user.

## What the violations show

- `lifecycle_limits`. `sanitize()` runs before `finalize()` takes the collector's
  lock. A worker thread of the request that records a segment in between makes the
  stored trace exceed the limit with a segment that was never redacted. The
  documentation says limits are applied before storage. `ParentsFirst` fails in
  the same window: a thread has a segment open that is cut, and a child it opens
  before `finalize()` is stored without its parent.
- `lifecycle_complete`. `complete` is computed from the body checkpoint alone; an
  application that raises or is cancelled after its last chunk leaves a complete
  trace. The documentation says it must have returned.

On one event loop, without threads, both `WithinLimits` and `ParentsFirst` hold, for any
number of requests and tasks (`LimitsHoldOnLoop`, `ParentsFirstOnLoop`).

Some limits of the code are premises of the properties rather than runs of their own:

- `ClosedIsReleased` is checked and proved for one calling thread. `enable()` and
  `instrument_sqlalchemy()` check `_closed` and act later, so a `close()` on another
  thread in between leaves a closed profiler enabled or registered; with two
  callers TLC finds both. The code promises nothing about calls from several
  threads, so this is no finding. The adapters are released in any case
  (`CloseUninstalls`): only a constructor installs them, and nobody has a profiler to
  close before its constructor is through.
- Two threads that attach profilers to one application both pass the check that it has
  none, and both add their middleware; so each request would be profiled twice.
  Construction belongs to start-up, and nothing in the repository says otherwise.
- The rollback of a constructor takes back adapters and nothing else (`profiler.py:113-116`).
  If the mount of the dashboard raises, the middleware was added before and stays on the
  application, with its state as configured; a second attempt passes the check for a
  profiler and adds another middleware, so each request is profiled twice.
  `FailureIsUndone` says that this is the one case: a constructor that raised owns no
  adapter, is not recorded on the application, and leaves its middleware only if it was
  the mount that raised.
- `LateEventsIgnored` lets a late `after_cursor_execute` write a row count, once, into the live
  segment of a finalized request that was left incomplete. What was stored is a copy
  (`models.py:200-217`, `281-302`) that the write does not reach. `TraceLifecycle` keeps of
  attributes only their kind, so `SnapshotIsFinal` and `WithinLimits` do not see row counts;
  a thread that writes one between `sanitize()` and `finalize()` adds an attribute beyond
  the limit, in the window that `lifecycle_limits` shows for segments.
- `FindingsMatch` is checked and proved on one event loop, where only the sanitizer comes
  between the rules and the freeze. A worker thread that opens or ends a segment there makes
  it fail: the stored trace then shows a segment open that no finding names, or a finding
  names one that ended. The run `lifecycle_loop` has no failures either; `ContextsFollow`
  covers them.
- `ShareWithinWhole`: `SlowDependencyRule` and `PossibleNPlusOneRule` divide by the time
  of the whole application when the work they compare ended after the body, so that it is at
  most 100 %. `ExpensiveSerializationRule` (`rules.py:305-309`) always divides by the
  response, so serialization that ended after the body may be more than 100 % of it, and
  only that.
- `RestoredWithoutOwners` leaves out the functions that another library may patch
  (`Overlaid`). `remove()` restores a function only if it holds the wrapper at that moment. If another
  patch covers the wrapper then, nothing restores it later: once that patch is withdrawn
  the wrapper stays without an owner, and the next `install()` raises that its target was
  replaced. `ForeignKept` says why it is so: a foreign patch is never replaced.
- `PagesAreStable` allows a page to repeat one trace for each save since the read began.
- `ShowsSelection` and `ClearedIsGone` leave out the two races of the page named above.
- `OwnOutcome` holds while the listeners are `steady`. If they are removed while a
  statement runs, its entry stays in `connection.info`; when they come back, a
  statement whose context happens to have the same `id()` ends the old segment.
- `InstrumentedWhileOpen` does not consider `restore_all()` (`RestoresAll` is false),
  which exists to disable everybody.

## The proofs

Every invariant of a passing run is the subject of a theorem, and so are its action
properties and the refinement. Each theorem holds for every value of the constants, from
the named assumptions of the component's module, and from the premises named below. No
theorem rests on another assumption. In each proof module the types come first, and each later invariant leans on
those before it. The argument always has the same form: the property itself is seldom
inductive, but a conjunction of named parts is, which is proved with one step for each action.
What follows says what these parts are for.

**TraceLifecycle**, for any sets of requests, tasks, threads and segments. Threads are
tasks; requests and segments are disjoint and differ from `None`; attributes, failures and
switches are of the kinds listed; the limit is positive; `None` is not a snapshot.

1. `TypeCorrect`: `Spec => []TypeOK`.
2. `FrozenIsFinal`: `Spec => []SnapshotIsFinal`. `SnapshotIsFinal` alone is not
   inductive: a request elsewhere could be sanitized or another segment closed
   and touch a segment that a frozen trace lists. `FreezeInv` adds `FinalAtEnd`
   (a snapshot exists only in the last phases, so no step of the request itself
   writes any more) and `Owned` (a trace lists only its own segments, so the steps
   of other requests touch other segments). `FrozenStays` is the heart: no step
   writes to a trace that has a snapshot.
3. `RequestsNeverMix`: `Spec => []NoMixing`. The parent of a new segment comes
   from a context, which comes from tokens, which come from contexts; so `MixInv`
   states ownership for all of them: `StacksOwned` for the stacks of contexts and
   tokens, `FramesOwned` for the call stacks, `ParentsOwned` for the segments.
   A new identifier is fresh, so nothing mentions it yet, and owners never change
   (`OwnersStay`).
4. `LossIsMarked`: `Spec => []NoSilentLoss`, with worker threads, which the run
   `lifecycle_loop` does not have. `NothingMissing` says that a list without a
   mark is whole; a cut needs the mark (`Marked`), and the mark is only set where
   the request can no longer return to an unsanitized state (`Forward`).
5. `LifecycleKeepsPromise`: `Spec => KeepsPromise`. Each action maps to the step of
   `TraceRecord` named above, using `FreezeInv` and `LogInv`.
6. `ContextsFollow`: `Spec => []ContextFollowsCalls`. The model keeps a call stack as links
   (`top`, `below`). `StackInv` says that there are arrays `at[t]` of the frames of each task
   that agree with the links (`Linked`), name no frame twice (`Distinct`), leave nothing
   dangling (`Loose`) and hold only frames in use by their task (`Live`); and that the
   collector in force at each level is that of the request there, or of the level below
   (`Bound`): what the context holds at the top, and what the tokens of each frame restore
   further down. `Enclosing`, which walks the links, is then a walk down the array. That
   its recursive function exists follows from a least level at which it would fail
   (`SolutionExists`, `SolutionAgrees`).

On one event loop, with the premise `Threads = {}`. It is needed: `lifecycle_limits` shows
that a thread breaks the limits, and `ParentsFirst` in the same window. `LoopInv` is the invariants
above and `AtTop`: a request that is being finalized is what its task is doing. So
no task records or closes a segment meanwhile (`LoopIsBusy`).

7. `ParentsFirstOnLoop`: a list that may still be stored has parents before children
   (`OrderInv`), because the parent of a new segment was recorded before and the list grows
   only at its end until the sanitizer cuts its end off.
8. `FindingsMatchOnLoop` and 9. `LimitsHoldOnLoop`: from `ReportInv`: after the rules, the
   findings name the open segments (`Diagnosed`); after the sanitizer, the list is within the
   limit and its texts are bounded (`Cut`), and both stay until the freeze.

**Profilers**, for any profilers, applications, callers, engines and overlaid references.

10. `ProfilerTypes`: `Spec => []TypeOK`. What a caller holds depends on its place
   (a profiler in every place but `idle`, an engine while registering), so the
   inductive invariant types `call` by place.
11. `StaysInstrumented`: `Spec => []InstrumentedWhileOpen`, if `restore_all()` is not
   called. A profiler becomes open long after it installed its adapters, so
   `HeldInv` follows it through its construction: `HeldWhileBuilt` says that the
   installer holds the adapters it has done, `HeldWhileOpen` that an open profiler
   holds all of them, `Alone` that no two callers build the same profiler, without
   which another one could roll it back. `OwnedReach` ties owners to functions: while
   an adapter has an owner, each of its references reaches the wrapper, through
   whatever patch lies on top.
12. `PatchesKept`: `Spec => ForeignKept`, because the adapters write only references
   that hold an original or their own wrapper.
13. `RestoredAtLast`: `Spec => []RestoredWithoutOwners`. `InPlace` says that a function of
   no other library's concern holds the wrapper exactly while its adapter has owners.
14. `FailureIsClean`: `Spec => []FailureIsUndone`, with any number of callers. `Partial`
   follows a constructor through its loop and its rollback: what it owns is what it has
   installed and not yet undone, and its middleware comes after the loop, so that the
   rollback meets it only where the mount raised. `Bare` says that nothing belongs to a
   profiler that is not constructed yet, and only what the rollback leaves (`Undone`) to one
   that failed; `GivenOpen` that an application is given open profilers only; `Alone` keeps
   others off.
15. `CloseReleases`: `Spec => []ClosedIsReleased`, with one caller (`Serial`). `Progress`
   says what `close()` has released at each of its steps, and that an operation that checked
   `_closed` still finds it unset; the latter is what fails with two callers. `Remembered` says that
   every registration is in `_registered_engines`, which is what `close()` goes over, or is
   about to be put there, whichever of its two names the engine was given by.
16. `CloseUninstalls`: `Spec => []ClosedOwnsNothing`, with any number of callers.

**TraceFinishing**, for any traces, limits and weights that are of their types.

17. `FinishingTypes`: `Spec => []TypeOK`: the lists keep their limits from the sanitizer
   on, though the marker is put in front of the findings again and again. Here the rules
   are needed for once: that they return findings (`FindingsFacts`) needs that the
   function by which `FlattenSeq` recurs exists (`FlatExists`, by a least counterexample)
   and that a set of n numbers has an n-th member (`NthFacts`, by counting ranks).
18. `TruncationIsTold`: `Spec => []LossIsTold`. The inductive invariant `IInv` has one
   conjunct for each part of the argument: `Untouched` says that until the sanitizer ran,
   the trace is as it was given, `Limited` bounds it afterwards, `Marking` says that from then on
   it is whole or marked and that inside the loop it is marked.
19. `SecretsNeverStored`: `Spec => []SecretsAreGone`. Each leaf of a sanitized segment ends
   at its first sensitive key if it has one (`Way` is the least such position), and the loop
   only takes prefixes.
20. `LoopTriesAll`: `Spec => []RefusedIsBare`. `Progress` records what each turn of a round
   that changed nothing has established so far: the collections passed over are as short as
   they may be.
21. `SharesAreShares`: `Spec => []ShareWithinWhole`: the moments that finished segments cover
   lie between the request and their last end (`CoverIsBounded`), an interval whose
   cardinality `FS_Interval` gives, and the denominator reaches to that end or further.
   Serialization starts after the request does, so it exceeds the time to the body only by
   ending after it.
22. `TreesAreExplained`: `Spec => []TreeIsExplained`. The stored segments are a beginning of
   those given (`Shortens`), so no parent that was listed before its child is lost. A trace
   without the marker is whole (`Marking`), and has the findings that the rules made of the
   references that dangle; `FindingsFacts` says that they made one for each.

**IntervalMerge**, for any lists and bounds.

23. `MergeComputesUnion`: `Spec => []MergedIsUnion`. The invariant relates the result to the
   intervals taken so far: it holds their moments and no others, ends with the furthest end,
   and starts no later than the next interval does, which is where the sort is needed.
24. `SumIsMeasure`: `Spec => []DurationIsMeasure`. `Summed`: the sum so far is the
   cardinality of the moments of the intervals added so far. They are apart, so each new
   one adds as many moments as its span; bounds that are reversed are never reached (`Fit`).

**TraceStore**, for any times of completion, readers, capacity and page size. The ids are
assumed finite, which bounds how many traces are saved in one behaviour but not by what
number. The theorems share one invariant and one lemma on the order of the store:
`RankCounts` says that the traces of a set whose ranks lie in a set of
numbers below its cardinality are as many as those numbers (the rank is an injection
between finite sets of the same cardinality, so it is a surjection). From it follow the size of a page
(`PageCounts`) and what an eviction leaves (`BoundedKeeps`).

25. `StoreTypes`: `Spec => []TypeOK`.
26. `NewestKept`: `Spec => []HoldsNewest`: a trace that is saved into a full store either
   displaces the oldest or is not kept itself, and is then older than all that stay.
27. `NothingMissed`: `Spec => []NoMiss`. `Ahead` says that a trace that stayed is received or
   has a rank from the offset on; a save never makes a rank smaller (`RankGrows`).
28. `ReadsEnd`: `Spec => []ReadIsBounded`: the offset is the number of traces received
   (`Counted`), and a page never reaches beyond the end of the list.
29. `PagesStable`: `Spec => []PagesAreStable`. `Moved` says that what was received lies within
   the number of different traces received plus the saves since, so that a page repeats no more
   traces than that number exceeds its offset (`RanksBetween`); `Undisturbed` says that
   nothing moves under a reader that keeps the event loop.

**SqlEvents**, for any tasks, connections, statements, requests and ids.

30. `SqlTypes`: `Spec => []TypeOK`.
31. `FinalIsFinal`: `Spec => LateEventsIgnored`: what each event does to the status of a
   segment is guarded by the collector of the segment; the row count is not, and the
   invariant `Waiting` bounds it: an entry on a connection is of a segment that nothing has
   ended or counted yet, and of no other entry, so that each segment is taken once.
32. `StatementsAreOwn`: `Spec => []StatementsMatch`. `BaseInv` says what holds of statements
   whatever the listeners do: a task is inside of the statements that run in it, once each
   (`Inside`), and live ones have different ids and do not share a connection between tasks
   (`Apart`). While `steady`, `Stacked` describes each segment stack (the traced statements of
   the task, in their order) and its tokens (each restores what was below), `Queued` each
   stack in `connection.info`, so that the innermost statement of a connection is its last
   entry; `Unended` says that what runs has no outcome yet, so that its own event is the first,
   and `Outcomes` is the goal.

**DependencySolver**, for any applications that satisfy `ApplicationsAssumption`.

33. `SolverTypes`: `Spec => []TypeOK`. `ShapeInv`: the frames are the nested calls of
   `_solve`, each for the node that the one around it is at (`Spine`); the segment that is
   awaited is the last, around a node that the innermost frame executes or that is cleaned
   up (`Awaited`); nodes and exit stacks name what exists (`Named`); and `StackFollows`.
34. `TracesTellHits`: `Spec => []CacheIsTold`. `HoldsSource`: what is cached is the result of
   the node that `cache_sources` names, or came from outside. `AllFit`: the status of a node
   fits its segments and where its result is from. `Missed`: what a node missed nobody else
   caches while it runs; hence `OnceEach`. `Held`: only generators that yielded wait on an
   exit stack.
35. `ScopesNest`: `Spec => []ScopesAreClean`. A value is set up before what it is given to
   (`Earlier`), so each exit stack is sorted by setup (`Exits`) and is unwound backwards. Between the two
   stacks the order follows from FastAPI's rule on scopes (`Allowed`), applied to the use
   that made a node the child of another (`Related`).
36. `TreesAreWhole`: `Spec => []TreeIsWhole`. Below a node that is being solved are the first of its
   uses, as many as its frame has begun (`Growing`); below every other one all of them
   (`Grown`), those of a cached result being recorded anew.

**DashboardPage**, for any traces and any limit on calls under way.

37. `PageTypes`: `Spec => []TypeOK`, by `PageInv`, which says what each button awaits
   (`Deleting`, `Reloading`).
38. `PanelFollows`: `Spec => []ShowsSelection`. Unless one of the named races happened, every
   detail under way is of the selected trace, the panel shows that trace once none is under
   way, and nothing is selected while the tables of a cleared store load (`PanelInv`).
39. `ClearedStayGone`: `Spec => []ClearedIsGone`. `GoneInv`: a list that is under way holds no
   cleared trace unless it crossed the clear, and nor does the table once none is under way.

Model-checked only: liveness (`EndedIsSettled`, `EveryTraceEnds`, `ButtonsReturn`), which
is out of the provers' reach.

## Not modelled, and the plan

Left out for good:

- the wording of findings, names and errors, and texts character by character;
  attribute keys that become equal when they are cut; custom rules that raise (each is
  caught, and the others run);
- the layout of JSON, templates and style sheets, the rendering of a trace by the page,
  its notices and its table of routes;
- route patterns: one decision per request by `fnmatch`, without state, which
  `TraceLifecycle` makes a free choice;
- configuration and CSRF validation, which keep no state beyond a call;
- the arithmetic of the route summaries (averages and nearest-rank percentiles of floats);
- masking and fingerprints of SQL statements.

What could come next: an abstract specification of `Adapters`, a function that is
instrumented exactly while somebody asks for it, and `Profilers` shown to implement it where
no other library patches the same function.
