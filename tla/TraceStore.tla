------------------------------ MODULE TraceStore ------------------------------
(***************************************************************************)
(* The bounded store of finalized traces (storage/memory.py) and those who *)
(* read it page by page (dashboard/api.py): the route summary, the request *)
(* that clears the store, and a client that follows the pages of the trace *)
(* list, one HTTP request per page.                                        *)
(*                                                                         *)
(* Each operation of the store holds its lock throughout and is one step.  *)
(* A trace is named by its id; ids are compared as the strings are.  The   *)
(* list of the store is given by the rank of each trace in it.             *)
(***************************************************************************)
EXTENDS Integers, FiniteSets

CONSTANTS
    Ids,            \* identifiers of the traces that requests finish with
    Completions,    \* what application_completed_ns of each may be, -1 for
                    \* a missing one
    Readers,        \* requests and clients that read the store
    MaxTraces,      \* MemoryTraceStore._max_traces
    PageSize        \* max_page_size of the dashboard, the limit of each list()

ASSUME IdAssumption    == Ids \subseteq Int /\ IsFiniteSet(Ids)
ASSUME TimeAssumption  == Completions \subseteq [Ids -> Int]
ASSUME LimitAssumption == MaxTraces \in Nat \ {0} /\ PageSize \in Nat \ {0}

VARIABLES
    suspends,   \* whether others run between two calls of the store by one
                \* request: list() awaits, or threads share the store
    completed,  \* application_completed_ns of each trace
    traces,     \* the ids in MemoryTraceStore._traces
    history,    \* the ids saved since the store was last cleared
    spent,      \* the ids saved so far
    reader      \* the state of each reader

vars == <<suspends, completed, traces, history, spent, reader>>

\* kind:  what the reader wants
\* at:    idle, reading, clearing (all pages are read) or done
\* got:   the traces it has received; count: how many, with repetitions
\* since: the traces in the store all the time since it began
\* saves: how many traces were saved while it read
ReaderType ==
    [kind : {"routes", "clear", "client"},
     at : {"idle", "reading", "clearing", "done"},
     offset : Nat, got : SUBSET Ids, count : Nat, since : SUBSET Ids,
     saves : Nat]

Beginning(k) ==
    [kind |-> k, at |-> "reading", offset |-> 0, got |-> {}, count |-> 0,
     since |-> traces, saves |-> 0]

Idle == [kind |-> "routes", at |-> "idle", offset |-> 0, got |-> {},
         count |-> 0, since |-> {}, saves |-> 0]

\* _ordering_key, newest first.
Newer(a, b) ==
    \/ completed[a] > completed[b]
    \/ completed[a] = completed[b] /\ a > b

Rank(x, S) == Cardinality({y \in S : Newer(y, x)})

\* What eviction of the oldest, as often as needed, leaves of S.
\* (Mutant: one trace too many.)
OneMore(S) == {x \in S : Rank(x, S) <= MaxTraces}

Bounded(S) == {x \in S : Rank(x, S) < MaxTraces}

Page(offset) ==
    {x \in traces : Rank(x, traces) \in offset .. (offset + PageSize - 1)}

\* A request between two of its calls of the store keeps the event loop,
\* unless the store suspends.
Busy(c) == reader[c].at \in {"reading", "clearing"} /\ reader[c].kind # "client"

Turn(c) == suspends \/ \A d \in Readers \ {c} : ~Busy(d)

Init ==
    /\ suspends \in BOOLEAN
    /\ completed \in Completions
    /\ traces = {}
    /\ history = {}
    /\ spent = {}
    /\ reader = [c \in Readers |-> Idle]

\* What a change of the store to S leaves of the traces stored throughout.
Changed(S) == [c \in Readers |-> [reader[c] EXCEPT !.since = @ \cap S]]

-----------------------------------------------------------------------------
\* MemoryTraceStore.save: requests finish in any order.  A trace that is too
\* large is refused before the lock and changes nothing.
Save(i) ==
    /\ suspends \/ \A c \in Readers : ~Busy(c)
    /\ i \notin spent
    /\ traces' = Bounded(traces \cup {i})
    /\ history' = history \cup {i}
    /\ spent' = spent \cup {i}
    /\ reader' = [c \in Readers |->
         [Changed(traces')[c] EXCEPT
            !.saves = IF reader[c].at = "reading" THEN @ + 1 ELSE @]]
    /\ UNCHANGED <<suspends, completed>>

Begin(c, k) ==
    /\ Turn(c)
    /\ reader[c].at = "idle"
    /\ reader' = [reader EXCEPT ![c] = Beginning(k)]
    /\ UNCHANGED <<suspends, completed, traces, history, spent>>

\* A page shorter than the limit is the last one.
\* (Mutant: a full page is taken for the last one.)
Stops(n) == n <= PageSize

IsLast(n) == n < PageSize

\* The offset of the next page.  (Mutants: of the same one; of the one before.)
Stays(offset, n) == offset

Retreats(offset, n) == offset - n

Advanced(offset, n) == offset + n

\* One turn of the loop of _all_traces.
ReadPage(c) ==
    LET page == Page(reader[c].offset)
        n    == Cardinality(page) IN
    /\ Turn(c)
    /\ reader[c].at = "reading"
    /\ reader' = [reader EXCEPT
         ![c].got = @ \cup page,
         ![c].count = @ + n,
         ![c].offset = IF IsLast(n) THEN @ ELSE Advanced(@, n),
         ![c].at = IF ~IsLast(n) THEN @
                   ELSE IF reader[c].kind = "clear" THEN "clearing" ELSE "done"]
    /\ UNCHANGED <<suspends, completed, traces, history, spent>>

\* clear_traces calls clear() once all pages are read, and answers with the
\* number of traces in them.
Clear(c) ==
    /\ Turn(c)
    /\ reader[c].at = "clearing"
    /\ traces' = {}
    /\ history' = {}
    /\ reader' = [Changed({}) EXCEPT ![c].at = "done"]
    /\ UNCHANGED <<suspends, completed, spent>>

Read(c) ==
    \/ \E k \in {"routes", "clear", "client"} : Begin(c, k)
    \/ ReadPage(c)
    \/ Clear(c)

Next ==
    \/ \E i \in Ids : Save(i)
    \/ \E c \in Readers : Read(c)

Spec == Init /\ [][Next]_vars

-----------------------------------------------------------------------------
\* Every variable has its type.
TypeOK ==
    /\ suspends \in BOOLEAN
    /\ completed \in Completions
    /\ traces \subseteq Ids
    /\ history \subseteq Ids
    /\ spent \subseteq Ids
    /\ reader \in [Readers -> ReaderType]

(***************************************************************************)
(* The store holds the newest of all traces saved since it was cleared, as *)
(* many as fit, in whatever order they were saved: an eviction never loses *)
(* a trace that a later save would have let stay.                          *)
(***************************************************************************)
HoldsNewest ==
    /\ traces \subseteq history
    /\ Cardinality(traces) <= MaxTraces
    /\ traces # history => Cardinality(traces) = MaxTraces
    /\ \A kept \in traces, evicted \in history \ traces :
         \/ completed[evicted] < completed[kept]
         \/ completed[evicted] = completed[kept] /\ evicted < kept

(***************************************************************************)
(* A paged read misses no trace that was in the store all the time, though *)
(* saves shift and evict traces between its pages.                         *)
(***************************************************************************)
NoMiss ==
    \A c \in Readers : reader[c].at \in {"clearing", "done"} =>
        reader[c].since \subseteq reader[c].got

(***************************************************************************)
(* A paged read ends: it never asks beyond the capacity of the store,      *)
(* however many traces are saved while it reads.                           *)
(***************************************************************************)
ReadIsBounded ==
    \A c \in Readers : /\ reader[c].offset <= MaxTraces
                       /\ reader[c].count <= MaxTraces

(***************************************************************************)
(* "Stable pagination" (storage/memory.py:55): the pages repeat a trace    *)
(* only because others were saved between them, at most one for each.  On  *)
(* one event loop with a store that does not suspend none are, and so the  *)
(* route summary counts each trace once, and the number that the clear     *)
(* request answers with is that of the traces it removes.                  *)
(***************************************************************************)
PagesAreStable ==
    \A c \in Readers :
        /\ reader[c].count <= Cardinality(reader[c].got) + reader[c].saves
        /\ ~suspends /\ reader[c].kind # "client" => reader[c].saves = 0
        /\ ~suspends /\ reader[c].at = "clearing" =>
             reader[c].count = Cardinality(traces)
=============================================================================
