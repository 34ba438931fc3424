----------------------------- MODULE DashboardPage -----------------------------
(***************************************************************************)
(* The dashboard page (dashboard/static/app.js) and the answers of its     *)
(* server (dashboard/api.py).  The page is one thread of callbacks: a      *)
(* click, or the arrival of an answer, runs to its next await.  Between    *)
(* the two, the calls are on their way: the server answers them in any     *)
(* order, the answers arrive in any order, and the user goes on clicking.  *)
(*                                                                         *)
(* calls lists the calls under way in the order they were made.  A call    *)
(* belongs to the page (nobody waits for it), or to the refresh or the     *)
(* clear button, which go on when all of theirs are handled.               *)
(***************************************************************************)
EXTENDS Naturals, Sequences, SequencesExt

CONSTANTS
    Ids,        \* identifiers of traces
    MaxCalls,   \* bound on the calls under way at once
    None

ASSUME IdsAssumption   == None \notin Ids
ASSUME CallsAssumption == MaxCalls \in Nat /\ MaxCalls >= 2

VARIABLES
    store,      \* the traces the server holds
    saved,      \* the traces it was ever given
    calls,
    selected,   \* state.selectedTraceId
    rows,       \* the traces in the table of requests
    detail,     \* what the panel beside it shows: a hint, or an answer
    refresh,    \* what the refresh button awaits; disabled unless idle
    clear,      \* what the clear button awaits; disabled unless idle
    cleared,    \* the traces the page was told were cleared
    hasty,      \* the user selected or cleared before an answer arrived
    crossed     \* a list was under way when the traces were cleared

vars == <<store, saved, calls, selected, rows, detail, refresh, clear,
          cleared, hasty, crossed>>

Owners == {"page", "refresh", "clear"}

\* at: sent, or answered with got; ok: the answer is no failure and no 404.
CallOf(K, I) == [kind : K, owner : Owners, id : I, at : {"sent", "answered"},
                 ok : BOOLEAN, got : SUBSET Ids]

CallType == CallOf({"trace"}, Ids) \cup CallOf({"list", "routes", "delete"}, {None})

Call(k, o, i) == [kind |-> k, owner |-> o, id |-> i, at |-> "sent",
                  ok |-> FALSE, got |-> {}]

Hint == [shows |-> "hint", id |-> None]

Pending(k) == {i \in DOMAIN calls : calls[i].kind = k}

\* A call for the detail of a trace other than i is under way.
Crossing(i) == \E n \in Pending("trace") : calls[n].id # i

\* Bound: the user waits while n more calls do not fit.  The call of the clear
\* button counts twice, as the two calls that follow it.
Room(n) == Len(calls) + (IF clear = "deleting" THEN 1 ELSE 0) + n <= MaxCalls

Init ==
    /\ store = {} /\ saved = {}
    /\ calls = <<Call("list", "page", None), Call("routes", "page", None)>>
    /\ selected = None
    /\ rows = {}
    /\ detail = Hint
    /\ refresh = "idle" /\ clear = "idle"
    /\ cleared = {}
    /\ hasty = FALSE /\ crossed = FALSE

-----------------------------------------------------------------------------
(***************************************************************************)
(* The server.  A request ends and its trace is saved; a full store evicts *)
(* another one.                                                            *)
(***************************************************************************)
Save(i) ==
    /\ i \notin saved
    /\ saved' = saved \cup {i}
    /\ \E evicted \in {{}} \cup {{j} : j \in store} :
         store' = (store \ evicted) \cup {i}
    /\ UNCHANGED <<calls, selected, rows, detail, refresh, clear, cleared,
                   hasty, crossed>>

\* The server answers: list_traces, trace_detail with its 404, route_summary
\* and clear_traces, which refuses a request without its CSRF token.
\* An answer, or the call itself, may get lost.  The tables of the routes are
\* not modelled, and their call is not answered in a step of its own.
Answered(call, ok) ==
    [call EXCEPT !.at = "answered", !.ok = ok,
                 !.got = IF ok /\ call.kind \in {"list", "delete"} THEN store ELSE {}]

Found(call) == call.kind = "trace" => call.id \in store

Answer(n) ==
    /\ n \in DOMAIN calls
    /\ calls[n].at = "sent" /\ calls[n].kind # "routes"
    /\ \E ok \in BOOLEAN :
         /\ ok => Found(calls[n])
         /\ calls' = [calls EXCEPT ![n] = Answered(@, ok)]
         /\ \/ ~ok /\ UNCHANGED store
            \/ store' = IF calls[n].kind = "delete" THEN {} ELSE store
    /\ UNCHANGED <<saved, selected, rows, detail, refresh, clear, cleared,
                   hasty, crossed>>

-----------------------------------------------------------------------------
(***************************************************************************)
(* The user.  loadTrace(i), called by a click on a row, selects the trace  *)
(* at once and shows whatever answer arrives.                              *)
(***************************************************************************)
Select(i) ==
    /\ i \in rows /\ Room(1)
    /\ selected' = i
    /\ calls' = Append(calls, Call("trace", "page", i))
    /\ hasty' = (Crossing(i) \/ clear = "reloading")
    /\ UNCHANGED <<store, saved, rows, detail, refresh, clear, cleared, crossed>>

\* The tab of the routes reloads their table.
ActivateRoutes ==
    /\ Room(1)
    /\ calls' = Append(calls, Call("routes", "page", None))
    /\ UNCHANGED <<store, saved, selected, rows, detail, refresh, clear,
                   cleared, hasty, crossed>>

\* (Mutant: the table of requests is not loaded again.)
ReloadRoutes(o) == <<Call("routes", o, None)>>

Reload(o) == <<Call("list", o, None), Call("routes", o, None)>>

ClickRefresh ==
    /\ refresh = "idle" /\ Room(2)
    /\ refresh' = "reloading"
    /\ calls' = calls \o Reload("refresh")
    /\ UNCHANGED <<store, saved, selected, rows, detail, clear, cleared, hasty,
                   crossed>>

ClickClear ==
    /\ clear = "idle" /\ Room(2)
    /\ clear' = "deleting"
    /\ calls' = Append(calls, Call("delete", "clear", None))
    /\ UNCHANGED <<store, saved, selected, rows, detail, refresh, cleared,
                   hasty, crossed>>

-----------------------------------------------------------------------------
(***************************************************************************)
(* The answers arrive.  Handled(n) is what is still under way then.        *)
(***************************************************************************)
Handled(n) == RemoveAt(calls, n)

Arrives(n, k) ==
    /\ n \in DOMAIN calls
    /\ calls[n].kind = k
    /\ k # "routes" => calls[n].at = "answered"

\* Promise.all: no other call of the same owner is under way.
IsLastOf(n) == \A m \in DOMAIN calls \ {n} : calls[m].owner # calls[n].owner

(***************************************************************************)
(* The tables are loaded, each call rendered by itself, and once both are  *)
(* handled the button goes on: refresh loads the selected trace again, if  *)
(* there is one, and clear empties the panel.                              *)
(***************************************************************************)
\* The finally block of the refresh.  (Mutant: only a success enables it.)
EnabledIfOk(n) == IF calls[n].ok THEN "idle" ELSE refresh

Enabled(n) == "idle"

\* (Mutant: a trace is loaded though none is selected.)
AnySelection == TRUE

Selection == selected # None

EmptiesPanel(n) ==
    /\ IsLastOf(n) /\ calls[n].owner = "clear"
    /\ calls' = Handled(n)
    /\ detail' = Hint
    /\ clear' = "idle"
    /\ UNCHANGED <<selected, refresh, hasty>>

LoadsSelected(n) ==
    /\ IsLastOf(n) /\ calls[n].owner = "refresh" /\ Selection
    /\ calls' = Append(Handled(n), Call("trace", "refresh", selected))
    /\ refresh' = "loading"
    /\ hasty' = (Crossing(selected) \/ clear = "reloading")
    /\ UNCHANGED <<selected, detail, clear>>

EndsRefresh(n) ==
    /\ IsLastOf(n) /\ calls[n].owner = "refresh" /\ ~Selection
    /\ calls' = Handled(n)
    /\ refresh' = Enabled(n)
    /\ UNCHANGED <<selected, detail, clear, hasty>>

Reloaded(n) ==
    \/ /\ ~IsLastOf(n) \/ calls[n].owner = "page"
       /\ calls' = Handled(n)
       /\ UNCHANGED <<selected, detail, refresh, clear, hasty>>
    \/ EmptiesPanel(n)
    \/ LoadsSelected(n)
    \/ EndsRefresh(n)

ShowList(n) ==
    /\ Arrives(n, "list")
    /\ rows' = calls[n].got
    /\ Reloaded(n)
    /\ UNCHANGED <<store, saved, cleared, crossed>>

ShowRoutes(n) ==
    /\ Arrives(n, "routes")
    /\ Reloaded(n)
    /\ UNCHANGED <<store, saved, rows, cleared, crossed>>

\* renderTraceDetail, or the message of the error in its place.
ShowTrace(n) ==
    /\ Arrives(n, "trace")
    /\ calls' = Handled(n)
    /\ detail' = [shows |-> IF calls[n].ok THEN "trace" ELSE "error",
                  id |-> calls[n].id]
    /\ refresh' = IF calls[n].owner = "refresh" THEN Enabled(n) ELSE refresh
    /\ UNCHANGED <<store, saved, selected, rows, clear, cleared, hasty, crossed>>

\* The traces are cleared: nothing is selected, and the tables are reloaded.
\* (Mutant: the selection stays.)
StillSelected(i) == i

Deselected(i) == None

ConfirmClear(n) ==
    /\ Arrives(n, "delete")
    /\ calls[n].ok
    /\ calls' = Handled(n) \o Reload("clear")
    /\ selected' = Deselected(selected)
    /\ clear' = "reloading"
    /\ cleared' = cleared \cup calls[n].got
    /\ hasty' = (Pending("trace") # {})
    /\ crossed' = (Pending("list") # {})
    /\ UNCHANGED <<store, saved, rows, detail, refresh>>

FailClear(n) ==
    /\ Arrives(n, "delete")
    /\ ~calls[n].ok
    /\ calls' = Handled(n)
    /\ clear' = "idle"
    /\ UNCHANGED <<store, saved, selected, rows, detail, refresh, cleared,
                   hasty, crossed>>

Arrive(n) ==
    \/ ShowList(n) \/ ShowRoutes(n) \/ ShowTrace(n)
    \/ ConfirmClear(n) \/ FailClear(n)

Click ==
    \/ \E i \in Ids : Select(i)
    \/ ActivateRoutes \/ ClickRefresh \/ ClickClear

Next ==
    \/ \E i \in Ids : Save(i)
    \/ \E n \in 1 .. MaxCalls : Answer(n) \/ Arrive(n)
    \/ Click

Spec == Init /\ [][Next]_vars

(***************************************************************************)
(* Every call is answered or fails, and its callback runs.                 *)
(***************************************************************************)
FairSpec == Spec /\ \A n \in 1 .. MaxCalls : WF_vars(Answer(n)) /\ WF_vars(Arrive(n))

-----------------------------------------------------------------------------
\* Every variable has its type.
TypeOK ==
    /\ store \subseteq saved /\ saved \subseteq Ids
    /\ calls \in Seq(CallType) /\ Len(calls) <= MaxCalls
    /\ selected \in Ids \cup {None}
    /\ rows \subseteq saved
    /\ detail \in [shows : {"hint", "trace", "error"}, id : Ids \cup {None}]
    /\ refresh \in {"idle", "reloading", "loading"}
    /\ clear \in {"idle", "deleting", "reloading"}
    /\ cleared \subseteq saved
    /\ hasty \in BOOLEAN /\ crossed \in BOOLEAN

(***************************************************************************)
(* The panel shows the selected trace, or the hint when there is none,     *)
(* whatever calls of the tables overlap, fail or arrive late - provided    *)
(* that the user did not select another trace, or clear the store, before  *)
(* the answer to the last selection, nor select while the tables of a      *)
(* cleared store load.  Nothing in loadTrace compares the answer with the  *)
(* selection, so those two cases do show another trace than the selected.  *)
(***************************************************************************)
ShowsSelection ==
    (~hasty /\ Pending("trace") = {} /\ clear # "reloading") =>
        detail.id = selected

(***************************************************************************)
(* The traces the page reports as cleared are gone from its table once the *)
(* lists it asked for are rendered, unless a list was under way when the   *)
(* clear was confirmed: that one may bring them back.                      *)
(***************************************************************************)
ClearedIsGone ==
    (~crossed /\ Pending("list") = {}) => rows \cap cleared = {}

(***************************************************************************)
(* The buttons come back: refresh and clear are enabled again, also when   *)
(* their calls fail or the user goes on clicking.                          *)
(***************************************************************************)
ButtonsReturn ==
    /\ refresh # "idle" ~> refresh = "idle"
    /\ clear # "idle" ~> clear = "idle"
=============================================================================
