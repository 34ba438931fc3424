------------------------------- MODULE Profilers -------------------------------
(***************************************************************************)
(* The Latensight objects of one process (profiler.py): they attach to     *)
(* applications, install the shared adapters, are switched on and off,     *)
(* register database engines with the SQLAlchemy adapter                   *)
(* (instrumentation/sqlalchemy.py) and are closed.                         *)
(*                                                                         *)
(* None of these operations awaits, so on one thread each runs to its end; *)
(* callers on several threads interleave at the locks.  An operation is a  *)
(* sequence of steps, one per lock it takes or shared variable it touches. *)
(***************************************************************************)
EXTENDS Adapters, Naturals, FiniteSets

CONSTANTS
    Apps,         \* FastAPI applications
    Callers,      \* threads that use the profilers
    Targets,      \* synchronous SQLAlchemy engines
    Captures,     \* adapters that a configuration may add to the handler's
    RestoresAll,  \* whether restore_all() of the adapters is called
    None

\* An engine is a synchronous one or an AsyncEngine over it.
Engines    == Targets \X {"sync", "async"}
Target(e)  == e[1]

ASSUME ProfilerAssumption == None \notin Profilers \cup Apps \cup Engines
ASSUME CaptureAssumption  == Captures \subseteq {"dependency", "serialization"}
ASSUME RestoreAssumption  == RestoresAll \in BOOLEAN

VARIABLES
    status,       \* how far the constructor of a profiler is
    captured,     \* the adapters that its configuration asks for
    enabled,      \* profilers whose ProfilerState is enabled
    closed,       \* profilers with _closed
    remembered,   \* _registered_engines
    started,      \* applications with a middleware stack
    middleware,   \* the profilers whose middleware an application has
    attached,     \* app.state.fastapi_latensight
    unmountable,  \* profilers with a dashboard on a path that LatensightConfig
                  \* accepts and the router rejects ("/{path}", "/{x:foo}")
    registered,   \* the owners of each target, which has listeners while it
                  \* has owners
    call          \* the operation each caller is in

profilerVars == <<status, captured, enabled, closed, remembered>>
appVars      == <<started, middleware, attached, unmountable>>
vars         == <<adapterVars, profilerVars, appVars, registered, call>>

Places == {"idle", "install", "mount", "undo", "record", "enabling",
           "registering", "remembering", "forgetting", "closing", "clearing", "remove"}

CallType == [at : Places, p : Profilers \cup {None}, app : Apps \cup {None},
             e : Engines \cup {None}, todo : SUBSET Adapters]

Idle == [at |-> "idle", p |-> None, app |-> None, e |-> None, todo |-> {}]

In(c, place) == call[c].at = place

Goes(c, place, p) == call' = [call EXCEPT ![c] = [Idle EXCEPT !.at = place, !.p = p]]

Returns(c) == call' = [call EXCEPT ![c] = Idle]

\* Adapters are installed in this order and removed in the reverse.
Rank(ad) == CASE ad = "handler" -> 1 [] ad = "dependency" -> 2
              [] ad = "serialization" -> 3

IsFirst(ad, todo) == ad \in todo /\ \A b \in todo : Rank(ad) <= Rank(b)
IsLast(ad, todo)  == ad \in todo /\ \A b \in todo : Rank(b) <= Rank(ad)

Init ==
    /\ AdaptersInit
    /\ status = [p \in Profilers |-> "new"]
    /\ captured = [p \in Profilers |-> {}]
    /\ enabled = {}
    /\ closed = {}
    /\ remembered = [p \in Profilers |-> {}]
    /\ started = {}
    /\ middleware = [a \in Apps |-> {}]
    /\ attached = [a \in Apps |-> None]
    /\ unmountable \in SUBSET Profilers
    /\ registered = [t \in Targets |-> {}]
    /\ call = [c \in Callers |-> Idle]

-----------------------------------------------------------------------------
(* Latensight(app, config=...). *)

\* The application is not started and has no profiler.
IsFree(a) == a \notin started /\ attached[a] = None

\* It is not free, or the options of the dashboard are rejected.
Refuse(c, p, a) ==
    /\ In(c, "idle") /\ status[p] = "new"
    /\ status' = [status EXCEPT ![p] = "failed"]
    /\ UNCHANGED <<adapterVars, captured, enabled, closed, remembered, appVars,
                   registered, call>>

Attach(c, p, a, capture, on) ==
    /\ In(c, "idle") /\ status[p] = "new" /\ IsFree(a)
    /\ status' = [status EXCEPT ![p] = "building"]
    /\ captured' = [captured EXCEPT ![p] = {"handler"} \cup capture]
    /\ enabled' = IF on THEN enabled \cup {p} ELSE enabled
    /\ call' = [call EXCEPT ![c] =
         [Idle EXCEPT !.at = "install", !.p = p, !.app = a,
                      !.todo = {"handler"} \cup capture]]
    /\ UNCHANGED <<adapterVars, closed, remembered, appVars, registered>>

InstallNext(c) ==
    /\ In(c, "install")
    /\ \E ad \in call[c].todo :
         /\ IsFirst(ad, call[c].todo)
         /\ Install(ad, call[c].p)
         /\ call' = [call EXCEPT ![c].todo = @ \ {ad}]
    /\ UNCHANGED <<profilerVars, appVars, registered>>

\* installed_adapters.  (Mutant: one too few.)
InstalledButFirst(c) == (captured[call[c].p] \ call[c].todo) \ {"handler"}

Installed(c) == captured[call[c].p] \ call[c].todo

\* An adapter rejects, or the application was started meanwhile and takes no
\* middleware any more.
ConstructionFails(c) ==
    /\ In(c, "install")
    /\ \/ \E ad \in call[c].todo : IsFirst(ad, call[c].todo) /\ ~CanInstall(ad)
       \/ call[c].todo = {} /\ call[c].app \in started
    /\ call' = [call EXCEPT ![c].at = "undo", ![c].todo = Installed(c)]
    /\ UNCHANGED <<adapterVars, profilerVars, appVars, registered>>

UndoNext(c) ==
    /\ In(c, "undo")
    /\ \E ad \in call[c].todo :
         /\ IsLast(ad, call[c].todo)
         /\ Remove(ad, call[c].p)
         /\ call' = [call EXCEPT ![c].todo = @ \ {ad}]
    /\ UNCHANGED <<profilerVars, appVars, registered>>

\* The constructor raises.
GiveUp(c) ==
    /\ In(c, "undo") /\ call[c].todo = {}
    /\ status' = [status EXCEPT ![call[c].p] = "failed"]
    /\ Returns(c)
    /\ UNCHANGED <<adapterVars, captured, enabled, closed, remembered, appVars,
                   registered>>

\* app.add_middleware
AddMiddleware(c) ==
    /\ In(c, "install") /\ call[c].todo = {} /\ call[c].app \notin started
    /\ middleware' = [middleware EXCEPT ![call[c].app] = @ \cup {call[c].p}]
    /\ call' = [call EXCEPT ![c].at = "mount"]
    /\ UNCHANGED <<adapterVars, profilerVars, started, attached, unmountable,
                   registered>>

\* app.mount of the dashboard, if it is enabled.
Mount(c) ==
    /\ In(c, "mount") /\ call[c].p \notin unmountable
    /\ call' = [call EXCEPT ![c].at = "record"]
    /\ UNCHANGED <<adapterVars, profilerVars, appVars, registered>>

\* The router rejects the path.  The adapters are undone as before; the
\* middleware stays on the application.
MountFails(c) ==
    /\ In(c, "mount") /\ call[c].p \in unmountable
    /\ call' = [call EXCEPT ![c].at = "undo", ![c].todo = Installed(c)]
    /\ UNCHANGED <<adapterVars, profilerVars, appVars, registered>>

\* app.state.fastapi_latensight = self.  (Mutant: the application.)
RecordApp(c) ==
    /\ In(c, "record")
    /\ attached' = [attached EXCEPT ![call[c].app] = call[c].app]
    /\ status' = [status EXCEPT ![call[c].p] = "open"]
    /\ Returns(c)
    /\ UNCHANGED <<adapterVars, captured, enabled, closed, remembered, started,
                   middleware, unmountable, registered>>

Record(c) ==
    /\ In(c, "record")
    /\ attached' = [attached EXCEPT ![call[c].app] = call[c].p]
    /\ status' = [status EXCEPT ![call[c].p] = "open"]
    /\ Returns(c)
    /\ UNCHANGED <<adapterVars, captured, enabled, closed, remembered, started,
                   middleware, unmountable, registered>>

-----------------------------------------------------------------------------
(* The methods of a profiler that was constructed. *)

\* (Mutant: a closed one is used.)
IsUsable(p) == status[p] = "open"

EnsureOpen(p) == status[p] = "open" /\ p \notin closed

Enable(c, p) ==
    /\ In(c, "idle") /\ EnsureOpen(p)
    /\ Goes(c, "enabling", p)
    /\ UNCHANGED <<adapterVars, profilerVars, appVars, registered>>

SetEnabled(c) ==
    /\ In(c, "enabling")
    /\ enabled' = enabled \cup {call[c].p}
    /\ Returns(c)
    /\ UNCHANGED <<adapterVars, status, captured, closed, remembered, appVars,
                   registered>>

Disable(c, p) ==
    /\ In(c, "idle") /\ status[p] = "open"
    /\ enabled' = enabled \ {p}
    /\ UNCHANGED <<adapterVars, status, captured, closed, remembered, appVars,
                   registered, call>>

Instrument(c, p, e) ==
    /\ In(c, "idle") /\ EnsureOpen(p)
    /\ call' = [call EXCEPT ![c] = [Idle EXCEPT !.at = "registering",
                                                !.p = p, !.e = e]]
    /\ UNCHANGED <<adapterVars, profilerVars, appVars, registered>>

Register(c) ==
    /\ In(c, "registering")
    /\ registered' = [registered EXCEPT ![Target(call[c].e)] = @ \cup {call[c].p}]
    /\ call' = [call EXCEPT ![c].at = "remembering"]
    /\ UNCHANGED <<adapterVars, profilerVars, appVars>>

Remember(c) ==
    /\ In(c, "remembering")
    /\ remembered' = [remembered EXCEPT ![call[c].p] = @ \cup {call[c].e}]
    /\ Returns(c)
    /\ UNCHANGED <<adapterVars, status, captured, enabled, closed, appVars,
                   registered>>

\* It does not ask whether the profiler is open.
Uninstrument(c, p, e) ==
    /\ In(c, "idle") /\ status[p] = "open"
    /\ registered' = [registered EXCEPT ![Target(e)] = @ \ {p}]
    /\ call' = [call EXCEPT ![c] = [Idle EXCEPT !.at = "forgetting",
                                                !.p = p, !.e = e]]
    /\ UNCHANGED <<adapterVars, profilerVars, appVars>>

Forget(c) ==
    /\ In(c, "forgetting")
    /\ remembered' = [remembered EXCEPT ![call[c].p] = @ \ {call[c].e}]
    /\ Returns(c)
    /\ UNCHANGED <<adapterVars, status, captured, enabled, closed, appVars,
                   registered>>

-----------------------------------------------------------------------------
(* close() *)

Close(c, p) ==
    /\ In(c, "idle") /\ status[p] = "open" /\ p \notin closed
    /\ enabled' = enabled \ {p}
    /\ Goes(c, "closing", p)
    /\ UNCHANGED <<adapterVars, status, captured, closed, remembered, appVars,
                   registered>>

\* No engine is remembered: unregister_owner is not called.
NoEngines(c) ==
    /\ In(c, "closing") /\ remembered[call[c].p] = {}
    /\ call' = [call EXCEPT ![c].at = "remove", ![c].todo = Adapters]
    /\ UNCHANGED <<adapterVars, profilerVars, appVars, registered>>

\* unregister_owner
ReleaseEngines(c) ==
    /\ In(c, "closing") /\ remembered[call[c].p] # {}
    /\ registered' = [t \in Targets |-> registered[t] \ {call[c].p}]
    /\ call' = [call EXCEPT ![c].at = "clearing"]
    /\ UNCHANGED <<adapterVars, profilerVars, appVars>>

ClearEngines(c) ==
    /\ In(c, "clearing")
    /\ remembered' = [remembered EXCEPT ![call[c].p] = {}]
    /\ call' = [call EXCEPT ![c].at = "remove", ![c].todo = Adapters]
    /\ UNCHANGED <<adapterVars, status, captured, enabled, closed, appVars,
                   registered>>

RemoveNext(c) ==
    /\ In(c, "remove")
    /\ \E ad \in call[c].todo :
         /\ IsLast(ad, call[c].todo)
         /\ Remove(ad, call[c].p)
         /\ call' = [call EXCEPT ![c].todo = @ \ {ad}]
    /\ UNCHANGED <<profilerVars, appVars, registered>>

Shut(c) ==
    /\ In(c, "remove") /\ call[c].todo = {}
    /\ closed' = closed \cup {call[c].p}
    /\ Returns(c)
    /\ UNCHANGED <<adapterVars, status, captured, enabled, remembered, appVars,
                   registered>>

-----------------------------------------------------------------------------
(* What others do. *)

\* The first request, or the server, builds the middleware stack.
Start(c, a) ==
    /\ In(c, "idle")
    /\ started' = started \cup {a}
    /\ UNCHANGED <<adapterVars, profilerVars, middleware, attached, unmountable,
                   registered, call>>

Patch(c) ==
    /\ In(c, "idle")
    /\ \/ \E s \in Overlaid : Overlay(s) \/ Withdraw(s)
       \/ RestoresAll /\ (\E ad \in Adapters : RestoreAll(ad))
    /\ UNCHANGED <<profilerVars, appVars, registered, call>>

Construct(c) ==
    \/ \E p \in Profilers, a \in Apps :
         \/ Refuse(c, p, a)
         \/ \E capture \in SUBSET Captures, on \in BOOLEAN : Attach(c, p, a, capture, on)
    \/ InstallNext(c) \/ ConstructionFails(c) \/ UndoNext(c) \/ GiveUp(c)
    \/ AddMiddleware(c) \/ Mount(c) \/ MountFails(c) \/ Record(c)

Use(c) ==
    \/ \E p \in Profilers : Enable(c, p) \/ Disable(c, p) \/ Close(c, p)
    \/ \E p \in Profilers, e \in Engines : Instrument(c, p, e) \/ Uninstrument(c, p, e)
    \/ SetEnabled(c) \/ Register(c) \/ Remember(c) \/ Forget(c)
    \/ NoEngines(c) \/ ReleaseEngines(c) \/ ClearEngines(c) \/ RemoveNext(c) \/ Shut(c)

Next ==
    \E c \in Callers :
        Construct(c) \/ Use(c) \/ Patch(c) \/ (\E a \in Apps : Start(c, a))

Spec == Init /\ [][Next]_vars

-----------------------------------------------------------------------------
\* Every variable has its type.
TypeOK ==
    /\ AdaptersType
    /\ status \in [Profilers -> {"new", "building", "open", "failed"}]
    /\ captured \in [Profilers -> SUBSET Adapters]
    /\ enabled \subseteq Profilers /\ closed \subseteq Profilers
    /\ remembered \in [Profilers -> SUBSET Engines]
    /\ started \subseteq Apps
    /\ middleware \in [Apps -> SUBSET Profilers]
    /\ attached \in [Apps -> Profilers \cup {None}]
    /\ unmountable \subseteq Profilers
    /\ registered \in [Targets -> SUBSET Profilers]
    /\ call \in [Callers -> CallType]

Closing(p) == \E c \in Callers : /\ call[c].p = p
                                 /\ call[c].at \in {"closing", "clearing", "remove"}

(***************************************************************************)
(* "Multiple Latensight instances must not disable one another": as long   *)
(* as a profiler is open, it owns the adapters it asked for and calls of   *)
(* the functions they patch reach their wrappers, though others are        *)
(* constructed, fail, or are closed, and other libraries patch the same    *)
(* functions.                                                              *)
(***************************************************************************)
InstrumentedWhileOpen ==
    \A p \in Profilers : status[p] = "open" /\ p \notin closed /\ ~Closing(p) =>
        \A ad \in captured[p] : /\ p \in owners[ad]
                                /\ \A s \in SlotsOf(ad) : Reaches(s)

(***************************************************************************)
(* The patch of another library is replaced by nobody but that library,    *)
(* which puts back what it found.                                          *)
(***************************************************************************)
ForeignKept ==
    [][\A s \in Slots : patch[s] = "foreign" /\ patch'[s] # "foreign"
                            => patch'[s] = saved[s]]_vars

(***************************************************************************)
(* A constructor that raises takes back its adapters, in whichever step it *)
(* raises and whoever shares them, and the application does not get the    *)
(* profiler.  Its rollback knows of nothing else: the middleware stays on  *)
(* an application, though only if it was the mount after it that raised.   *)
(***************************************************************************)
FailureIsUndone ==
    \A p \in Profilers : status[p] = "failed" =>
        /\ \A ad \in Adapters : p \notin owners[ad]
        /\ \A a \in Apps : /\ attached[a] # p
                           /\ p \in middleware[a] => p \in unmountable

(***************************************************************************)
(* close() is terminal: a closed profiler traces no request and owns no    *)
(* patch and no listener, whatever engines were registered, by either of   *)
(* their names, and released before or after.                              *)
(***************************************************************************)
ClosedIsReleased ==
    \A p \in closed :
        /\ p \notin enabled
        /\ \A ad \in Adapters : p \notin owners[ad]
        /\ \A t \in Targets : p \notin registered[t]

(***************************************************************************)
(* "Remove one owner and restore after the final owner leaves": a function *)
(* that no other library patches holds a wrapper only while its adapter    *)
(* has an owner.                                                           *)
(***************************************************************************)
RestoredWithoutOwners ==
    \A ad \in Adapters : owners[ad] = {} =>
        \A s \in SlotsOf(ad) \ Overlaid : patch[s] # "wrapper"
=============================================================================
