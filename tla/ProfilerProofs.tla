---------------------------- MODULE ProfilerProofs ----------------------------
(***************************************************************************)
(* Proofs about Profilers, for any number of profilers, applications,      *)
(* callers and engines:                                                    *)
(*                                                                         *)
(*   ProfilerTypes      every variable keeps its type;                     *)
(*   StaysInstrumented  an open profiler keeps its adapters and reaches    *)
(*                      the wrappers, unless restore_all() is called;      *)
(*   PatchesKept        nobody replaces the patch of another library;      *)
(*   RestoredAtLast     a function has a wrapper only while it has owners; *)
(*   FailureIsClean     a constructor that raises leaves no adapter, and   *)
(*                      only a mount that raises leaves the middleware;    *)
(*   CloseReleases      a closed profiler holds nothing, if one thread     *)
(*                      calls the profilers;                               *)
(*   CloseUninstalls    a closed profiler has no adapter, in any number of *)
(*                      threads.                                           *)
(***************************************************************************)
EXTENDS Profilers, TLAPS

USE DEF Idle, In, Goes, Returns

\* The adapters patch different references.
LEMMA SlotsDiffer ==
    \A ad, bd \in Adapters : \A s \in SlotsOf(ad) : s \in SlotsOf(bd) => ad = bd
  BY DEF Adapters, SlotsOf

\* Each reference of an adapter is one of Slots.
LEMMA SlotsKnown == \A ad \in Adapters : SlotsOf(ad) \subseteq Slots
  BY DEF Slots

-----------------------------------------------------------------------------
(* The adapters by themselves. *)

\* An adapter with an owner is in place: calls of its functions reach it.
OwnedReach ==
    \A ad \in Adapters : owners[ad] # {} => \A s \in SlotsOf(ad) : Reaches(s)

\* Installing an adapter keeps the types and every adapter in place.
LEMMA InstallKeeps ==
    ASSUME AdaptersType, OwnedReach, NEW ad \in Adapters, NEW p \in Profilers,
           Install(ad, p)
    PROVE  /\ AdaptersType'
           /\ OwnedReach'
           /\ \A bd \in Adapters : owners[bd] \subseteq owners'[bd]
           /\ p \in owners'[ad]
  <1>1. owners' \in [Adapters -> SUBSET Profilers]
    BY DEF Install, AdaptersType
  <1>2. patch' \in [Slots -> {"original", "wrapper", "foreign"}]
    BY DEF Install, AdaptersType
  <1>3. AdaptersType'
    BY <1>1, <1>2 DEF Install, AdaptersType
  <1>4. OwnedReach'
    <2> SUFFICES ASSUME NEW bd \in Adapters, owners'[bd] # {}, NEW s \in SlotsOf(bd)
                 PROVE  Reaches(s)'
      BY DEF OwnedReach
    <2>1. s \in Slots
      BY SlotsKnown
    <2>2. CASE owners[ad] = {} /\ bd = ad
      BY <2>1, <2>2 DEF Install, Reaches
    <2>3. CASE ~(owners[ad] = {} /\ bd = ad)
      <3>1. owners[bd] # {}
        BY <2>3 DEF Install, AdaptersType
      <3>2. ~(owners[ad] = {} /\ s \in SlotsOf(ad))
        BY <3>1, <2>3, SlotsDiffer
      <3>3. patch'[s] = patch[s] /\ saved' = saved
        BY <2>1, <3>2 DEF Install
      <3> QED
        BY <3>1, <3>3 DEF OwnedReach, Reaches
    <2> QED
      BY <2>2, <2>3
  <1>5. (\A bd \in Adapters : owners[bd] \subseteq owners'[bd]) /\ p \in owners'[ad]
    BY DEF Install, AdaptersType
  <1> QED
    BY <1>3, <1>4, <1>5

\* An adapter that loses owners keeps the types and every adapter that has
\* owners in place.
LEMMA LeaveKeeps ==
    ASSUME AdaptersType, OwnedReach, NEW ad \in Adapters,
           NEW left \in SUBSET Profilers, left \subseteq owners[ad],
           LeaveOwners(ad, left)
    PROVE  AdaptersType' /\ OwnedReach'
  <1>1. owners' \in [Adapters -> SUBSET Profilers]
    BY DEF LeaveOwners, AdaptersType
  <1>2. patch' \in [Slots -> {"original", "wrapper", "foreign"}]
    BY DEF LeaveOwners, AdaptersType
  <1>3. AdaptersType'
    BY <1>1, <1>2 DEF LeaveOwners, AdaptersType
  <1>4. OwnedReach'
    <2> SUFFICES ASSUME NEW bd \in Adapters, owners'[bd] # {}, NEW s \in SlotsOf(bd)
                 PROVE  Reaches(s)'
      BY DEF OwnedReach
    <2>1. s \in Slots
      BY SlotsKnown
    <2>2. owners[bd] # {}
      BY DEF LeaveOwners, AdaptersType
    <2>3. s \notin RestoredFor(ad, left)
      <3>1. CASE bd = ad
        BY <3>1 DEF LeaveOwners, AdaptersType, RestoredFor
      <3>2. CASE bd # ad
        BY <3>2, SlotsDiffer DEF RestoredFor
      <3> QED
        BY <3>1, <3>2
    <2>4. patch'[s] = patch[s] /\ saved' = saved
      BY <2>1, <2>3 DEF LeaveOwners
    <2> QED
      BY <2>2, <2>4 DEF OwnedReach, Reaches
  <1> QED
    BY <1>3, <1>4

\* So it does when an owner is removed; the other owners stay.
LEMMA RemoveKeeps ==
    ASSUME AdaptersType, OwnedReach, NEW ad \in Adapters, NEW p \in Profilers,
           Remove(ad, p)
    PROVE  /\ AdaptersType'
           /\ OwnedReach'
           /\ \A bd \in Adapters : \A q \in Profilers \ {p} :
                 q \in owners[bd] => q \in owners'[bd]
  <1>1. LeaveOwners(ad, owners[ad] \ {p}) /\ owners[ad] \in SUBSET Profilers
    BY DEF Remove, AdaptersType
  <1>2. AdaptersType' /\ OwnedReach'
    BY <1>1, LeaveKeeps
  <1>3. owners' = [owners EXCEPT ![ad] = owners[ad] \ {p}]
    BY <1>1 DEF LeaveOwners
  <1> QED
    BY <1>2, <1>3 DEF AdaptersType

\* A foreign patch keeps what it covers reachable.
LEMMA ForeignKeeps ==
    ASSUME AdaptersType, OwnedReach, NEW x \in Slots, Overlay(x) \/ Withdraw(x)
    PROVE  AdaptersType' /\ OwnedReach' /\ owners' = owners
  <1>1. owners' = owners /\ unsupported' = unsupported
    BY DEF Overlay, Withdraw
  <1>2. \A s \in Slots : Reaches(s) => Reaches(s)'
    BY DEF Overlay, Withdraw, Reaches, AdaptersType
  <1>3. OwnedReach'
    BY <1>1, <1>2, SlotsKnown DEF OwnedReach
  <1>4. AdaptersType'
    BY DEF Overlay, Withdraw, AdaptersType
  <1> QED
    BY <1>1, <1>3, <1>4

-----------------------------------------------------------------------------
(* Types. *)

\* The types of the variables that are not the adapters'.
OwnTypes ==
    /\ status \in [Profilers -> {"new", "building", "open", "failed"}]
    /\ captured \in [Profilers -> SUBSET Adapters]
    /\ enabled \subseteq Profilers /\ closed \subseteq Profilers
    /\ remembered \in [Profilers -> SUBSET Engines]
    /\ started \subseteq Apps
    /\ middleware \in [Apps -> SUBSET Profilers]
    /\ attached \in [Apps -> Profilers \cup {None}]
    /\ unmountable \subseteq Profilers
    /\ registered \in [Targets -> SUBSET Profilers]
    /\ call \in [Callers -> CallType]

\* Whoever is in an operation names what it works on.
Named ==
    \A c \in Callers :
        /\ call[c].at # "idle" => call[c].p \in Profilers
        /\ call[c].at \in {"install", "mount", "record"} => call[c].app \in Apps
        /\ call[c].at \in {"registering", "remembering", "forgetting"}
               => call[c].e \in Engines

TypeInv == AdaptersType /\ OwnedReach /\ OwnTypes /\ Named

\* A step that leaves the adapters alone keeps them in place.
LEMMA AdaptersRest ==
    ASSUME AdaptersType, OwnedReach, UNCHANGED adapterVars
    PROVE  AdaptersType' /\ OwnedReach'
  BY DEF adapterVars, AdaptersType, OwnedReach, Reaches

\* What a step of any kind does to the adapters.
LEMMA AdaptersStep ==
    ASSUME AdaptersType, OwnedReach, OwnTypes, Named, [Next]_vars
    PROVE  AdaptersType' /\ OwnedReach'
  <1>1. CASE UNCHANGED vars
    BY <1>1, AdaptersRest DEF vars
  <1>2. CASE Next
    <2> PICK c \in Callers :
          \/ Construct(c) \/ Use(c) \/ Patch(c) \/ \E a \in Apps : Start(c, a)
      BY <1>2 DEF Next
    <2>1. CASE UNCHANGED adapterVars
      BY <2>1, AdaptersRest
    <2>2. CASE InstallNext(c)
      <3>1. call[c].p \in Profilers /\ call[c].todo \in SUBSET Adapters
        BY <2>2 DEF InstallNext, OwnTypes, Named, CallType
      <3>2. PICK ad \in call[c].todo : Install(ad, call[c].p)
        BY <2>2 DEF InstallNext
      <3> QED
        BY <3>1, <3>2, InstallKeeps
    <2>3. CASE UndoNext(c) \/ RemoveNext(c)
      <3>1. call[c].p \in Profilers /\ call[c].todo \in SUBSET Adapters
        BY <2>3 DEF UndoNext, RemoveNext, OwnTypes, Named, CallType
      <3>2. PICK ad \in call[c].todo : Remove(ad, call[c].p)
        BY <2>3 DEF UndoNext, RemoveNext
      <3> QED
        BY <3>1, <3>2, RemoveKeeps
    <2>4. CASE Patch(c)
      <3>1. CASE \E s \in Overlaid : Overlay(s) \/ Withdraw(s)
        BY <3>1, ForeignKeeps, OverlayAssumption
      <3>2. CASE \E ad \in Adapters : RestoreAll(ad)
        BY <3>2, LeaveKeeps DEF RestoreAll
      <3> QED
        BY <2>4, <3>1, <3>2 DEF Patch
    <2>5. CASE Construct(c)
      <3>1. UNCHANGED adapterVars \/ InstallNext(c) \/ UndoNext(c)
        BY <2>5 DEF Construct, Refuse, Attach, ConstructionFails, GiveUp,
                    AddMiddleware, Mount, MountFails, Record
      <3> QED
        BY <3>1, <2>1, <2>2, <2>3
    <2>6. CASE Use(c)
      <3>1. UNCHANGED adapterVars \/ RemoveNext(c)
        BY <2>6 DEF Use, Enable, Disable, Close, Instrument, Uninstrument,
                    SetEnabled, Register, Remember, Forget, NoEngines,
                    ReleaseEngines, ClearEngines, Shut
      <3> QED
        BY <3>1, <2>1, <2>3
    <2>7. CASE \E a \in Apps : Start(c, a)
      BY <2>7, <2>1 DEF Start
    <2> QED
      BY <2>4, <2>5, <2>6, <2>7
  <1> QED
    BY <1>1, <1>2
\* A caller that takes one adapter from those it has to do keeps its type.
LEMMA Narrowed ==
    ASSUME call \in [Callers -> CallType], NEW c \in Callers, NEW ad
    PROVE  [call EXCEPT ![c].todo = @ \ {ad}] \in [Callers -> CallType]
  <1>1. [call[c] EXCEPT !.todo = @ \ {ad}] \in CallType
    BY DEF CallType
  <1> QED
    BY <1>1

\* A caller that goes on to another place with other adapters keeps its type.
LEMMA Moved ==
    ASSUME call \in [Callers -> CallType], NEW c \in Callers,
           NEW place \in Places, NEW todo \in SUBSET Adapters
    PROVE  [call EXCEPT ![c].at = place, ![c].todo = todo] \in [Callers -> CallType]
  <1>1. [call[c] EXCEPT !.at = place, !.todo = todo] \in CallType
    BY DEF CallType
  <1> QED
    BY <1>1

\* A caller that only goes on to another place keeps its type.
LEMMA MovedOn ==
    ASSUME call \in [Callers -> CallType], NEW c \in Callers, NEW place \in Places
    PROVE  [call EXCEPT ![c].at = place] \in [Callers -> CallType]
  <1>1. [call[c] EXCEPT !.at = place] \in CallType
    BY DEF CallType
  <1> QED
    BY <1>1

\* The steps of a constructor keep the types.
LEMMA ConstructTypes ==
    ASSUME TypeInv, NEW c \in Callers, Construct(c)
    PROVE  OwnTypes' /\ Named'
  <1> USE DEF TypeInv, OwnTypes, Named, CallType, Places
  <1>1. ASSUME NEW p \in Profilers, NEW a \in Apps, Refuse(c, p, a)
        PROVE  OwnTypes' /\ Named'
    BY <1>1 DEF Refuse, appVars
  <1>2. ASSUME NEW p \in Profilers, NEW a \in Apps, NEW capture \in SUBSET Captures,
               NEW on \in BOOLEAN, Attach(c, p, a, capture, on)
        PROVE  OwnTypes' /\ Named'
    <2>1. {"handler"} \cup capture \in SUBSET Adapters
      BY CaptureAssumption DEF Adapters
    <2>2. captured' \in [Profilers -> SUBSET Adapters]
      BY <1>2, <2>1 DEF Attach
    <2>3. call' \in [Callers -> CallType]
      BY <1>2, <2>1 DEF Attach
    <2>4. Named'
      BY <1>2 DEF Attach
    <2> QED
      BY <1>2, <2>2, <2>3, <2>4 DEF Attach, appVars
  <1>3. CASE InstallNext(c)
    <2>1. call' \in [Callers -> CallType]
      BY <1>3, Narrowed DEF InstallNext
    <2>2. Named'
      BY <1>3 DEF InstallNext
    <2> QED
      BY <1>3, <2>1, <2>2 DEF InstallNext, profilerVars, appVars
  <1>4. CASE ConstructionFails(c)
    <2>1. call' \in [Callers -> CallType]
      <3>1. Installed(c) \in SUBSET Adapters
        BY <1>4 DEF ConstructionFails, Installed
      <3> QED
        BY <1>4, <3>1, Moved DEF ConstructionFails
    <2>2. Named'
      BY <1>4 DEF ConstructionFails, Installed
    <2> QED
      BY <1>4, <2>1, <2>2 DEF ConstructionFails, Installed, profilerVars, appVars
  <1>5. CASE UndoNext(c)
    <2>1. call' \in [Callers -> CallType]
      BY <1>5, Narrowed DEF UndoNext
    <2>2. Named'
      BY <1>5 DEF UndoNext
    <2> QED
      BY <1>5, <2>1, <2>2 DEF UndoNext, profilerVars, appVars
  <1>6. CASE GiveUp(c)
    <2>1. call' \in [Callers -> CallType]
      BY <1>6 DEF GiveUp
    <2>2. Named'
      BY <1>6 DEF GiveUp
    <2>3. status' \in [Profilers -> {"new", "building", "open", "failed"}]
      BY <1>6 DEF GiveUp
    <2> QED
      BY <1>6, <2>1, <2>2, <2>3 DEF GiveUp, appVars
  <1>7. CASE AddMiddleware(c)
    <2>1. call' \in [Callers -> CallType]
      BY <1>7 DEF AddMiddleware
    <2>2. Named'
      BY <1>7 DEF AddMiddleware
    <2> QED
      BY <1>7, <2>1, <2>2 DEF AddMiddleware, profilerVars
  <1>8. CASE Record(c)
    BY <1>8 DEF Record
  <1>9. CASE Mount(c)
    <2>1. call' \in [Callers -> CallType]
      BY <1>9, MovedOn DEF Mount
    <2>2. Named'
      BY <1>9 DEF Mount
    <2> QED
      BY <1>9, <2>1, <2>2 DEF Mount, profilerVars, appVars
  <1>10. CASE MountFails(c)
    <2>1. call' \in [Callers -> CallType]
      <3>1. Installed(c) \in SUBSET Adapters
        BY <1>10 DEF MountFails, Installed
      <3> QED
        BY <1>10, <3>1, Moved DEF MountFails
    <2>2. Named'
      BY <1>10 DEF MountFails, Installed
    <2> QED
      BY <1>10, <2>1, <2>2 DEF MountFails, Installed, profilerVars, appVars
  <1> HIDE DEF TypeInv, OwnTypes, Named, CallType, Places
  <1> QED
    BY <1>1, <1>2, <1>3, <1>4, <1>5, <1>6, <1>7, <1>8, <1>9, <1>10 DEF Construct

\* The methods of a profiler keep the types.
LEMMA UseTypes ==
    ASSUME TypeInv, NEW c \in Callers, Use(c)
    PROVE  OwnTypes' /\ Named'
  <1> USE DEF TypeInv, OwnTypes, Named, CallType, Places
  <1>1. ASSUME NEW p \in Profilers, Enable(c, p) \/ Disable(c, p) \/ Close(c, p)
        PROVE  OwnTypes' /\ Named'
    <2>1. CASE Enable(c, p)
      BY <2>1 DEF Enable, profilerVars, appVars
    <2>2. CASE Disable(c, p)
      BY <2>2 DEF Disable, appVars
    <2>3. CASE Close(c, p)
      BY <2>3 DEF Close, appVars
    <2> QED
      BY <1>1, <2>1, <2>2, <2>3
  <1>2. ASSUME NEW p \in Profilers, NEW e \in Engines,
               Instrument(c, p, e) \/ Uninstrument(c, p, e)
        PROVE  OwnTypes' /\ Named'
    <2>1. CASE Instrument(c, p, e)
      BY <2>1 DEF Instrument, profilerVars, appVars
    <2>2. CASE Uninstrument(c, p, e)
      BY <2>2 DEF Uninstrument, profilerVars, appVars
    <2> QED
      BY <1>2, <2>1, <2>2
  <1>3. CASE SetEnabled(c)
    BY <1>3 DEF SetEnabled, appVars
  <1>4. CASE Register(c)
    <2>1. call' \in [Callers -> CallType]
      <3>1. call' = [call EXCEPT ![c].at = "remembering"]
        BY <1>4 DEF Register
      <3>2. "remembering" \in Places
        OBVIOUS
      <3>3. call \in [Callers -> CallType]
        OBVIOUS
      <3> HIDE DEF TypeInv, OwnTypes, Named, CallType, Places
      <3> QED
        BY <3>1, <3>2, <3>3, MovedOn
    <2>2. registered' \in [Targets -> SUBSET Profilers]
      BY <1>4 DEF Register
    <2>3. Named'
      BY <1>4 DEF Register
    <2>4. UNCHANGED <<profilerVars, appVars>>
      BY <1>4 DEF Register
    <2>5. OwnTypes'
      BY <2>1, <2>2, <2>4 DEF profilerVars, appVars
    <2> QED
      BY <2>3, <2>5
  <1>5. CASE Remember(c)
    BY <1>5 DEF Remember, appVars
  <1>6. CASE Forget(c)
    BY <1>6 DEF Forget, appVars
  <1>7. CASE NoEngines(c) \/ ClearEngines(c)
    <2>1. call' \in [Callers -> CallType]
      <3>1. call' = [call EXCEPT ![c].at = "remove", ![c].todo = Adapters]
        BY <1>7 DEF NoEngines, ClearEngines
      <3>2. "remove" \in Places /\ Adapters \in SUBSET Adapters
        OBVIOUS
      <3> QED
        BY <3>1, <3>2, Moved
    <2>2. Named'
      BY SMTT(30), <1>7 DEF NoEngines, ClearEngines
    <2>3. remembered' \in [Profilers -> SUBSET Engines]
      BY <1>7 DEF NoEngines, ClearEngines, profilerVars
    <2> QED
      BY <1>7, <2>1, <2>2, <2>3 DEF NoEngines, ClearEngines, profilerVars, appVars
  <1>8. CASE ReleaseEngines(c)
    <2>1. call' \in [Callers -> CallType]
      <3>1. call' = [call EXCEPT ![c].at = "clearing"]
        BY <1>8 DEF ReleaseEngines
      <3>2. "clearing" \in Places
        OBVIOUS
      <3>3. call \in [Callers -> CallType]
        OBVIOUS
      <3> HIDE DEF TypeInv, OwnTypes, Named, CallType, Places
      <3> QED
        BY <3>1, <3>2, <3>3, MovedOn
    <2>2. registered' \in [Targets -> SUBSET Profilers]
      BY <1>8 DEF ReleaseEngines
    <2>3. Named'
      BY <1>8 DEF ReleaseEngines
    <2>4. UNCHANGED <<profilerVars, appVars>>
      BY <1>8 DEF ReleaseEngines
    <2>5. OwnTypes'
      BY <2>1, <2>2, <2>4 DEF profilerVars, appVars
    <2> QED
      BY <2>3, <2>5
  <1>9. CASE RemoveNext(c)
    <2>1. call' \in [Callers -> CallType]
      <3>1. PICK ad \in call[c].todo : call' = [call EXCEPT ![c].todo = @ \ {ad}]
        BY <1>9 DEF RemoveNext
      <3>2. call \in [Callers -> CallType]
        OBVIOUS
      <3> HIDE DEF TypeInv, OwnTypes, Named, CallType, Places
      <3> QED
        BY <3>1, <3>2, Narrowed
    <2>2. Named'
      BY <1>9 DEF RemoveNext
    <2> QED
      BY <1>9, <2>1, <2>2 DEF RemoveNext, profilerVars, appVars
  <1>10. CASE Shut(c)
    BY <1>10 DEF Shut, appVars
  <1> HIDE DEF TypeInv, OwnTypes, Named, CallType, Places
  <1> QED
    BY <1>1, <1>2, <1>3, <1>4, <1>5, <1>6, <1>7, <1>8, <1>9, <1>10 DEF Use

\* TypeInv is inductive.
LEMMA TypeStep ==
    ASSUME TypeInv, [Next]_vars
    PROVE  TypeInv'
  <1>1. AdaptersType' /\ OwnedReach'
    BY AdaptersStep DEF TypeInv
  <1>2. OwnTypes' /\ Named'
    <2>1. CASE UNCHANGED vars
      BY <2>1 DEF TypeInv, OwnTypes, Named, vars, profilerVars, appVars
    <2>2. CASE Next
      <3> PICK c \in Callers :
            \/ Construct(c) \/ Use(c) \/ Patch(c) \/ \E a \in Apps : Start(c, a)
        BY <2>2 DEF Next
      <3>1. CASE Patch(c)
        BY <3>1 DEF Patch, TypeInv, OwnTypes, Named, profilerVars, appVars
      <3>2. CASE \E a \in Apps : Start(c, a)
        BY <3>2 DEF Start, TypeInv, OwnTypes, Named, profilerVars
      <3> QED
        BY <3>1, <3>2, ConstructTypes, UseTypes
    <2> QED
      BY <2>1, <2>2
  <1> QED
    BY <1>1, <1>2 DEF TypeInv

\* TypeInv holds initially.
LEMMA TypeInit == Init => TypeInv
  <1> SUFFICES ASSUME Init PROVE TypeInv
    OBVIOUS
  <1>1. AdaptersType /\ OwnedReach
    BY DEF Init, AdaptersInit, AdaptersType, OwnedReach
  <1>2. OwnTypes
    BY DEF Init, OwnTypes, CallType, Places
  <1>3. Named
    BY DEF Init, Named
  <1> QED
    BY <1>1, <1>2, <1>3 DEF TypeInv

(***************************************************************************)
(* Type correctness: every variable keeps its type.                        *)
(***************************************************************************)
THEOREM ProfilerTypes == Spec => []TypeOK
  <1>1. TypeInv => TypeOK
    BY DEF TypeInv, OwnTypes, TypeOK
  <1> QED
    BY <1>1, TypeInit, TypeStep, PTL DEF Spec
-----------------------------------------------------------------------------
(* An open profiler stays instrumented. *)

Building(c) == call[c].at \in {"install", "mount", "undo", "record"}

\* Whoever constructs a profiler is alone with it; everybody else uses one that
\* was constructed.
Alone ==
    /\ \A c \in Callers : Building(c) => status[call[c].p] = "building"
    /\ \A c, d \in Callers : Building(c) /\ Building(d) /\ call[c].p = call[d].p => c = d
    /\ \A c \in Callers : ~Building(c) /\ call[c].at # "idle"
                            => status[call[c].p] = "open"
    /\ \A c \in Callers : call[c].at \in {"mount", "record"} => call[c].todo = {}

\* A constructor owns the adapters it has installed.
HeldWhileBuilt ==
    \A c \in Callers : call[c].at \in {"install", "mount", "record"} =>
        \A ad \in captured[call[c].p] \ call[c].todo : call[c].p \in owners[ad]

\* An open profiler owns the adapters it asked for.
HeldWhileOpen ==
    \A p \in Profilers : status[p] = "open" /\ p \notin closed /\ ~Closing(p) =>
        \A ad \in captured[p] : p \in owners[ad]

HeldInv == TypeInv /\ Alone /\ HeldWhileBuilt /\ HeldWhileOpen

\* What an adapter in place means for its owners.
LEMMA HeldImplies == HeldInv => InstrumentedWhileOpen
  <1> SUFFICES ASSUME HeldInv PROVE InstrumentedWhileOpen
    OBVIOUS
  <1>1. \A p \in Profilers : captured[p] \subseteq Adapters
    BY DEF HeldInv, TypeInv, OwnTypes
  <1>2. OwnedReach /\ HeldWhileOpen
    BY DEF HeldInv, TypeInv
  <1> QED
    BY <1>1, <1>2 DEF InstrumentedWhileOpen, HeldWhileOpen, OwnedReach

\* HeldInv holds initially.
LEMMA HeldInit == Init => HeldInv
  BY TypeInit DEF Init, HeldInv, Alone, Building, HeldWhileBuilt, HeldWhileOpen

\* The steps of a constructor.
LEMMA ConstructAlone ==
    ASSUME TypeInv, Alone, NEW c \in Callers, Construct(c)
    PROVE  Alone'
  <1> USE DEF TypeInv, OwnTypes, Named, Alone, Building
  <1>1. ASSUME NEW p \in Profilers, NEW a \in Apps, Refuse(c, p, a)
        PROVE  Alone'
    BY <1>1 DEF Refuse
  <1>2. ASSUME NEW p \in Profilers, NEW a \in Apps, NEW capture \in SUBSET Captures,
               NEW on \in BOOLEAN, Attach(c, p, a, capture, on)
        PROVE  Alone'
    BY <1>2 DEF Attach
  <1>3. CASE InstallNext(c) \/ UndoNext(c)
    <2>1. status' = status
      BY <1>3 DEF InstallNext, UndoNext, profilerVars
    <2>2. \A d \in Callers : call'[d].at = call[d].at /\ call'[d].p = call[d].p
      BY <1>3 DEF InstallNext, UndoNext, CallType
    <2>3. \A d \in Callers : call[d].at \in {"mount", "record"}
                              => call'[d].todo = call[d].todo
      BY <1>3 DEF InstallNext, UndoNext
    <2> QED
      BY <2>1, <2>2, <2>3
  <1>4. CASE ConstructionFails(c)
    BY <1>4 DEF ConstructionFails, profilerVars
  <1>5. CASE GiveUp(c)
    BY <1>5 DEF GiveUp
  <1>6. CASE AddMiddleware(c)
    BY <1>6 DEF AddMiddleware, profilerVars
  <1>7. CASE Record(c)
    BY <1>7 DEF Record
  <1>8. CASE Mount(c)
    BY <1>8 DEF Mount, profilerVars
  <1>9. CASE MountFails(c)
    BY <1>9 DEF MountFails, profilerVars
  <1> HIDE DEF TypeInv, OwnTypes, Named, Alone, Building
  <1> QED
    BY <1>1, <1>2, <1>3, <1>4, <1>5, <1>6, <1>7, <1>8, <1>9 DEF Construct

\* Callers stay apart when one of them goes on with an open profiler, or returns.
LEMMA AloneMoves ==
    ASSUME Alone, NEW c \in Callers, status' = status,
           \A d \in Callers \ {c} : call'[d] = call[d],
           \/ call'[c].at = "idle"
           \/ ~Building(c)' /\ status[call'[c].p] = "open"
    PROVE  Alone'
  BY DEF Alone, Building

\* The methods of a profiler.
LEMMA UseAlone ==
    ASSUME TypeInv, Alone, NEW c \in Callers, Use(c)
    PROVE  Alone'
  <1>0. Alone /\ call \in [Callers -> CallType] /\ call[c] \in CallType
    BY DEF TypeInv, OwnTypes
  <1>1. status' = status
    BY DEF Use, Enable, Disable, Close, Instrument, Uninstrument, SetEnabled,
           Register, Remember, Forget, NoEngines, ReleaseEngines, ClearEngines,
           RemoveNext, Shut, profilerVars
  <1>2. \A d \in Callers \ {c} : call'[d] = call[d]
    BY <1>0 DEF Use, Enable, Disable, Close, Instrument, Uninstrument, SetEnabled,
           Register, Remember, Forget, NoEngines, ReleaseEngines, ClearEngines,
           RemoveNext, Shut
  <1>3. \/ call'[c].at = "idle"
        \/ ~Building(c)' /\ status[call'[c].p] = "open"
    <2>1. ASSUME NEW p \in Profilers, Enable(c, p) \/ Disable(c, p) \/ Close(c, p)
          PROVE  <1>3!:
      BY <2>1, <1>0 DEF Enable, Disable, Close, EnsureOpen, Building
    <2>2. ASSUME NEW p \in Profilers, NEW e \in Engines,
                 Instrument(c, p, e) \/ Uninstrument(c, p, e)
          PROVE  <1>3!:
      BY <2>2, <1>0 DEF Instrument, Uninstrument, EnsureOpen, Building
    <2>3. CASE SetEnabled(c) \/ Remember(c) \/ Forget(c) \/ Shut(c)
      BY <2>3, <1>0 DEF SetEnabled, Remember, Forget, Shut
    <2>4. ~Building(c) /\ call[c].at # "idle" => status[call[c].p] = "open"
      BY <1>0 DEF Alone
    <2>5. CASE Register(c) \/ ReleaseEngines(c)
      BY <2>5, <2>4, <1>0 DEF Register, ReleaseEngines, Building, CallType
    <2>6. CASE NoEngines(c) \/ ClearEngines(c)
      BY <2>6, <2>4, <1>0 DEF NoEngines, ClearEngines, Building, CallType
    <2>7. CASE RemoveNext(c)
      BY <2>7, <2>4, <1>0 DEF RemoveNext, Building, CallType
    <2> QED
      BY <2>1, <2>2, <2>3, <2>5, <2>6, <2>7 DEF Use
  <1> QED
    BY <1>0, <1>1, <1>2, <1>3, AloneMoves
\* What the steps of a constructor do to those who are building.
LEMMA ConstructHeld ==
    ASSUME HeldInv, NEW c \in Callers, Construct(c)
    PROVE  HeldWhileBuilt' /\ HeldWhileOpen'
  <1>0. /\ AdaptersType /\ OwnedReach /\ Alone /\ HeldWhileBuilt /\ HeldWhileOpen
        /\ call \in [Callers -> CallType] /\ Named
        /\ status \in [Profilers -> {"new", "building", "open", "failed"}]
        /\ captured \in [Profilers -> SUBSET Adapters]
    BY DEF HeldInv, TypeInv, OwnTypes
  <1>1. ASSUME NEW p \in Profilers, NEW a \in Apps, Refuse(c, p, a)
        PROVE  HeldWhileBuilt' /\ HeldWhileOpen'
    <2>1. UNCHANGED <<owners, captured, closed, call>>
      BY <1>1 DEF Refuse, adapterVars
    <2>2. \A q \in Profilers : status'[q] = "open" => status[q] = "open"
      BY <1>1, <1>0 DEF Refuse
    <2> QED
      BY <2>1, <2>2, <1>0 DEF HeldWhileBuilt, HeldWhileOpen, Closing
  <1>2. ASSUME NEW p \in Profilers, NEW a \in Apps, NEW capture \in SUBSET Captures,
               NEW on \in BOOLEAN, Attach(c, p, a, capture, on)
        PROVE  HeldWhileBuilt' /\ HeldWhileOpen'
    <2>1. owners' = owners /\ closed' = closed /\ status[p] = "new"
      BY <1>2 DEF Attach, adapterVars
    <2>2. \A d \in Callers \ {c} : call'[d] = call[d]
      BY <1>2, <1>0 DEF Attach
    <2>3. /\ call'[c].at = "install" /\ call'[c].p = p
          /\ call'[c].todo = {"handler"} \cup capture
      BY <1>2, <1>0 DEF Attach
    <2>4. captured'[p] = {"handler"} \cup capture
      BY <1>2, <1>0 DEF Attach
    <2>5. \A q \in Profilers \ {p} : captured'[q] = captured[q] /\ status'[q] = status[q]
      BY <1>2, <1>0 DEF Attach
    <2>6. status'[p] = "building"
      BY <1>2, <1>0 DEF Attach
    <2>7. HeldWhileBuilt'
      <3> SUFFICES ASSUME NEW d \in Callers, call'[d].at \in {"install", "mount", "record"}
                   PROVE  \A ad \in captured'[call'[d].p] \ call'[d].todo :
                              call'[d].p \in owners'[ad]
        BY DEF HeldWhileBuilt
      <3>1. CASE d = c
        BY <3>1, <2>3, <2>4
      <3>2. CASE d # c
        <4>1. call[d].p \in Profilers /\ status[call[d].p] = "building"
          BY <3>2, <2>2, <1>0 DEF Alone, Building, Named
        <4> QED
          BY <3>2, <4>1, <2>1, <2>2, <2>5, <1>0 DEF HeldWhileBuilt
      <3> QED
        BY <3>1, <3>2
    <2>8. \A q \in Profilers : Closing(q) => Closing(q)'
      BY <1>2, <2>2 DEF Attach, Closing
    <2> QED
      BY <2>1, <2>5, <2>6, <2>7, <2>8, <1>0 DEF HeldWhileOpen
  <1>3. CASE InstallNext(c)
    <2>1. call[c].p \in Profilers /\ call[c].todo \in SUBSET Adapters
      BY <1>3, <1>0 DEF InstallNext, Named, CallType
    <2>2. PICK ad \in call[c].todo :
            /\ Install(ad, call[c].p)
            /\ call' = [call EXCEPT ![c].todo = @ \ {ad}]
      BY <1>3 DEF InstallNext
    <2>3. (\A bd \in Adapters : owners[bd] \subseteq owners'[bd]) /\ call[c].p \in owners'[ad]
      BY <2>1, <2>2, <1>0, InstallKeeps
    <2>4. UNCHANGED <<status, captured, closed>>
      BY <1>3 DEF InstallNext, profilerVars
    <2>5. \A d \in Callers : /\ call'[d].at = call[d].at
                             /\ call'[d].p = call[d].p
                             /\ call[d].todo \ {ad} \subseteq call'[d].todo
                             /\ d # c => call'[d] = call[d]
      BY <2>2, <1>0 DEF CallType
    <2>6. HeldWhileBuilt'
      <3> SUFFICES ASSUME NEW d \in Callers, call'[d].at \in {"install", "mount", "record"},
                          NEW bd \in captured'[call'[d].p] \ call'[d].todo
                   PROVE  call'[d].p \in owners'[bd]
        BY DEF HeldWhileBuilt
      <3>1. call[d].p \in Profilers /\ bd \in Adapters
        BY <2>4, <2>5, <1>0 DEF Named
      <3>2. CASE bd \in call[d].todo
        BY <3>2, <2>3, <2>5
      <3>3. CASE bd \notin call[d].todo
        BY <3>1, <3>3, <2>3, <2>4, <2>5, <1>0 DEF HeldWhileBuilt
      <3> QED
        BY <3>2, <3>3
    <2>7. HeldWhileOpen'
      BY <2>3, <2>4, <2>5, <1>0 DEF HeldWhileOpen, Closing
    <2> QED
      BY <2>6, <2>7
  <1>4. CASE ConstructionFails(c)
    <2>1. UNCHANGED <<owners, status, captured, closed>>
      BY <1>4 DEF ConstructionFails, profilerVars, adapterVars
    <2>2. /\ \A d \in Callers \ {c} : call'[d] = call[d]
          /\ call[c].at = "install" /\ call'[c].at = "undo"
      BY <1>4, <1>0 DEF ConstructionFails, CallType
    <2> QED
      BY <2>1, <2>2, <1>0 DEF HeldWhileBuilt, HeldWhileOpen, Closing
  <1>5. CASE UndoNext(c)
    <2>1. call[c].p \in Profilers /\ call[c].todo \in SUBSET Adapters
      BY <1>5, <1>0 DEF UndoNext, Named, CallType
    <2>2. PICK ad \in call[c].todo :
            /\ Remove(ad, call[c].p)
            /\ call' = [call EXCEPT ![c].todo = @ \ {ad}]
      BY <1>5 DEF UndoNext
    <2>3. \A bd \in Adapters : \A q \in Profilers \ {call[c].p} :
             q \in owners[bd] => q \in owners'[bd]
      BY <2>1, <2>2, <1>0, RemoveKeeps
    <2>4. UNCHANGED <<status, captured, closed>>
      BY <1>5 DEF UndoNext, profilerVars
    <2>5. /\ \A d \in Callers \ {c} : call'[d] = call[d]
          /\ call[c].at = "undo" /\ call'[c].at = "undo"
      BY <1>5, <2>2, <1>0 DEF UndoNext, CallType
    <2>6. HeldWhileBuilt'
      <3> SUFFICES ASSUME NEW d \in Callers, call'[d].at \in {"install", "mount", "record"},
                          NEW bd \in captured'[call'[d].p] \ call'[d].todo
                   PROVE  call'[d].p \in owners'[bd]
        BY DEF HeldWhileBuilt
      <3>1. d # c /\ call'[d] = call[d]
        BY <2>5
      <3>2. call[d].p \in Profilers /\ bd \in Adapters /\ call[d].p # call[c].p
        BY <3>1, <2>4, <2>5, <1>0 DEF Named, Alone, Building
      <3> QED
        BY <3>1, <3>2, <2>3, <2>4, <1>0 DEF HeldWhileBuilt
    <2>7. HeldWhileOpen'
      <3>1. status[call[c].p] = "building"
        BY <2>5, <1>0 DEF Alone, Building
      <3>2. \A q \in Profilers : Closing(q) => Closing(q)'
        BY <2>5 DEF Closing
      <3> QED
        BY <3>1, <3>2, <2>3, <2>4, <1>0 DEF HeldWhileOpen
    <2> QED
      BY <2>6, <2>7
  <1>6. CASE GiveUp(c)
    <2>1. UNCHANGED <<owners, captured, closed>>
      BY <1>6 DEF GiveUp, adapterVars
    <2>2. /\ \A d \in Callers \ {c} : call'[d] = call[d]
          /\ call[c].at = "undo" /\ call'[c].at = "idle"
      BY <1>6, <1>0 DEF GiveUp
    <2>3. \A q \in Profilers : status'[q] = "open" => status[q] = "open"
      BY <1>6, <1>0 DEF GiveUp
    <2> QED
      BY <2>1, <2>2, <2>3, <1>0 DEF HeldWhileBuilt, HeldWhileOpen, Closing
  <1>7. CASE AddMiddleware(c)
    <2>1. UNCHANGED <<owners, status, captured, closed>>
      BY <1>7 DEF AddMiddleware, adapterVars, profilerVars
    <2>2. /\ \A d \in Callers \ {c} : call'[d] = call[d]
          /\ call[c].at = "install" /\ call'[c].at = "mount"
          /\ call'[c].p = call[c].p /\ call'[c].todo = call[c].todo
      BY <1>7, <1>0 DEF AddMiddleware, CallType
    <2> QED
      BY <2>1, <2>2, <1>0 DEF HeldWhileBuilt, HeldWhileOpen, Closing
  <1>8. CASE Record(c)
    <2>1. UNCHANGED <<owners, captured, closed>>
      BY <1>8 DEF Record, adapterVars
    <2>2. /\ \A d \in Callers \ {c} : call'[d] = call[d]
          /\ call[c].at = "record" /\ call'[c].at = "idle"
      BY <1>8, <1>0 DEF Record
    <2>3. call[c].p \in Profilers /\ call[c].todo = {}
      BY <2>2, <1>0 DEF Named, Alone
    <2>4. \A ad \in captured[call[c].p] : call[c].p \in owners[ad]
      BY <2>2, <2>3, <1>0 DEF HeldWhileBuilt
    <2>5. \A q \in Profilers \ {call[c].p} : status'[q] = status[q]
      BY <1>8, <1>0 DEF Record
    <2> QED
      BY <2>1, <2>2, <2>4, <2>5, <1>0 DEF HeldWhileBuilt, HeldWhileOpen, Closing
  <1>9. CASE Mount(c)
    <2>1. UNCHANGED <<owners, status, captured, closed>>
      BY <1>9 DEF Mount, adapterVars, profilerVars
    <2>2. /\ \A d \in Callers \ {c} : call'[d] = call[d]
          /\ call[c].at = "mount" /\ call'[c].at = "record"
          /\ call'[c].p = call[c].p /\ call'[c].todo = call[c].todo
      BY <1>9, <1>0 DEF Mount, CallType
    <2> QED
      BY <2>1, <2>2, <1>0 DEF HeldWhileBuilt, HeldWhileOpen, Closing
  <1>10. CASE MountFails(c)
    <2>1. UNCHANGED <<owners, status, captured, closed>>
      BY <1>10 DEF MountFails, profilerVars, adapterVars
    <2>2. /\ \A d \in Callers \ {c} : call'[d] = call[d]
          /\ call[c].at = "mount" /\ call'[c].at = "undo"
      BY <1>10, <1>0 DEF MountFails, CallType
    <2> QED
      BY <2>1, <2>2, <1>0 DEF HeldWhileBuilt, HeldWhileOpen, Closing
  <1> QED
    BY <1>1, <1>2, <1>3, <1>4, <1>5, <1>6, <1>7, <1>8, <1>9, <1>10 DEF Construct
\* Nobody loses an adapter in a step that neither changes owners nor what was
\* constructed, and ends no close() without closing.
LEMMA HeldRests ==
    ASSUME HeldInv, NEW c \in Callers, ~Building(c), ~Building(c)',
           UNCHANGED <<owners, status, captured>>,
           closed \subseteq closed',
           \A d \in Callers \ {c} : call'[d] = call[d],
           \A q \in Profilers : Closing(q) /\ q \notin closed' => Closing(q)'
    PROVE  HeldWhileBuilt' /\ HeldWhileOpen'
  <1>1. HeldWhileBuilt /\ HeldWhileOpen
    BY DEF HeldInv
  <1>2. HeldWhileBuilt'
    BY <1>1 DEF HeldWhileBuilt, Building
  <1>3. HeldWhileOpen'
    BY <1>1 DEF HeldWhileOpen
  <1> QED
    BY <1>2, <1>3

\* What the methods of a profiler do to the others.
LEMMA UseHeld ==
    ASSUME HeldInv, NEW c \in Callers, Use(c)
    PROVE  HeldWhileBuilt' /\ HeldWhileOpen'
  <1>0. /\ AdaptersType /\ OwnedReach /\ Alone /\ HeldWhileBuilt /\ HeldWhileOpen
        /\ call \in [Callers -> CallType] /\ Named
    BY DEF HeldInv, TypeInv, OwnTypes
  <1>1. \A d \in Callers \ {c} : call'[d] = call[d]
    BY <1>0 DEF Use, Enable, Disable, Close, Instrument, Uninstrument, SetEnabled,
           Register, Remember, Forget, NoEngines, ReleaseEngines, ClearEngines,
           RemoveNext, Shut
  <1>2. ASSUME NEW p \in Profilers, Enable(c, p) \/ Disable(c, p) \/ Close(c, p)
        PROVE  HeldWhileBuilt' /\ HeldWhileOpen'
    <2>1. UNCHANGED <<owners, status, captured, closed>>
      BY <1>2 DEF Enable, Disable, Close, adapterVars, profilerVars
    <2>2. ~Building(c) /\ ~Building(c)'
      BY <1>2, <1>0 DEF Enable, Disable, Close, Building
    <2>3. \A q \in Profilers : Closing(q) => Closing(q)'
      BY <1>2, <1>1 DEF Enable, Disable, Close, Closing
    <2> QED
      BY <1>1, <2>1, <2>2, <2>3, HeldRests
  <1>3. ASSUME NEW p \in Profilers, NEW e \in Engines,
               Instrument(c, p, e) \/ Uninstrument(c, p, e)
        PROVE  HeldWhileBuilt' /\ HeldWhileOpen'
    <2>1. UNCHANGED <<owners, status, captured, closed>>
      BY <1>3 DEF Instrument, Uninstrument, adapterVars, profilerVars
    <2>2. ~Building(c) /\ ~Building(c)'
      BY <1>3, <1>0 DEF Instrument, Uninstrument, Building
    <2>3. \A q \in Profilers : Closing(q) => Closing(q)'
      BY <1>3, <1>1 DEF Instrument, Uninstrument, Closing
    <2> QED
      BY <1>1, <2>1, <2>2, <2>3, HeldRests
  <1>4. CASE SetEnabled(c) \/ Remember(c) \/ Forget(c) \/ Register(c)
    <2>1. UNCHANGED <<owners, status, captured, closed>>
      BY <1>4 DEF SetEnabled, Remember, Forget, Register, adapterVars, profilerVars
    <2>2. ~Building(c) /\ ~Building(c)'
      BY <1>4, <1>0 DEF SetEnabled, Remember, Forget, Register, Building, CallType
    <2>3. \A q \in Profilers : Closing(q) => Closing(q)'
      BY <1>4, <1>1 DEF SetEnabled, Remember, Forget, Register, Closing
    <2> QED
      BY <1>1, <2>1, <2>2, <2>3, HeldRests
  <1>5. CASE NoEngines(c) \/ ReleaseEngines(c) \/ ClearEngines(c)
    <2>1. UNCHANGED <<owners, status, captured, closed>>
      BY <1>5 DEF NoEngines, ReleaseEngines, ClearEngines, adapterVars, profilerVars
    <2>2. /\ call[c].at \in {"closing", "clearing"}
          /\ call'[c].at \in {"clearing", "remove"}
          /\ call'[c].p = call[c].p
      BY <1>5, <1>0 DEF NoEngines, ReleaseEngines, ClearEngines, CallType
    <2>3. \A q \in Profilers : Closing(q) => Closing(q)'
      BY <2>2, <1>1 DEF Closing
    <2> QED
      BY <1>1, <2>1, <2>2, <2>3, HeldRests DEF Building
  <1>6. CASE RemoveNext(c)
    <2>1. call[c].p \in Profilers /\ call[c].todo \in SUBSET Adapters
      BY <1>6, <1>0 DEF RemoveNext, Named, CallType
    <2>2. PICK ad \in call[c].todo :
            /\ Remove(ad, call[c].p)
            /\ call' = [call EXCEPT ![c].todo = @ \ {ad}]
      BY <1>6 DEF RemoveNext
    <2>3. \A bd \in Adapters : \A q \in Profilers \ {call[c].p} :
             q \in owners[bd] => q \in owners'[bd]
      BY <2>1, <2>2, <1>0, RemoveKeeps
    <2>4. UNCHANGED <<status, captured, closed>>
      BY <1>6 DEF RemoveNext, profilerVars
    <2>5. /\ call[c].at = "remove" /\ call'[c].at = "remove"
          /\ call'[c].p = call[c].p
      BY <1>6, <2>2, <1>0 DEF RemoveNext, CallType
    <2>6. status[call[c].p] = "open"
      BY <2>5, <1>0 DEF Alone, Building
    <2>7. \A q \in Profilers : captured[q] \subseteq Adapters
      BY DEF HeldInv, TypeInv, OwnTypes
    <2>8. HeldWhileBuilt'
      <3> SUFFICES ASSUME NEW d \in Callers, call'[d].at \in {"install", "mount", "record"},
                          NEW bd \in captured'[call'[d].p] \ call'[d].todo
                   PROVE  call'[d].p \in owners'[bd]
        BY DEF HeldWhileBuilt
      <3>1. d # c /\ call'[d] = call[d]
        BY <2>5, <1>1
      <3>2. call[d].p \in Profilers /\ bd \in Adapters /\ call[d].p # call[c].p
        BY <3>1, <2>4, <2>6, <2>7, <1>0 DEF Named, Alone, Building
      <3> QED
        BY <3>1, <3>2, <2>3, <2>4, <1>0 DEF HeldWhileBuilt
    <2>9. HeldWhileOpen'
      <3> SUFFICES ASSUME NEW q \in Profilers, status'[q] = "open", q \notin closed',
                          ~Closing(q)', NEW bd \in captured'[q]
                   PROVE  q \in owners'[bd]
        BY DEF HeldWhileOpen
      <3>1. q # call[c].p
        BY <2>5 DEF Closing
      <3>2. ~Closing(q)
        BY <2>5, <1>1 DEF Closing
      <3> QED
        BY <3>1, <3>2, <2>3, <2>4, <2>7, <1>0 DEF HeldWhileOpen
    <2> QED
      BY <2>8, <2>9
  <1>7. CASE Shut(c)
    <2>1. UNCHANGED <<owners, status, captured>>
      BY <1>7 DEF Shut, adapterVars
    <2>2. closed' = closed \cup {call[c].p} /\ call[c].at = "remove" /\ call'[c].at = "idle"
      BY <1>7, <1>0 DEF Shut
    <2>3. \A q \in Profilers : Closing(q) /\ q \notin closed' => Closing(q)'
      BY <2>2, <1>1 DEF Closing
    <2> QED
      BY <1>1, <2>1, <2>2, <2>3, HeldRests DEF Building
  <1> QED
    BY <1>2, <1>3, <1>4, <1>5, <1>6, <1>7 DEF Use

\* HeldInv is inductive, unless restore_all() takes the adapters away.
LEMMA HeldStep ==
    ASSUME ~RestoresAll, HeldInv, [Next]_vars
    PROVE  HeldInv'
  <1>1. TypeInv'
    BY TypeStep DEF HeldInv
  <1>2. Alone' /\ HeldWhileBuilt' /\ HeldWhileOpen'
    <2>1. CASE UNCHANGED <<owners, status, captured, closed, call>>
      BY <2>1 DEF HeldInv, Alone, Building, HeldWhileBuilt, HeldWhileOpen, Closing
    <2>2. CASE UNCHANGED vars
      BY <2>1, <2>2 DEF vars, adapterVars, profilerVars
    <2>3. CASE Next
      <3> PICK c \in Callers :
            \/ Construct(c) \/ Use(c) \/ Patch(c) \/ \E a \in Apps : Start(c, a)
        BY <2>3 DEF Next
      <3>1. CASE Patch(c) \/ \E a \in Apps : Start(c, a)
        BY <3>1, <2>1 DEF Patch, Start, Overlay, Withdraw, adapterVars, profilerVars
      <3> QED
        BY <3>1, ConstructAlone, ConstructHeld, UseAlone, UseHeld DEF HeldInv
    <2> QED
      BY <2>2, <2>3
  <1> QED
    BY <1>1, <1>2 DEF HeldInv

(***************************************************************************)
(* Multiple Latensight instances do not disable one another, in any number *)
(* of threads and under the patches of other libraries.                    *)
(***************************************************************************)
THEOREM StaysInstrumented ==
    ASSUME ~RestoresAll
    PROVE  Spec => []InstrumentedWhileOpen
  <1>1. HeldInv /\ [Next]_vars => HeldInv'
    BY HeldStep
  <1> QED
    BY <1>1, HeldInit, HeldImplies, PTL DEF Spec

\* What a step may do to foreign patches.
Kept == \A s \in Slots : patch[s] = "foreign" /\ patch'[s] # "foreign"
                             => patch'[s] = saved[s]

(***************************************************************************)
(* The adapters never replace the patch of another library.                *)
(***************************************************************************)
THEOREM PatchesKept == Spec => ForeignKept
  <1>1. ASSUME TypeInv, [Next]_vars
        PROVE  Kept
    <2>1. CASE UNCHANGED adapterVars
      BY <2>1 DEF adapterVars, Kept
    <2>2. ASSUME NEW ad, NEW p, Install(ad, p)
          PROVE  Kept
      <3>1. CASE owners[ad] = {}
        BY <3>1, <2>2 DEF Install, CanInstall, Kept
      <3>2. CASE owners[ad] # {}
        BY <3>2, <2>2 DEF Install, Kept
      <3> QED
        BY <3>1, <3>2
    <2>3. ASSUME NEW ad, NEW left, LeaveOwners(ad, left)
          PROVE  Kept
      BY <2>3 DEF LeaveOwners, RestoredFor, Kept
    <2>4. CASE UNCHANGED vars
      BY <2>4, <2>1 DEF vars
    <2>5. CASE Next
      <3> PICK c \in Callers :
            \/ Construct(c) \/ Use(c) \/ Patch(c) \/ \E a \in Apps : Start(c, a)
        BY <2>5 DEF Next
      <3>1. CASE InstallNext(c)
        BY <3>1, <2>2 DEF InstallNext
      <3>2. CASE UndoNext(c) \/ RemoveNext(c)
        BY <3>2, <2>3 DEF UndoNext, RemoveNext, Remove
      <3>3. CASE Construct(c)
        <4>1. UNCHANGED adapterVars \/ InstallNext(c) \/ UndoNext(c)
          BY <3>3 DEF Construct, Refuse, Attach, ConstructionFails, GiveUp,
                      AddMiddleware, Mount, MountFails, Record
        <4> QED
          BY <4>1, <2>1, <3>1, <3>2
      <3>4. CASE Use(c)
        <4>1. UNCHANGED adapterVars \/ RemoveNext(c)
          BY <3>4 DEF Use, Enable, Disable, Close, Instrument, Uninstrument,
                      SetEnabled, Register, Remember, Forget, NoEngines,
                      ReleaseEngines, ClearEngines, Shut
        <4> QED
          BY <4>1, <2>1, <3>2
      <3>5. CASE Patch(c)
        <4>1. CASE \E s \in Overlaid : Overlay(s) \/ Withdraw(s)
          <5>1. PICK x \in Overlaid : Overlay(x) \/ Withdraw(x)
            BY <4>1
          <5>2. patch \in [Slots -> {"original", "wrapper", "foreign"}]
            BY <1>1 DEF TypeInv, AdaptersType
          <5>3. CASE Overlay(x)
            BY <5>2, <5>3 DEF Overlay, Kept
          <5>4. CASE Withdraw(x)
            BY <5>2, <5>4 DEF Withdraw, Kept
          <5> QED
            BY <5>1, <5>3, <5>4
        <4>2. CASE \E ad \in Adapters : RestoreAll(ad)
          BY <4>2, <2>3 DEF RestoreAll
        <4> QED
          BY <3>5, <4>1, <4>2 DEF Patch
      <3>6. CASE \E a \in Apps : Start(c, a)
        BY <3>6, <2>1 DEF Start
      <3> QED
        BY <3>3, <3>4, <3>5, <3>6
    <2> QED
      BY <1>1, <2>4, <2>5
  <1>2. TypeInv /\ [Next]_vars => TypeInv'
    BY TypeStep
  <1>3. TypeInv /\ [Next]_vars => Kept
    BY <1>1
  <1> QED
    BY <1>2, <1>3, TypeInit, PTL DEF Spec, ForeignKept, Kept
-----------------------------------------------------------------------------
(* A function is restored when the last owner of its adapter leaves. *)

\* A function that nobody else patches holds the wrapper just while its adapter
\* has an owner.
InPlace ==
    \A ad \in Adapters : \A s \in SlotsOf(ad) \ Overlaid :
        patch[s] = IF owners[ad] = {} THEN "original" ELSE "wrapper"

\* An adapter that is installed keeps every function in place.
LEMMA InstallInPlace ==
    ASSUME AdaptersType, InPlace, NEW ad \in Adapters, NEW p \in Profilers,
           Install(ad, p)
    PROVE  InPlace'
  <1> SUFFICES ASSUME NEW bd \in Adapters, NEW s \in SlotsOf(bd) \ Overlaid
               PROVE  patch'[s] = IF owners'[bd] = {} THEN "original" ELSE "wrapper"
    BY DEF InPlace
  <1>1. s \in Slots
    BY SlotsKnown
  <1>2. patch[s] = IF owners[bd] = {} THEN "original" ELSE "wrapper"
    BY DEF InPlace
  <1>3. CASE bd = ad
    <2>1. owners'[ad] = owners[ad] \cup {p}
      BY DEF Install, AdaptersType
    <2>2. patch'[s] = IF owners[ad] = {} THEN "wrapper" ELSE patch[s]
      BY <1>1, <1>3 DEF Install
    <2> QED
      BY <1>2, <1>3, <2>1, <2>2
  <1>4. CASE bd # ad
    <2>1. owners'[bd] = owners[bd]
      BY <1>4 DEF Install, AdaptersType
    <2>2. patch'[s] = patch[s]
      BY <1>1, <1>4, SlotsDiffer DEF Install
    <2> QED
      BY <1>2, <2>1, <2>2
  <1> QED
    BY <1>3, <1>4

\* So does an adapter that loses owners.
LEMMA LeaveInPlace ==
    ASSUME AdaptersType, InPlace, NEW ad \in Adapters, NEW left,
           left \subseteq owners[ad], LeaveOwners(ad, left)
    PROVE  InPlace'
  <1> SUFFICES ASSUME NEW bd \in Adapters, NEW s \in SlotsOf(bd) \ Overlaid
               PROVE  patch'[s] = IF owners'[bd] = {} THEN "original" ELSE "wrapper"
    BY DEF InPlace
  <1>1. s \in Slots
    BY SlotsKnown
  <1>2. patch[s] = IF owners[bd] = {} THEN "original" ELSE "wrapper"
    BY DEF InPlace
  <1>3. patch'[s] = IF s \in RestoredFor(ad, left) THEN "original" ELSE patch[s]
    BY <1>1 DEF LeaveOwners
  <1>4. CASE bd = ad
    <2>1. owners'[ad] = left
      BY DEF LeaveOwners, AdaptersType
    <2> QED
      BY <1>2, <1>3, <1>4, <2>1 DEF RestoredFor
  <1>5. CASE bd # ad
    <2>1. owners'[bd] = owners[bd]
      BY <1>5 DEF LeaveOwners, AdaptersType
    <2>2. s \notin RestoredFor(ad, left)
      BY <1>5, SlotsDiffer DEF RestoredFor
    <2> QED
      BY <1>2, <1>3, <2>1, <2>2
  <1> QED
    BY <1>4, <1>5

\* The ways in which a step changes the adapters: one is installed for whoever
\* is being built, loses the profiler that is undone or removed, or loses all
\* its owners; or another library patches a function.
LEMMA AdapterChanges ==
    ASSUME TypeInv, [Next]_vars
    PROVE  \/ UNCHANGED adapterVars
           \/ \E c \in Callers, ad \in Adapters :
                /\ call[c].at = "install" /\ Install(ad, call[c].p)
                /\ call[c].p \in Profilers
           \/ \E c \in Callers, ad \in Adapters :
                /\ call[c].at \in {"undo", "remove"} /\ Remove(ad, call[c].p)
                /\ call[c].p \in Profilers
           \/ \E ad \in Adapters : RestoreAll(ad)
           \/ \E s \in Overlaid : Overlay(s) \/ Withdraw(s)
  <1>1. CASE UNCHANGED vars
    BY <1>1 DEF vars
  <1>2. CASE Next
    <2> PICK c \in Callers :
          \/ Construct(c) \/ Use(c) \/ Patch(c) \/ \E a \in Apps : Start(c, a)
      BY <1>2 DEF Next
    <2>1. call[c].todo \in SUBSET Adapters
      BY DEF TypeInv, OwnTypes, CallType
    <2>2. call[c].at # "idle" => call[c].p \in Profilers
      BY DEF TypeInv, Named
    <2>3. CASE InstallNext(c)
      BY <2>1, <2>2, <2>3 DEF InstallNext
    <2>4. CASE UndoNext(c) \/ RemoveNext(c)
      BY <2>1, <2>2, <2>4 DEF UndoNext, RemoveNext
    <2>5. CASE Patch(c)
      BY <2>5 DEF Patch
    <2>6. CASE Construct(c)
      <3>1. UNCHANGED adapterVars \/ InstallNext(c) \/ UndoNext(c)
        BY <2>6 DEF Construct, Refuse, Attach, ConstructionFails, GiveUp,
                    AddMiddleware, Mount, MountFails, Record
      <3> QED
        BY <3>1, <2>3, <2>4
    <2>7. CASE Use(c)
      <3>1. UNCHANGED adapterVars \/ RemoveNext(c)
        BY <2>7 DEF Use, Enable, Disable, Close, Instrument, Uninstrument,
                    SetEnabled, Register, Remember, Forget, NoEngines,
                    ReleaseEngines, ClearEngines, Shut
      <3> QED
        BY <3>1, <2>4
    <2>8. CASE \E a \in Apps : Start(c, a)
      BY <2>8 DEF Start
    <2> QED
      BY <2>5, <2>6, <2>7, <2>8
  <1> QED
    BY <1>1, <1>2

\* InPlace is inductive.
LEMMA InPlaceStep ==
    ASSUME TypeInv, InPlace, [Next]_vars
    PROVE  InPlace'
  <1>0. AdaptersType
    BY DEF TypeInv
  <1>1. CASE UNCHANGED adapterVars
    BY <1>1 DEF adapterVars, InPlace
  <1>2. ASSUME NEW ad \in Adapters, NEW p \in Profilers, Install(ad, p)
        PROVE  InPlace'
    BY <1>0, <1>2, InstallInPlace
  <1>3. ASSUME NEW ad \in Adapters, NEW p, Remove(ad, p)
        PROVE  InPlace'
    BY <1>0, <1>3, LeaveInPlace DEF Remove
  <1>4. ASSUME NEW ad \in Adapters, RestoreAll(ad)
        PROVE  InPlace'
    BY <1>0, <1>4, LeaveInPlace DEF RestoreAll
  <1>5. ASSUME NEW x \in Overlaid, Overlay(x) \/ Withdraw(x)
        PROVE  InPlace'
    <2>1. owners' = owners /\ \A s \in Slots \ Overlaid : patch'[s] = patch[s]
      BY <1>0, <1>5 DEF Overlay, Withdraw, AdaptersType
    <2> QED
      BY <2>1, SlotsKnown DEF InPlace
  <1> QED
    BY <1>1, <1>2, <1>3, <1>4, <1>5, AdapterChanges

(***************************************************************************)
(* remove() and restore_all() of the adapters: however profilers come, go  *)
(* and fail, a function that no other library patches is the original      *)
(* again once its adapter has no owner.                                    *)
(***************************************************************************)
THEOREM RestoredAtLast == Spec => []RestoredWithoutOwners
  <1>1. Init => InPlace
    BY SlotsKnown DEF Init, AdaptersInit, InPlace
  <1>2. InPlace => RestoredWithoutOwners
    BY DEF InPlace, RestoredWithoutOwners
  <1>3. TypeInv /\ InPlace /\ [Next]_vars => InPlace'
    BY InPlaceStep
  <1> QED
    BY <1>1, <1>2, <1>3, TypeInit, TypeStep, PTL DEF Spec
-----------------------------------------------------------------------------
(* A constructor that raises takes back what it installed. *)

\* Nothing in the process or on an application belongs to p.
HoldsNothing(p) == /\ \A ad \in Adapters : p \notin owners[ad]
                   /\ \A a \in Apps : p \notin middleware[a]

\* What the rollback of p's constructor leaves.
Undone(p) == /\ \A ad \in Adapters : p \notin owners[ad]
             /\ \A a \in Apps : p \in middleware[a] => p \in unmountable

\* Nothing belongs to a profiler that is not constructed, and only the rollback's
\* rest to one that failed to be.
Bare == \A p \in Profilers : /\ status[p] = "new" => HoldsNothing(p)
                             /\ status[p] = "failed" => Undone(p)

\* Whatever a constructor installed, its undoing removes.
Partial ==
    \A c \in Callers :
        /\ call[c].at = "install" =>
              /\ call[c].todo \subseteq captured[call[c].p]
              /\ \A a \in Apps : call[c].p \notin middleware[a]
        /\ call[c].at \in {"install", "mount"} => \A ad \in Adapters :
              call[c].p \in owners[ad] => ad \in captured[call[c].p] \ call[c].todo
        /\ call[c].at = "undo" =>
              /\ \A ad \in Adapters : call[c].p \in owners[ad] => ad \in call[c].todo
              /\ \A a \in Apps :
                    call[c].p \in middleware[a] => call[c].p \in unmountable

\* An application has a profiler that was constructed, or none.
GivenOpen == \A a \in Apps : attached[a] # None =>
                 attached[a] \in Profilers /\ status[attached[a]] = "open"

BareInv == TypeInv /\ Alone /\ Bare /\ Partial /\ GivenOpen

\* Steps that construct nothing and give nobody an adapter.
LEMMA BareRests ==
    ASSUME Bare, Partial, UNCHANGED <<status, captured, middleware, unmountable>>,
           \A ad \in Adapters : owners'[ad] \subseteq owners[ad],
           \A d \in Callers : call'[d].at \in {"install", "mount", "undo"}
                                 => call'[d] = call[d]
    PROVE  Bare' /\ Partial'
  <1>1. Bare'
    BY DEF Bare, HoldsNothing, Undone
  <1>2. Partial'
    BY DEF Partial
  <1> QED
    BY <1>1, <1>2

\* The owners that an adapter loses, or those it had, remain.
LEMMA OwnersShrink ==
    ASSUME AdaptersType, NEW ad \in Adapters, NEW p, Remove(ad, p) \/ RestoreAll(ad)
    PROVE  \A bd \in Adapters : owners'[bd] \subseteq owners[bd]
  BY DEF Remove, RestoreAll, LeaveOwners, AdaptersType

\* The steps of a constructor.
LEMMA ConstructBare ==
    ASSUME BareInv, NEW c \in Callers, Construct(c)
    PROVE  Bare' /\ Partial'
  <1>0. /\ AdaptersType /\ Alone /\ Bare /\ Partial /\ Named
        /\ call \in [Callers -> CallType]
        /\ status \in [Profilers -> {"new", "building", "open", "failed"}]
        /\ captured \in [Profilers -> SUBSET Adapters]
        /\ middleware \in [Apps -> SUBSET Profilers]
    BY DEF BareInv, TypeInv, OwnTypes
  <1>1. ASSUME NEW p \in Profilers, NEW a \in Apps, Refuse(c, p, a)
        PROVE  Bare' /\ Partial'
    <2>1. UNCHANGED <<owners, captured, middleware, unmountable, call>>
      BY <1>1 DEF Refuse, adapterVars, appVars
    <2>0. status[p] = "new" /\ status' = [status EXCEPT ![p] = "failed"]
      BY <1>1 DEF Refuse
    <2>2. \A q \in Profilers : \/ status'[q] = status[q]
                               \/ status[q] = "new" /\ status'[q] = "failed"
      BY <2>0, <1>0
    <2>3. Bare'
      BY <2>1, <2>2, <1>0 DEF Bare, HoldsNothing, Undone
    <2>4. Partial'
      BY <2>1, <1>0 DEF Partial
    <2> QED
      BY <2>3, <2>4
  <1>2. ASSUME NEW p \in Profilers, NEW a \in Apps, NEW capture \in SUBSET Captures,
               NEW on \in BOOLEAN, Attach(c, p, a, capture, on)
        PROVE  Bare' /\ Partial'
    <2>1. UNCHANGED <<owners, middleware, unmountable>> /\ status[p] = "new"
      BY <1>2 DEF Attach, adapterVars, appVars
    <2>2. \A d \in Callers \ {c} : call'[d] = call[d]
      BY <1>2, <1>0 DEF Attach
    <2>3. /\ call'[c].at = "install" /\ call'[c].p = p
          /\ call'[c].todo = captured'[p]
      BY <1>2, <1>0 DEF Attach
    <2>4. \A q \in Profilers \ {p} : captured'[q] = captured[q] /\ status'[q] = status[q]
      BY <1>2, <1>0 DEF Attach
    <2>5. status'[p] = "building"
      BY <1>2, <1>0 DEF Attach
    <2>6. HoldsNothing(p)
      BY <2>1, <1>0 DEF Bare
    <2>7. Bare'
      BY <2>1, <2>4, <2>5, <1>0 DEF Bare, HoldsNothing, Undone
    <2>8. Partial'
      <3> SUFFICES ASSUME NEW d \in Callers
                   PROVE  /\ call'[d].at = "install" =>
                                /\ call'[d].todo \subseteq captured'[call'[d].p]
                                /\ \A b \in Apps : call'[d].p \notin middleware'[b]
                          /\ call'[d].at \in {"install", "mount"} =>
                                \A ad \in Adapters : call'[d].p \in owners'[ad]
                                   => ad \in captured'[call'[d].p] \ call'[d].todo
                          /\ call'[d].at = "undo" =>
                                /\ \A ad \in Adapters :
                                     call'[d].p \in owners'[ad] => ad \in call'[d].todo
                                /\ \A b \in Apps : call'[d].p \in middleware'[b]
                                     => call'[d].p \in unmountable'
        BY DEF Partial
      <3>1. CASE d = c
        BY <3>1, <2>1, <2>3, <2>6 DEF HoldsNothing
      <3>2. CASE d # c
        <4>1. call[d].at \in {"install", "mount", "undo"}
                 => call[d].p \in Profilers \ {p}
          BY <2>1, <1>0 DEF Alone, Building, Named
        <4> QED
          BY <3>2, <4>1, <2>1, <2>2, <2>4, <1>0 DEF Partial
      <3> QED
        BY <3>1, <3>2
    <2> QED
      BY <2>7, <2>8
  <1>3. CASE InstallNext(c)
    <2>1. /\ call[c].p \in Profilers /\ call[c].todo \in SUBSET Adapters
          /\ status[call[c].p] = "building"
      BY <1>3, <1>0 DEF InstallNext, Named, CallType, Alone, Building
    <2>2. PICK ad \in call[c].todo :
            /\ Install(ad, call[c].p)
            /\ call' = [call EXCEPT ![c].todo = @ \ {ad}]
      BY <1>3 DEF InstallNext
    <2>3. UNCHANGED <<status, captured, middleware, unmountable>>
      BY <1>3 DEF InstallNext, profilerVars, appVars
    <2>4. /\ \A bd \in Adapters \ {ad} : owners'[bd] = owners[bd]
          /\ owners'[ad] = owners[ad] \cup {call[c].p}
      BY <2>1, <2>2, <1>0 DEF Install, AdaptersType
    <2>5. /\ \A d \in Callers \ {c} : call'[d] = call[d]
          /\ call[c].at = "install" /\ call'[c].at = "install"
          /\ call'[c].p = call[c].p /\ call'[c].todo = call[c].todo \ {ad}
      BY <1>3, <2>2, <1>0 DEF InstallNext, CallType
    <2>6. Bare'
      BY <2>1, <2>3, <2>4, <1>0 DEF Bare, HoldsNothing, Undone
    <2>7. ad \in captured[call[c].p]
      BY <2>2, <2>5, <1>0 DEF Partial
    <2>8. Partial'
      BY <2>1, <2>3, <2>4, <2>5, <2>7, <1>0 DEF Partial, Alone, Building
    <2> QED
      BY <2>6, <2>8
  <1>4. CASE ConstructionFails(c)
    <2>1. UNCHANGED <<owners, status, captured, middleware, unmountable>>
      BY <1>4 DEF ConstructionFails, adapterVars, profilerVars, appVars
    <2>2. /\ \A d \in Callers \ {c} : call'[d] = call[d]
          /\ call[c].at = "install" /\ call'[c].at = "undo"
          /\ call'[c].p = call[c].p
          /\ call'[c].todo = captured[call[c].p] \ call[c].todo
      BY <1>4, <1>0 DEF ConstructionFails, Installed, CallType
    <2>3. Bare'
      BY <2>1, <1>0 DEF Bare, HoldsNothing, Undone
    <2>4. Partial'
      BY <2>1, <2>2, <1>0 DEF Partial
    <2> QED
      BY <2>3, <2>4
  <1>5. CASE UndoNext(c)
    <2>1. /\ call[c].p \in Profilers /\ call[c].todo \in SUBSET Adapters
          /\ status[call[c].p] = "building"
      BY <1>5, <1>0 DEF UndoNext, Named, CallType, Alone, Building
    <2>2. PICK ad \in call[c].todo :
            /\ Remove(ad, call[c].p)
            /\ call' = [call EXCEPT ![c].todo = @ \ {ad}]
      BY <1>5 DEF UndoNext
    <2>3. UNCHANGED <<status, captured, middleware, unmountable>>
      BY <1>5 DEF UndoNext, profilerVars, appVars
    <2>4. /\ \A bd \in Adapters : owners'[bd] \subseteq owners[bd]
          /\ call[c].p \notin owners'[ad]
      BY <2>1, <2>2, <1>0 DEF Remove, LeaveOwners, AdaptersType
    <2>5. /\ \A d \in Callers \ {c} : call'[d] = call[d]
          /\ call[c].at = "undo" /\ call'[c].at = "undo"
          /\ call'[c].p = call[c].p /\ call'[c].todo = call[c].todo \ {ad}
      BY <1>5, <2>2, <1>0 DEF UndoNext, CallType
    <2>6. Bare'
      BY <2>3, <2>4, <1>0 DEF Bare, HoldsNothing, Undone
    <2>7. Partial'
      BY <2>1, <2>3, <2>4, <2>5, <1>0 DEF Partial
    <2> QED
      BY <2>6, <2>7
  <1>6. CASE GiveUp(c)
    <2>1. UNCHANGED <<owners, captured, middleware, unmountable>>
      BY <1>6 DEF GiveUp, adapterVars, appVars
    <2>2. /\ \A d \in Callers \ {c} : call'[d] = call[d]
          /\ call[c].at = "undo" /\ call[c].todo = {} /\ call'[c].at = "idle"
      BY <1>6, <1>0 DEF GiveUp
    <2>3. Undone(call[c].p)
      BY <2>2, <1>0 DEF Partial, Undone
    <2>4. \A q \in Profilers : \/ status'[q] = status[q]
                               \/ q = call[c].p /\ status'[q] = "failed"
      BY <1>6, <1>0 DEF GiveUp
    <2>5. Bare'
      BY <2>1, <2>3, <2>4, <1>0 DEF Bare, HoldsNothing, Undone
    <2>6. Partial'
      BY <2>1, <2>2, <1>0 DEF Partial
    <2> QED
      BY <2>5, <2>6
  <1>7. CASE AddMiddleware(c)
    <2>1. UNCHANGED <<owners, status, captured, unmountable>>
      BY <1>7 DEF AddMiddleware, adapterVars, profilerVars
    <2>2. /\ \A d \in Callers \ {c} : call'[d] = call[d]
          /\ call[c].at = "install" /\ call'[c].at = "mount"
          /\ call'[c].p = call[c].p /\ call'[c].todo = call[c].todo
      BY <1>7, <1>0 DEF AddMiddleware, CallType
    <2>3. status[call[c].p] = "building"
      BY <2>2, <1>0 DEF Alone, Building
    <2>4. \A a \in Apps : middleware'[a] \subseteq middleware[a] \cup {call[c].p}
      BY <1>7, <1>0 DEF AddMiddleware
    <2>5. Bare'
      <3> SUFFICES ASSUME NEW q \in Profilers
                   PROVE  /\ status[q] = "new" => HoldsNothing(q)'
                          /\ status[q] = "failed" => Undone(q)'
        BY <2>1 DEF Bare
      <3>1. CASE q = call[c].p
        BY <3>1, <2>3
      <3>2. CASE q # call[c].p
        <4>1. \A a \in Apps : q \in middleware'[a] => q \in middleware[a]
          BY <3>2, <2>4
        <4> QED
          BY <4>1, <2>1, <1>0 DEF Bare, HoldsNothing, Undone
      <3> QED
        BY <3>1, <3>2
    <2>6. Partial'
      BY <2>1, <2>2, <2>4, <1>0 DEF Partial, Alone, Building
    <2> QED
      BY <2>5, <2>6
  <1>8. CASE Record(c)
    <2>1. UNCHANGED <<owners, captured, middleware, unmountable>>
      BY <1>8 DEF Record, adapterVars
    <2>2. /\ \A d \in Callers \ {c} : call'[d] = call[d]
          /\ call[c].at = "record" /\ call'[c].at = "idle"
      BY <1>8, <1>0 DEF Record
    <2>3. \A q \in Profilers : status'[q] \in {"new", "failed"} => status[q] = status'[q]
      BY <1>8, <1>0 DEF Record
    <2> QED
      BY <2>1, <2>2, <2>3, <1>0 DEF Bare, HoldsNothing, Undone, Partial
  <1>9. CASE Mount(c)
    <2>1. UNCHANGED <<owners, status, captured, middleware, unmountable>>
      BY <1>9 DEF Mount, adapterVars, profilerVars, appVars
    <2>2. \A d \in Callers : /\ d # c => call'[d] = call[d]
                             /\ d = c => call'[d].at = "record"
      BY <1>9, <1>0 DEF Mount, CallType
    <2>3. Bare'
      BY <2>1, <1>0 DEF Bare, HoldsNothing, Undone
    <2>4. Partial'
      BY <2>1, <2>2, <1>0 DEF Partial
    <2> QED
      BY <2>3, <2>4
  <1>10. CASE MountFails(c)
    <2>1. UNCHANGED <<owners, status, captured, middleware, unmountable>>
      BY <1>10 DEF MountFails, adapterVars, profilerVars, appVars
    <2>2. /\ \A d \in Callers \ {c} : call'[d] = call[d]
          /\ call[c].at = "mount" /\ call'[c].at = "undo"
          /\ call'[c].p = call[c].p /\ call[c].p \in unmountable
          /\ call'[c].todo = captured[call[c].p] \ call[c].todo
      BY <1>10, <1>0 DEF MountFails, Installed, CallType
    <2>3. Bare'
      BY <2>1, <1>0 DEF Bare, HoldsNothing, Undone
    <2>4. Partial'
      BY <2>1, <2>2, <1>0 DEF Partial
    <2> QED
      BY <2>3, <2>4
  <1> QED
    BY <1>1, <1>2, <1>3, <1>4, <1>5, <1>6, <1>7, <1>8, <1>9, <1>10 DEF Construct

\* The methods of a profiler.
LEMMA UseBare ==
    ASSUME BareInv, NEW c \in Callers, Use(c)
    PROVE  Bare' /\ Partial'
  <1>0. /\ AdaptersType /\ Bare /\ Partial /\ Named
        /\ call \in [Callers -> CallType]
    BY DEF BareInv, TypeInv, OwnTypes
  <1>1. UNCHANGED <<status, captured, middleware, unmountable>>
    BY DEF Use, Enable, Disable, Close, Instrument, Uninstrument, SetEnabled,
           Register, Remember, Forget, NoEngines, ReleaseEngines, ClearEngines,
           RemoveNext, Shut, profilerVars, appVars
  <1>2. \A d \in Callers : call'[d].at \in {"install", "mount", "undo"} => call'[d] = call[d]
    <2>1. \A d \in Callers \ {c} : call'[d] = call[d]
      BY <1>0 DEF Use, Enable, Disable, Close, Instrument, Uninstrument, SetEnabled,
             Register, Remember, Forget, NoEngines, ReleaseEngines, ClearEngines,
             RemoveNext, Shut
    <2>2. call'[c].at \notin {"install", "mount", "undo"}
      <3>1. CASE RemoveNext(c)
        BY <3>1, <1>0 DEF RemoveNext, CallType
      <3>2. CASE Register(c) \/ NoEngines(c) \/ ReleaseEngines(c) \/ ClearEngines(c)
        BY <3>2, <1>0 DEF Register, NoEngines, ReleaseEngines, ClearEngines, CallType
      <3>3. CASE SetEnabled(c) \/ Remember(c) \/ Forget(c) \/ Shut(c)
        BY <3>3, <1>0 DEF SetEnabled, Remember, Forget, Shut
      <3>4. ASSUME NEW p \in Profilers, Enable(c, p) \/ Disable(c, p) \/ Close(c, p)
            PROVE  <2>2!:
        BY <3>4, <1>0 DEF Enable, Disable, Close
      <3>5. ASSUME NEW p \in Profilers, NEW e \in Engines,
                   Instrument(c, p, e) \/ Uninstrument(c, p, e)
            PROVE  <2>2!:
        BY <3>5, <1>0 DEF Instrument, Uninstrument
      <3> QED
        BY <3>1, <3>2, <3>3, <3>4, <3>5 DEF Use
    <2> QED
      BY <2>1, <2>2
  <1>3. \A ad \in Adapters : owners'[ad] \subseteq owners[ad]
    <2>1. CASE RemoveNext(c)
      <3>1. call[c].todo \in SUBSET Adapters
        BY <1>0 DEF CallType
      <3> QED
        BY <2>1, <3>1, <1>0, OwnersShrink DEF RemoveNext
    <2>2. CASE UNCHANGED adapterVars
      BY <2>2 DEF adapterVars
    <2> QED
      BY <2>1, <2>2 DEF Use, Enable, Disable, Close, Instrument, Uninstrument,
         SetEnabled, Register, Remember, Forget, NoEngines, ReleaseEngines,
         ClearEngines, Shut
  <1> QED
    BY <1>0, <1>1, <1>2, <1>3, BareRests

\* What a step does to a profiler that is open, to closed and to a caller that
\* is in the last part of close() after it.
LEMMA CloseChanges ==
    ASSUME TypeInv, Alone, [Next]_vars
    PROVE  /\ \A p \in Profilers : status[p] = "open" => status'[p] = "open"
           /\ \/ closed' = closed
              \/ \E c \in Callers : /\ closed' = closed \cup {call[c].p}
                                    /\ call[c].at = "remove" /\ call[c].todo = {}
           /\ \A d \in Callers : call'[d].at = "remove" =>
                 \/ call'[d] = call[d]
                 \/ call'[d].todo = Adapters
                 \/ \E ad \in Adapters :
                      /\ call[d].at = "remove" /\ Remove(ad, call[d].p)
                      /\ call'[d].p = call[d].p /\ call'[d].todo = call[d].todo \ {ad}
  <1> USE DEF TypeInv, OwnTypes, CallType
  <1>1. CASE UNCHANGED <<status, closed, call>>
    BY <1>1
  <1>2. CASE Next
    <2> PICK c \in Callers :
          \/ Construct(c) \/ Use(c) \/ Patch(c) \/ \E a \in Apps : Start(c, a)
      BY <1>2 DEF Next
    <2>1. CASE Construct(c)
      <3>1. closed' = closed
        BY <2>1 DEF Construct, Refuse, Attach, InstallNext, ConstructionFails,
           UndoNext, GiveUp, AddMiddleware, Mount, MountFails, Record, profilerVars
      <3>2. Building(c) => status[call[c].p] = "building"
        BY DEF Alone
      <3>3. \A p \in Profilers : status[p] = "open" => status'[p] = "open"
        BY <2>1, <3>2 DEF Construct, Refuse, Attach, InstallNext, ConstructionFails,
           UndoNext, GiveUp, AddMiddleware, Mount, MountFails, Record, profilerVars, Building
      <3>4. \A d \in Callers : call'[d].at = "remove" => call'[d] = call[d]
        <4>1. CASE InstallNext(c) \/ UndoNext(c)
          BY <4>1 DEF InstallNext, UndoNext
        <4>2. CASE ConstructionFails(c) \/ AddMiddleware(c)
          BY <4>2 DEF ConstructionFails, AddMiddleware
        <4>6. CASE Mount(c) \/ MountFails(c)
          BY <4>6 DEF Mount, MountFails
        <4>3. CASE GiveUp(c) \/ Record(c)
          BY <4>3 DEF GiveUp, Record
        <4>4. ASSUME NEW p \in Profilers, NEW a \in Apps, Refuse(c, p, a)
              PROVE  <3>4!:
          BY <4>4 DEF Refuse
        <4>5. ASSUME NEW p \in Profilers, NEW a \in Apps, NEW capture \in SUBSET Captures,
                     NEW on \in BOOLEAN, Attach(c, p, a, capture, on)
              PROVE  <3>4!:
          BY <4>5 DEF Attach
        <4> QED
          BY <2>1, <4>1, <4>2, <4>3, <4>4, <4>5, <4>6 DEF Construct
      <3> QED
        BY <3>1, <3>3, <3>4
    <2>2. CASE Use(c)
      <3>1. status' = status
        BY <2>2 DEF Use, Enable, Disable, Close, Instrument, Uninstrument, SetEnabled,
           Register, Remember, Forget, NoEngines, ReleaseEngines, ClearEngines,
           RemoveNext, Shut, profilerVars
      <3>2. CASE RemoveNext(c)
        <4>1. closed' = closed /\ call[c].at = "remove" /\ call[c].todo \in SUBSET Adapters
          BY <3>2 DEF RemoveNext, profilerVars
        <4>2. PICK ad \in call[c].todo :
                /\ Remove(ad, call[c].p)
                /\ call' = [call EXCEPT ![c].todo = @ \ {ad}]
          BY <3>2 DEF RemoveNext
        <4>3. /\ \A d \in Callers \ {c} : call'[d] = call[d]
              /\ call'[c].p = call[c].p /\ call'[c].todo = call[c].todo \ {ad}
          BY <4>2
        <4> QED
          BY <3>1, <4>1, <4>2, <4>3
      <3>3. CASE NoEngines(c) \/ ClearEngines(c)
        BY <3>1, <3>3 DEF NoEngines, ClearEngines, profilerVars
      <3>4. CASE Shut(c)
        BY <3>1, <3>4 DEF Shut
      <3>5. CASE SetEnabled(c) \/ Register(c) \/ Remember(c) \/ Forget(c) \/ ReleaseEngines(c)
        BY <3>1, <3>5 DEF SetEnabled, Register, Remember, Forget, ReleaseEngines, profilerVars
      <3> DEFINE Rests == /\ closed' = closed
                          /\ \A d \in Callers : call'[d].at = "remove" => call'[d] = call[d]
      <3>6. ASSUME NEW p \in Profilers, Enable(c, p) \/ Disable(c, p) \/ Close(c, p)
            PROVE  Rests
        BY ZenonT(40), <3>6 DEF Enable, Disable, Close, profilerVars
      <3>7. ASSUME NEW p \in Profilers, NEW e \in Engines,
                   Instrument(c, p, e) \/ Uninstrument(c, p, e)
            PROVE  Rests
        <4>1. CASE Instrument(c, p, e)
          BY <4>1 DEF Instrument, profilerVars
        <4>2. CASE Uninstrument(c, p, e)
          BY <4>2 DEF Uninstrument, profilerVars
        <4> QED
          BY <3>7, <4>1, <4>2
      <3> QED
        BY <2>2, <3>1, <3>2, <3>3, <3>4, <3>5, <3>6, <3>7 DEF Use
    <2>3. CASE Patch(c) \/ \E a \in Apps : Start(c, a)
      BY <2>3 DEF Patch, Start, profilerVars
    <2> QED
      BY <2>1, <2>2, <2>3
  <1> QED
    BY <1>1, <1>2 DEF vars, profilerVars

\* Only the last step of a constructor gives an application its profiler.
LEMMA GivenStep ==
    ASSUME TypeInv, Alone, GivenOpen, [Next]_vars
    PROVE  GivenOpen'
  <1>0. /\ \A p \in Profilers : status[p] = "open" => status'[p] = "open"
        /\ \A c \in Callers : call[c].at = "record" => call[c].p \in Profilers
        /\ status \in [Profilers -> {"new", "building", "open", "failed"}]
        /\ attached \in [Apps -> Profilers \cup {None}]
    BY CloseChanges DEF TypeInv, Named, OwnTypes
  <1>1. CASE attached' = attached
    BY <1>0, <1>1 DEF GivenOpen
  <1>2. ASSUME NEW c \in Callers, Record(c)
        PROVE  GivenOpen'
    <2>1. /\ call[c].p \in Profilers /\ status'[call[c].p] = "open"
          /\ \A a \in Apps : attached'[a] \in {attached[a], call[c].p}
      BY <1>0, <1>2 DEF Record
    <2> QED
      BY <1>0, <2>1 DEF GivenOpen
  <1>3. CASE UNCHANGED vars
    BY <1>1, <1>3 DEF vars, appVars
  <1>4. CASE Next
    <2> PICK c \in Callers :
          \/ Construct(c) \/ Use(c) \/ Patch(c) \/ \E a \in Apps : Start(c, a)
      BY <1>4 DEF Next
    <2>1. CASE Construct(c)
      BY <1>1, <1>2, <2>1 DEF Construct, Refuse, Attach, InstallNext,
         ConstructionFails, UndoNext, GiveUp, AddMiddleware, Mount, MountFails, appVars
    <2>2. CASE Use(c)
      BY <1>1, <2>2 DEF Use, Enable, Disable, Close, Instrument, Uninstrument,
         SetEnabled, Register, Remember, Forget, NoEngines, ReleaseEngines,
         ClearEngines, RemoveNext, Shut, appVars
    <2>3. CASE Patch(c) \/ \E a \in Apps : Start(c, a)
      BY <1>1, <2>3 DEF Patch, Start, appVars
    <2> QED
      BY <2>1, <2>2, <2>3
  <1> QED
    BY <1>3, <1>4

\* BareInv is inductive.
LEMMA BareStep ==
    ASSUME BareInv, [Next]_vars
    PROVE  BareInv'
  <1>0. TypeInv /\ Alone /\ Bare /\ Partial /\ GivenOpen /\ AdaptersType
    BY DEF BareInv, TypeInv
  <1>1. TypeInv' /\ GivenOpen'
    BY <1>0, TypeStep, GivenStep
  <1>2. CASE UNCHANGED <<status, captured, middleware, unmountable, call>>
             /\ (\A ad \in Adapters : owners'[ad] \subseteq owners[ad])
    <2>1. Alone'
      BY <1>0, <1>2 DEF Alone, Building
    <2>2. Bare' /\ Partial'
      BY <1>0, <1>2, BareRests
    <2> QED
      BY <1>1, <2>1, <2>2 DEF BareInv
  <1>3. CASE UNCHANGED vars
    BY <1>2, <1>3 DEF vars, adapterVars, profilerVars, appVars
  <1>4. CASE Next
    <2> PICK c \in Callers :
          \/ Construct(c) \/ Use(c) \/ Patch(c) \/ \E a \in Apps : Start(c, a)
      BY <1>4 DEF Next
    <2>1. CASE Construct(c)
      BY <1>0, <1>1, <2>1, ConstructAlone, ConstructBare DEF BareInv
    <2>2. CASE Use(c)
      BY <1>0, <1>1, <2>2, UseAlone, UseBare DEF BareInv
    <2>3. CASE Patch(c)
      <3>1. UNCHANGED <<status, captured, middleware, unmountable, call>>
        BY <2>3 DEF Patch, profilerVars, appVars
      <3>2. \A ad \in Adapters : owners'[ad] \subseteq owners[ad]
        <4>1. CASE \E s \in Overlaid : Overlay(s) \/ Withdraw(s)
          BY <4>1 DEF Overlay, Withdraw
        <4>2. CASE \E ad \in Adapters : RestoreAll(ad)
          BY <4>2, <1>0, OwnersShrink
        <4> QED
          BY <2>3, <4>1, <4>2 DEF Patch
      <3> QED
        BY <3>1, <3>2, <1>2
    <2>4. CASE \E a \in Apps : Start(c, a)
      BY <2>4, <1>2 DEF Start, adapterVars, profilerVars
    <2> QED
      BY <2>1, <2>2, <2>3, <2>4
  <1> QED
    BY <1>3, <1>4

(***************************************************************************)
(* __init__() and its except clause: whether an adapter rejects, the       *)
(* application was started meanwhile or its router rejects the path of the *)
(* dashboard, a constructor that raises leaves no patch owned and is not   *)
(* the application's profiler, in any number of threads; its middleware    *)
(* stays on an application only if it was the router that raised.          *)
(***************************************************************************)
THEOREM FailureIsClean == Spec => []FailureIsUndone
  <1>1. Init => BareInv
    <2> SUFFICES ASSUME Init PROVE BareInv
      OBVIOUS
    <2>1. TypeInv
      BY TypeInit
    <2>2. Alone /\ Partial
      BY DEF Init, Alone, Building, Partial
    <2>3. Bare /\ GivenOpen
      BY DEF Init, AdaptersInit, Bare, HoldsNothing, GivenOpen
    <2> QED
      BY <2>1, <2>2, <2>3 DEF BareInv
  <1>2. BareInv => FailureIsUndone
    <2> SUFFICES ASSUME BareInv, NEW p \in Profilers, status[p] = "failed"
                 PROVE  Undone(p) /\ \A a \in Apps : attached[a] # p
      BY DEF FailureIsUndone, Undone
    <2>1. p # None
      BY ProfilerAssumption
    <2> QED
      BY <2>1 DEF BareInv, Bare, GivenOpen
  <1>3. BareInv /\ [Next]_vars => BareInv'
    BY BareStep
  <1> QED
    BY <1>1, <1>2, <1>3, PTL DEF Spec
-----------------------------------------------------------------------------
(* A closed profiler holds nothing, if one thread uses the profilers. *)

\* One thread at most calls the operations.
Serial == \A c, d \in Callers : c = d

\* No engine has p among its owners.
Unregistered(p) == \A t \in Targets : p \notin registered[t]

\* Only what was constructed is closed.
ClosedWasOpen == \A p \in closed : status[p] = "open"

\* An operation that checked whether its profiler is open still finds it open,
\* and close() has released what it went over.
Progress ==
    \A c \in Callers :
        /\ call[c].at \in {"enabling", "registering", "remembering", "closing",
                          "clearing", "remove"} => call[c].p \notin closed
        /\ call[c].at \in {"closing", "clearing", "remove"} => call[c].p \notin enabled
        /\ call[c].at \in {"clearing", "remove"} => Unregistered(call[c].p)
        /\ call[c].at = "forgetting" => call[c].p \notin registered[Target(call[c].e)]
        /\ call[c].at = "remove" => \A ad \in Adapters :
              call[c].p \in owners[ad] => ad \in call[c].todo

\* Whatever is registered is remembered, or just about to be.
Remembered ==
    \A p \in Profilers, t \in Targets : p \in registered[t] =>
        \/ \E e \in remembered[p] : Target(e) = t
        \/ \E c \in Callers : /\ call[c].at = "remembering" /\ call[c].p = p
                              /\ Target(call[c].e) = t

CloseInv == /\ TypeInv /\ Alone
            /\ ClosedWasOpen /\ ClosedIsReleased /\ Progress /\ Remembered

\* The parts of CloseInv that are about profilers that are or get closed.
Ends == ClosedWasOpen /\ ClosedIsReleased /\ Progress /\ Remembered

\* The steps of a constructor concern a profiler that is not closed.
LEMMA ConstructEnds ==
    ASSUME Serial, CloseInv, NEW c \in Callers, Construct(c)
    PROVE  Ends'
  <1>0. /\ AdaptersType /\ OwnTypes /\ Named /\ Alone /\ ClosedWasOpen
        /\ ClosedIsReleased /\ Progress /\ Remembered
        /\ \A d \in Callers : d = c
    BY DEF CloseInv, TypeInv, Serial
  <1>1. /\ registered' = registered /\ remembered' = remembered /\ closed' = closed
    BY DEF Construct, Refuse, Attach, InstallNext, ConstructionFails, UndoNext,
           GiveUp, AddMiddleware, Mount, MountFails, Record, profilerVars
  <1> DEFINE Concerns(p) ==
               /\ status[p] # "open"
               /\ enabled' \subseteq enabled \cup {p}
               /\ \A ad \in Adapters : owners'[ad] \subseteq owners[ad] \cup {p}
               /\ \A q \in Profilers \ {p} : status'[q] = status[q]
               /\ call[c].at \in {"idle", "install", "mount", "undo", "record"}
               /\ call'[c].at \in {"idle", "install", "mount", "undo", "record"}
  <1>2. \E p \in Profilers : Concerns(p)
    <2>0. Building(c) => call[c].p \in Profilers /\ status[call[c].p] = "building"
      BY <1>0 DEF Alone, Building, Named
    <2>1. ASSUME NEW p \in Profilers, NEW a \in Apps, Refuse(c, p, a)
          PROVE  Concerns(p)
      BY <2>1, <1>0 DEF Refuse, adapterVars, OwnTypes
    <2>2. ASSUME NEW p \in Profilers, NEW a \in Apps, NEW capture \in SUBSET Captures,
                 NEW on \in BOOLEAN, Attach(c, p, a, capture, on)
          PROVE  Concerns(p)
      BY <2>2, <1>0 DEF Attach, adapterVars, OwnTypes
    <2>3. CASE InstallNext(c)
      <3>1. PICK ad \in call[c].todo : Install(ad, call[c].p)
        BY <2>3 DEF InstallNext
      <3>2. \A bd \in Adapters : owners'[bd] \subseteq owners[bd] \cup {call[c].p}
        BY <3>1, <1>0 DEF Install, AdaptersType
      <3>3. call[c].at = "install" /\ call'[c].at = "install"
        BY <2>3, <1>0 DEF InstallNext, OwnTypes, CallType
      <3> QED
        BY <2>0, <2>3, <3>2, <3>3 DEF InstallNext, profilerVars, Building
    <2>4. CASE UndoNext(c)
      <3>1. PICK ad \in call[c].todo : Remove(ad, call[c].p)
        BY <2>4 DEF UndoNext
      <3>2. \A bd \in Adapters : owners'[bd] \subseteq owners[bd]
        BY <3>1, <1>0, OwnersShrink DEF OwnTypes, CallType
      <3>3. call[c].at = "undo" /\ call'[c].at = "undo"
        BY <2>4, <1>0 DEF UndoNext, OwnTypes, CallType
      <3> QED
        BY <2>0, <2>4, <3>2, <3>3 DEF UndoNext, profilerVars, Building
    <2>5. CASE ConstructionFails(c)
      <3>1. call[c].at = "install" /\ call'[c].at = "undo"
        BY <2>5, <1>0 DEF ConstructionFails, OwnTypes, CallType
      <3> QED
        BY <2>0, <2>5, <3>1 DEF ConstructionFails, profilerVars, adapterVars, Building
    <2>6. CASE AddMiddleware(c)
      <3>1. call[c].at = "install" /\ call'[c].at = "mount"
        BY <2>6, <1>0 DEF AddMiddleware, OwnTypes, CallType
      <3> QED
        BY <2>0, <2>6, <3>1 DEF AddMiddleware, profilerVars, adapterVars, Building
    <2>7. CASE GiveUp(c) \/ Record(c)
      BY <2>0, <2>7, <1>0 DEF GiveUp, Record, adapterVars, Building, OwnTypes
    <2>8. CASE Mount(c) \/ MountFails(c)
      <3>1. call[c].at = "mount" /\ call'[c].at \in {"record", "undo"}
        BY <2>8, <1>0 DEF Mount, MountFails, OwnTypes, CallType
      <3> QED
        BY <2>0, <2>8, <3>1 DEF Mount, MountFails, profilerVars, adapterVars, Building
    <2> QED
      BY <2>1, <2>2, <2>3, <2>4, <2>5, <2>6, <2>7, <2>8 DEF Construct
  <1> PICK p \in Profilers : Concerns(p)
    BY <1>2
  <1>3. p \notin closed /\ closed \subseteq Profilers
    BY <1>0, <1>2 DEF ClosedWasOpen, OwnTypes
  <1>4. ClosedWasOpen'
    BY <1>0, <1>1, <1>2, <1>3 DEF ClosedWasOpen
  <1>5. ClosedIsReleased'
    BY <1>0, <1>1, <1>2, <1>3 DEF ClosedIsReleased
  <1>6. Progress'
    BY <1>0, <1>2 DEF Progress
  <1>7. Remembered'
    BY <1>0, <1>1, <1>2 DEF Remembered
  <1> QED
    BY <1>4, <1>5, <1>6, <1>7 DEF Ends

\* The methods of a profiler.
LEMMA UseEnds ==
    ASSUME Serial, CloseInv, NEW c \in Callers, Use(c)
    PROVE  Ends'
  <1>0. /\ AdaptersType /\ OwnTypes /\ Named /\ Alone /\ ClosedWasOpen
        /\ ClosedIsReleased /\ Progress /\ Remembered
        /\ \A d \in Callers : d = c
    BY DEF CloseInv, TypeInv, Serial
  <1>a. /\ call \in [Callers -> CallType]
        /\ registered \in [Targets -> SUBSET Profilers]
        /\ remembered \in [Profilers -> SUBSET Engines]
        /\ \A e \in Engines : Target(e) \in Targets
    BY <1>0 DEF OwnTypes, Engines, Target
  <1>b. call[c].at # "idle" => call[c].p \in Profilers
    BY <1>0 DEF Named
  <1>c. call[c].at # "remembering" =>
          \A q \in Profilers, t \in Targets :
              q \in registered[t] => \E e \in remembered[q] : Target(e) = t
    BY <1>0 DEF Remembered
  <1>1. ASSUME NEW p \in Profilers, Enable(c, p)
        PROVE  Ends'
    <2>1. UNCHANGED <<owners, status, enabled, closed, remembered, registered>>
      BY <1>1 DEF Enable, adapterVars, profilerVars
    <2>2. call[c].at = "idle" /\ call'[c].at = "enabling" /\ call'[c].p = p /\ p \notin closed
      BY <1>1, <1>a DEF Enable, EnsureOpen
    <2> QED
      BY <2>1, <2>2, <1>0 DEF Ends, ClosedWasOpen, ClosedIsReleased, Progress, Remembered
  <1>2. ASSUME NEW p \in Profilers, Disable(c, p)
        PROVE  Ends'
    <2>1. UNCHANGED <<owners, status, closed, remembered, registered, call>>
          /\ enabled' \subseteq enabled
      BY <1>2 DEF Disable, adapterVars
    <2> QED
      BY <2>1, <1>0 DEF Ends, ClosedWasOpen, ClosedIsReleased, Progress, Remembered,
                        Unregistered
  <1>3. ASSUME NEW p \in Profilers, NEW e \in Engines, Instrument(c, p, e)
        PROVE  Ends'
    <2>1. UNCHANGED <<owners, status, enabled, closed, remembered, registered>>
      BY <1>3 DEF Instrument, adapterVars, profilerVars
    <2>2. /\ call[c].at = "idle" /\ call'[c].at = "registering" /\ call'[c].p = p
          /\ p \notin closed
      BY <1>3, <1>a DEF Instrument, EnsureOpen
    <2> QED
      BY <2>1, <2>2, <1>0 DEF Ends, ClosedWasOpen, ClosedIsReleased, Progress, Remembered
  <1>4. ASSUME NEW p \in Profilers, NEW e \in Engines, Uninstrument(c, p, e)
        PROVE  Ends'
    <2>1. UNCHANGED <<owners, status, enabled, closed, remembered>>
      BY <1>4 DEF Uninstrument, adapterVars, profilerVars
    <2>2. /\ call[c].at = "idle" /\ call'[c].at = "forgetting"
          /\ call'[c].p = p /\ call'[c].e = e
      BY <1>4, <1>a DEF Uninstrument
    <2>3. /\ \A t \in Targets : registered'[t] \subseteq registered[t]
          /\ p \notin registered'[Target(e)]
      BY <1>4, <1>a DEF Uninstrument
    <2> QED
      BY <2>1, <2>2, <2>3, <1>0 DEF Ends, ClosedWasOpen, ClosedIsReleased, Progress,
                                    Remembered
  <1>5. ASSUME NEW p \in Profilers, Close(c, p)
        PROVE  Ends'
    <2>1. UNCHANGED <<owners, status, closed, remembered, registered>>
          /\ enabled' = enabled \ {p}
      BY <1>5 DEF Close, adapterVars
    <2>2. call[c].at = "idle" /\ call'[c].at = "closing" /\ call'[c].p = p /\ p \notin closed
      BY <1>5, <1>a DEF Close
    <2> QED
      BY <2>1, <2>2, <1>0 DEF Ends, ClosedWasOpen, ClosedIsReleased, Progress, Remembered
  <1>6. CASE SetEnabled(c)
    <2>1. UNCHANGED <<owners, status, closed, remembered, registered>>
          /\ enabled' = enabled \cup {call[c].p}
      BY <1>6 DEF SetEnabled, adapterVars
    <2>2. call[c].at = "enabling" /\ call'[c].at = "idle"
      BY <1>6, <1>a DEF SetEnabled
    <2> QED
      BY <2>1, <2>2, <1>0 DEF Ends, ClosedWasOpen, ClosedIsReleased, Progress, Remembered
  <1>7. CASE Register(c)
    <2>1. UNCHANGED <<owners, status, enabled, closed, remembered>>
      BY <1>7 DEF Register, adapterVars, profilerVars
    <2>2. /\ call[c].at = "registering" /\ call'[c].at = "remembering"
          /\ call'[c].p = call[c].p /\ call'[c].e = call[c].e
      BY <1>7, <1>a DEF Register, CallType
    <2>3. \A t \in Targets : registered'[t] =
             IF t = Target(call[c].e) THEN registered[t] \cup {call[c].p} ELSE registered[t]
      BY <1>7, <1>a DEF Register
    <2>4. Remembered'
      <3> SUFFICES ASSUME NEW q \in Profilers, NEW t \in Targets, q \in registered'[t]
                   PROVE  \/ \E e \in remembered[q] : Target(e) = t
                          \/ call'[c].p = q /\ Target(call'[c].e) = t
        BY <2>1, <2>2 DEF Remembered
      <3> QED
        BY <2>2, <2>3, <1>c
    <2>5. call[c].p \notin closed
      BY <2>2, <1>0 DEF Progress
    <2>6. ClosedIsReleased'
      BY <2>1, <2>3, <2>5, <1>0 DEF ClosedIsReleased
    <2>7. Progress'
      BY <2>1, <2>2, <2>5, <1>0 DEF Progress
    <2> QED
      BY <2>1, <2>4, <2>6, <2>7, <1>0 DEF Ends, ClosedWasOpen
  <1>8. CASE Remember(c)
    <2>1. UNCHANGED <<owners, status, enabled, closed, registered>>
      BY <1>8 DEF Remember, adapterVars
    <2>2. call[c].at = "remembering" /\ call'[c].at = "idle"
      BY <1>8, <1>a DEF Remember
    <2>3. \A p \in Profilers : remembered'[p] =
             IF p = call[c].p THEN remembered[p] \cup {call[c].e} ELSE remembered[p]
      BY <1>8, <1>a DEF Remember
    <2>4. Remembered'
      <3> SUFFICES ASSUME NEW q \in Profilers, NEW t \in Targets, q \in registered[t]
                   PROVE  \E e \in remembered'[q] : Target(e) = t
        BY <2>1 DEF Remembered
      <3>1. CASE \E e \in remembered[q] : Target(e) = t
        BY <3>1, <2>3
      <3>2. CASE call[c].p = q /\ Target(call[c].e) = t
        BY <3>2, <2>3
      <3> QED
        BY <3>1, <3>2, <1>0 DEF Remembered
    <2> QED
      BY <2>1, <2>2, <2>4, <1>0 DEF Ends, ClosedWasOpen, ClosedIsReleased, Progress
  <1>9. CASE Forget(c)
    <2>1. UNCHANGED <<owners, status, enabled, closed, registered>>
      BY <1>9 DEF Forget, adapterVars
    <2>2. call[c].at = "forgetting" /\ call'[c].at = "idle"
      BY <1>9, <1>a DEF Forget
    <2>3. \A p \in Profilers : remembered'[p] =
             IF p = call[c].p THEN remembered[p] \ {call[c].e} ELSE remembered[p]
      BY <1>9, <1>a DEF Forget
    <2>4. Remembered'
      <3> SUFFICES ASSUME NEW q \in Profilers, NEW t \in Targets, q \in registered[t]
                   PROVE  \E e \in remembered'[q] : Target(e) = t
        BY <2>1 DEF Remembered
      <3>1. PICK e \in remembered[q] : Target(e) = t
        BY <2>2, <1>c
      <3>2. q = call[c].p => e # call[c].e
        BY <3>1, <2>2, <1>0 DEF Progress
      <3> QED
        BY <3>1, <3>2, <2>3
    <2> QED
      BY <2>1, <2>2, <2>4, <1>0 DEF Ends, ClosedWasOpen, ClosedIsReleased, Progress
  <1>10. CASE NoEngines(c)
    <2>1. UNCHANGED <<owners, status, enabled, closed, remembered, registered>>
      BY <1>10 DEF NoEngines, adapterVars, profilerVars
    <2>2. /\ call[c].at = "closing" /\ call'[c].at = "remove"
          /\ call'[c].p = call[c].p /\ call'[c].todo = Adapters
      BY <1>10, <1>a DEF NoEngines, CallType
    <2>3. Unregistered(call[c].p)
      BY <1>10, <2>2, <1>0, <1>b DEF NoEngines, Remembered, Unregistered
    <2> QED
      BY <2>1, <2>2, <2>3, <1>0 DEF Ends, ClosedWasOpen, ClosedIsReleased, Progress,
                                    Remembered, Unregistered
  <1>11. CASE ReleaseEngines(c)
    <2>1. UNCHANGED <<owners, status, enabled, closed, remembered>>
      BY <1>11 DEF ReleaseEngines, adapterVars, profilerVars
    <2>2. /\ call[c].at = "closing" /\ call'[c].at = "clearing"
          /\ call'[c].p = call[c].p
      BY <1>11, <1>a DEF ReleaseEngines, CallType
    <2>3. \A t \in Targets : registered'[t] = registered[t] \ {call[c].p}
      BY <1>11 DEF ReleaseEngines
    <2> QED
      BY <2>1, <2>2, <2>3, <1>0 DEF Ends, ClosedWasOpen, ClosedIsReleased, Progress,
                                    Remembered, Unregistered
  <1>12. CASE ClearEngines(c)
    <2>1. UNCHANGED <<owners, status, enabled, closed, registered>>
      BY <1>12 DEF ClearEngines, adapterVars
    <2>2. /\ call[c].at = "clearing" /\ call'[c].at = "remove"
          /\ call'[c].p = call[c].p /\ call'[c].todo = Adapters
      BY <1>12, <1>a DEF ClearEngines, CallType
    <2>3. \A p \in Profilers \ {call[c].p} : remembered'[p] = remembered[p]
      BY <1>12, <1>a DEF ClearEngines
    <2> QED
      BY <2>1, <2>2, <2>3, <1>0 DEF Ends, ClosedWasOpen, ClosedIsReleased, Progress,
                                    Remembered, Unregistered
  <1>13. CASE RemoveNext(c)
    <2>1. UNCHANGED <<status, enabled, closed, remembered, registered>>
      BY <1>13 DEF RemoveNext, profilerVars
    <2>2. PICK ad \in call[c].todo :
            /\ Remove(ad, call[c].p)
            /\ call' = [call EXCEPT ![c].todo = @ \ {ad}]
      BY <1>13 DEF RemoveNext
    <2>3. ad \in Adapters
      BY <2>2, <1>a DEF CallType
    <2>4. /\ \A bd \in Adapters : owners'[bd] \subseteq owners[bd]
          /\ call[c].p \notin owners'[ad]
      BY <2>2, <2>3, <1>0 DEF Remove, LeaveOwners, AdaptersType
    <2>5. /\ call[c].at = "remove" /\ call'[c].at = "remove"
          /\ call'[c].p = call[c].p /\ call'[c].todo = call[c].todo \ {ad}
      BY <1>13, <2>2, <1>a DEF RemoveNext, CallType
    <2> QED
      BY <2>1, <2>4, <2>5, <1>0 DEF Ends, ClosedWasOpen, ClosedIsReleased, Progress,
                                    Remembered, Unregistered
  <1>14. CASE Shut(c)
    <2>1. UNCHANGED <<owners, status, enabled, remembered, registered>>
          /\ closed' = closed \cup {call[c].p}
      BY <1>14 DEF Shut, adapterVars
    <2>2. call[c].at = "remove" /\ call[c].todo = {} /\ call'[c].at = "idle"
      BY <1>14, <1>a DEF Shut
    <2>3. status[call[c].p] = "open"
      BY <2>2, <1>0 DEF Alone, Building
    <2>4. /\ call[c].p \notin enabled /\ Unregistered(call[c].p)
          /\ \A ad \in Adapters : call[c].p \notin owners[ad]
      BY <2>2, <1>0 DEF Progress
    <2> QED
      BY <2>1, <2>2, <2>3, <2>4, <1>0 DEF Ends, ClosedWasOpen, ClosedIsReleased,
                                          Progress, Remembered, Unregistered
  <1> QED
    BY <1>1, <1>2, <1>3, <1>4, <1>5, <1>6, <1>7, <1>8, <1>9, <1>10, <1>11, <1>12,
       <1>13, <1>14 DEF Use

\* CloseInv is inductive.
LEMMA CloseStep ==
    ASSUME Serial, CloseInv, [Next]_vars
    PROVE  CloseInv'
  <1>0. /\ TypeInv /\ Alone /\ AdaptersType /\ ClosedWasOpen /\ ClosedIsReleased
        /\ Progress /\ Remembered
    BY DEF CloseInv, TypeInv
  <1>1. TypeInv'
    BY <1>0, TypeStep
  <1>2. CASE UNCHANGED <<status, enabled, closed, remembered, registered, call>>
             /\ (\A ad \in Adapters : owners'[ad] \subseteq owners[ad])
    <2>1. Alone'
      BY <1>0, <1>2 DEF Alone, Building
    <2>2. ClosedWasOpen' /\ ClosedIsReleased' /\ Progress' /\ Remembered'
      BY <1>0, <1>2 DEF ClosedWasOpen, ClosedIsReleased, Progress, Remembered, Unregistered
    <2> QED
      BY <1>1, <2>1, <2>2 DEF CloseInv
  <1>3. CASE UNCHANGED vars
    BY <1>2, <1>3 DEF vars, adapterVars, profilerVars, appVars
  <1>4. CASE Next
    <2> PICK c \in Callers :
          \/ Construct(c) \/ Use(c) \/ Patch(c) \/ \E a \in Apps : Start(c, a)
      BY <1>4 DEF Next
    <2>1. CASE Construct(c)
      BY <1>0, <1>1, <2>1, ConstructAlone, ConstructEnds DEF CloseInv, Ends
    <2>2. CASE Use(c)
      BY <1>0, <1>1, <2>2, UseAlone, UseEnds DEF CloseInv, Ends
    <2>3. CASE Patch(c)
      <3>1. UNCHANGED <<status, enabled, closed, remembered, registered, call>>
        BY <2>3 DEF Patch, profilerVars
      <3>2. \A ad \in Adapters : owners'[ad] \subseteq owners[ad]
        <4>1. CASE \E s \in Overlaid : Overlay(s) \/ Withdraw(s)
          BY <4>1 DEF Overlay, Withdraw
        <4>2. CASE \E ad \in Adapters : RestoreAll(ad)
          BY <4>2, <1>0, OwnersShrink
        <4> QED
          BY <2>3, <4>1, <4>2 DEF Patch
      <3> QED
        BY <3>1, <3>2, <1>2
    <2>4. CASE \E a \in Apps : Start(c, a)
      BY <2>4, <1>2 DEF Start, adapterVars, profilerVars
    <2> QED
      BY <2>1, <2>2, <2>3, <2>4
  <1> QED
    BY <1>3, <1>4

(***************************************************************************)
(* close() is terminal for a program that uses its profilers in one        *)
(* thread: a closed profiler is switched off and owns no patch and no      *)
(* listener, whatever engines it registered and released, by either of     *)
(* their names, and whatever happened since.                               *)
(***************************************************************************)
THEOREM CloseReleases ==
    ASSUME Serial
    PROVE  Spec => []ClosedIsReleased
  <1>1. Init => CloseInv
    <2> SUFFICES ASSUME Init PROVE CloseInv
      OBVIOUS
    <2>1. TypeInv
      BY TypeInit
    <2>2. Alone /\ ClosedWasOpen /\ ClosedIsReleased /\ Progress /\ Remembered
      BY DEF Init, Alone, Building, ClosedWasOpen, ClosedIsReleased, Progress, Remembered
    <2> QED
      BY <2>1, <2>2 DEF CloseInv
  <1>2. CloseInv => ClosedIsReleased
    BY DEF CloseInv
  <1>3. CloseInv /\ [Next]_vars => CloseInv'
    BY CloseStep
  <1> QED
    BY <1>1, <1>2, <1>3, PTL DEF Spec
-----------------------------------------------------------------------------
(* What close() promises in any number of threads. *)

\* A closed profiler has none of the adapters.
ClosedOwnsNothing == \A p \in closed : \A ad \in Adapters : p \notin owners[ad]

\* close() has gone over all adapters but those it still has to.
RemovesAll ==
    \A c \in Callers : call[c].at = "remove" =>
        \A ad \in Adapters : call[c].p \in owners[ad] => ad \in call[c].todo

OwnInv == TypeInv /\ Alone /\ ClosedWasOpen /\ ClosedOwnsNothing /\ RemovesAll

\* A profiler that is open gets no adapter in any step.
LEMMA OpenGainsNothing ==
    ASSUME TypeInv, Alone, [Next]_vars, NEW p, status[p] = "open", NEW bd \in Adapters,
           p \in owners'[bd]
    PROVE  p \in owners[bd]
  <1>0. AdaptersType
    BY DEF TypeInv
  <1>1. CASE UNCHANGED adapterVars
    BY <1>1 DEF adapterVars
  <1>2. ASSUME NEW c \in Callers, NEW ad \in Adapters,
               call[c].at = "install", Install(ad, call[c].p)
        PROVE  p \in owners[bd]
    <2>1. call[c].p # p
      BY <1>2 DEF Alone, Building
    <2> QED
      BY <1>0, <1>2, <2>1 DEF Install, AdaptersType
  <1>3. ASSUME NEW ad \in Adapters, NEW q, Remove(ad, q) \/ RestoreAll(ad)
        PROVE  p \in owners[bd]
    BY <1>0, <1>3, OwnersShrink
  <1>4. ASSUME NEW s \in Overlaid, Overlay(s) \/ Withdraw(s)
        PROVE  p \in owners[bd]
    BY <1>4 DEF Overlay, Withdraw
  <1> QED
    BY <1>1, <1>2, <1>3, <1>4, AdapterChanges

\* OwnInv is inductive.
LEMMA OwnStep ==
    ASSUME OwnInv, [Next]_vars
    PROVE  OwnInv'
  <1>0. /\ TypeInv /\ Alone /\ ClosedWasOpen /\ ClosedOwnsNothing /\ RemovesAll
        /\ AdaptersType /\ closed \subseteq Profilers /\ Named
    BY DEF OwnInv, TypeInv, OwnTypes
  <1>1. TypeInv'
    BY <1>0, TypeStep
  <1>2. Alone'
    <2>1. CASE UNCHANGED <<status, call>>
      BY <2>1, <1>0 DEF Alone, Building
    <2>2. CASE Next
      <3> PICK c \in Callers :
            \/ Construct(c) \/ Use(c) \/ Patch(c) \/ \E a \in Apps : Start(c, a)
        BY <2>2 DEF Next
      <3> QED
        BY <1>0, <2>1, ConstructAlone, UseAlone DEF Patch, Start, profilerVars
    <2> QED
      BY <2>1, <2>2 DEF vars, profilerVars
  <1>3. \A c \in Callers : call[c].at = "remove" =>
           status[call[c].p] = "open" /\ call[c].p \in Profilers
    BY <1>0 DEF Alone, Building, Named
  <1>4. ClosedWasOpen'
    BY <1>0, <1>3, CloseChanges DEF ClosedWasOpen
  <1>5. ClosedOwnsNothing'
    <2> SUFFICES ASSUME NEW p \in closed', NEW bd \in Adapters, p \in owners'[bd]
                 PROVE  FALSE
      BY DEF ClosedOwnsNothing
    <2>1. CASE p \in closed
      BY <2>1, <1>0, OpenGainsNothing DEF ClosedWasOpen, ClosedOwnsNothing
    <2>2. CASE \E c \in Callers : /\ p = call[c].p /\ call[c].at = "remove"
                                 /\ call[c].todo = {}
      BY <2>2, <1>0, <1>3, OpenGainsNothing DEF RemovesAll
    <2> QED
      BY <1>0, <2>1, <2>2, CloseChanges
  <1>6. RemovesAll'
    <2> SUFFICES ASSUME NEW d \in Callers, call'[d].at = "remove",
                        NEW bd \in Adapters, call'[d].p \in owners'[bd]
                 PROVE  bd \in call'[d].todo
      BY DEF RemovesAll
    <2>1. CASE call'[d] = call[d]
      BY <2>1, <1>0, <1>3, OpenGainsNothing DEF RemovesAll
    <2>2. ASSUME NEW ad \in Adapters, call[d].at = "remove", Remove(ad, call[d].p),
                 call'[d].p = call[d].p, call'[d].todo = call[d].todo \ {ad}
          PROVE  bd \in call'[d].todo
      <3>1. call[d].p \notin owners'[ad]
        BY <2>2, <1>0 DEF Remove, LeaveOwners, AdaptersType
      <3>2. call[d].p \in owners[bd]
        BY <2>2, <1>0, <1>3, OpenGainsNothing
      <3> QED
        BY <2>2, <3>1, <3>2, <1>0 DEF RemovesAll
    <2> QED
      BY <2>1, <2>2, <1>0, CloseChanges
  <1> QED
    BY <1>1, <1>2, <1>4, <1>5, <1>6 DEF OwnInv

(***************************************************************************)
(* close() while other threads use the same profiler, or close it too:     *)
(* once it is closed it has none of the adapters, ever after.  (Engines    *)
(* and the switch may be left behind then: that needs CloseReleases.)      *)
(***************************************************************************)
THEOREM CloseUninstalls == Spec => []ClosedOwnsNothing
  <1>1. Init => OwnInv
    <2> SUFFICES ASSUME Init PROVE OwnInv
      OBVIOUS
    <2>1. TypeInv
      BY TypeInit
    <2>2. Alone /\ ClosedWasOpen /\ ClosedOwnsNothing /\ RemovesAll
      BY DEF Init, Alone, Building, ClosedWasOpen, ClosedOwnsNothing, RemovesAll
    <2> QED
      BY <2>1, <2>2 DEF OwnInv
  <1>2. OwnInv => ClosedOwnsNothing
    BY DEF OwnInv
  <1>3. OwnInv /\ [Next]_vars => OwnInv'
    BY OwnStep
  <1> QED
    BY <1>1, <1>2, <1>3, PTL DEF Spec
=============================================================================
