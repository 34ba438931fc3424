-------------------------------- MODULE Adapters -------------------------------
(***************************************************************************)
(* The adapters of instrumentation/ that replace functions of FastAPI for  *)
(* the whole process: the endpoint runner (handler.py), the two references *)
(* to the dependency solver (dependencies.py) and the serialization of     *)
(* responses (serialization.py).  An adapter counts its owners, holds its  *)
(* lock during each operation, and leaves a function that somebody else    *)
(* has replaced alone.                                                     *)
(*                                                                         *)
(* Other libraries and tests may replace the same functions: they save     *)
(* what they find and later put it back.                                   *)
(***************************************************************************)

CONSTANTS
    Profilers,    \* the Latensight objects, each the owner of its patches
    Overlaid      \* functions that others replace, too

Adapters == {"handler", "dependency", "serialization"}

\* The references that an adapter replaces.
SlotsOf(ad) ==
    CASE ad = "handler"       -> {"routing.run_endpoint_function"}
      [] ad = "dependency"    -> {"utils.solve_dependencies",
                                  "routing.solve_dependencies"}
      [] ad = "serialization" -> {"routing.serialize_response"}

Slots == UNION {SlotsOf(ad) : ad \in Adapters}

ASSUME OverlayAssumption == Overlaid \subseteq Slots

VARIABLES
    owners,       \* _owners of each adapter
    patch,        \* what each reference holds
    saved,        \* what a foreign patch will put back
    unsupported   \* adapters that reject the FastAPI version

adapterVars == <<owners, patch, saved, unsupported>>

AdaptersType ==
    /\ owners \in [Adapters -> SUBSET Profilers]
    /\ patch \in [Slots -> {"original", "wrapper", "foreign"}]
    /\ saved \in [Slots -> {"original", "wrapper"}]
    /\ unsupported \in SUBSET {"dependency", "serialization"}

AdaptersInit ==
    /\ owners = [ad \in Adapters |-> {}]
    /\ patch = [s \in Slots |-> "original"]
    /\ saved = [s \in Slots |-> "original"]
    /\ unsupported \in SUBSET {"dependency", "serialization"}

-----------------------------------------------------------------------------
\* The first owner installs only in a FastAPI it knows and over the originals.
CanInstall(ad) ==
    \/ owners[ad] # {}
    \/ /\ ad \notin unsupported
       /\ \A s \in SlotsOf(ad) : patch[s] = "original"

Install(ad, p) ==
    /\ CanInstall(ad)
    /\ patch' = [s \in Slots |-> IF owners[ad] = {} /\ s \in SlotsOf(ad)
                                 THEN "wrapper" ELSE patch[s]]
    /\ owners' = [owners EXCEPT ![ad] = @ \cup {p}]
    /\ UNCHANGED <<saved, unsupported>>

\* Which references are restored when the owners in left remain.
\* (Mutants: whoever is left; whatever the reference holds; if none was there
\* before.)
RestoredAlways(ad, left) == {s \in SlotsOf(ad) : patch[s] = "wrapper"}

RestoredBlindly(ad, left) == {s \in SlotsOf(ad) : left = {}}

RestoredBefore(ad, left) == {s \in SlotsOf(ad) : owners[ad] = {} /\ patch[s] = "wrapper"}

RestoredFor(ad, left) == {s \in SlotsOf(ad) : left = {} /\ patch[s] = "wrapper"}

LeaveOwners(ad, left) ==
    /\ owners' = [owners EXCEPT ![ad] = left]
    /\ patch' = [s \in Slots |-> IF s \in RestoredFor(ad, left)
                                 THEN "original" ELSE patch[s]]
    /\ UNCHANGED <<saved, unsupported>>

Remove(ad, p) == LeaveOwners(ad, owners[ad] \ {p})

RestoreAll(ad) == LeaveOwners(ad, {})

\* Somebody else replaces a function, and puts back what was there.
Overlay(s) ==
    /\ patch[s] # "foreign"
    /\ patch' = [patch EXCEPT ![s] = "foreign"]
    /\ saved' = [saved EXCEPT ![s] = patch[s]]
    /\ UNCHANGED <<owners, unsupported>>

Withdraw(s) ==
    /\ patch[s] = "foreign"
    /\ patch' = [patch EXCEPT ![s] = saved[s]]
    /\ saved' = [saved EXCEPT ![s] = "original"]
    /\ UNCHANGED <<owners, unsupported>>

\* Calls of the function reach the wrapper, through a foreign patch or not.
Reaches(s) == \/ patch[s] = "wrapper"
              \/ patch[s] = "foreign" /\ saved[s] = "wrapper"
=============================================================================
