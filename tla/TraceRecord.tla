------------------------------ MODULE TraceRecord ------------------------------
(***************************************************************************)
(* What the profiler promises about a request trace, without its           *)
(* middleware, tasks and threads: segments are recorded while the trace is *)
(* open, it is frozen once and as a whole, a frozen trace lacks a recorded *)
(* segment only if it says so, and only frozen traces are published.  A    *)
(* trace that cannot be frozen is lost and never published.                *)
(***************************************************************************)
EXTENDS Naturals

CONSTANTS Requests, Segments, None

VARIABLES
    phase,      \* absent, open, frozen or lost
    recorded,   \* the segments recorded for each request
    content,    \* what was frozen: the segments kept, and whether any was cut
    published

rvars == <<phase, recorded, content, published>>

RInit ==
    /\ phase = [r \in Requests |-> "absent"]
    /\ recorded = [r \in Requests |-> {}]
    /\ content = [r \in Requests |-> None]
    /\ published = {}

Begin(r) ==
    /\ phase[r] = "absent"
    /\ phase' = [phase EXCEPT ![r] = "open"]
    /\ UNCHANGED <<recorded, content, published>>

\* A lost trace is still held open by its collector.
Record(r, s) ==
    /\ phase[r] \in {"open", "lost"}
    /\ \A q \in Requests : s \notin recorded[q]
    /\ recorded' = [recorded EXCEPT ![r] = @ \cup {s}]
    /\ UNCHANGED <<phase, content, published>>

Freeze(r) ==
    /\ phase[r] = "open"
    /\ \E kept \in SUBSET recorded[r], cut \in BOOLEAN :
         /\ ~cut => kept = recorded[r]
         /\ content' = [content EXCEPT ![r] = [kept |-> kept, cut |-> cut]]
    /\ phase' = [phase EXCEPT ![r] = "frozen"]
    /\ UNCHANGED <<recorded, published>>

Lose(r) ==
    /\ phase[r] = "open"
    /\ phase' = [phase EXCEPT ![r] = "lost"]
    /\ UNCHANGED <<recorded, content, published>>

Publish(r) ==
    /\ phase[r] = "frozen"
    /\ published' = published \cup {r}
    /\ UNCHANGED <<phase, recorded, content>>

RNext ==
    \E r \in Requests :
        \/ Begin(r) \/ Freeze(r) \/ Lose(r) \/ Publish(r)
        \/ \E s \in Segments : Record(r, s)

RSpec == RInit /\ [][RNext]_rvars
=============================================================================
