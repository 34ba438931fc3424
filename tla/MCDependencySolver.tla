--------------------------- MODULE MCDependencySolver ---------------------------
(* A small instance of DependencySolver for TLC. *)
EXTENDS DependencySolver

CONSTANTS a, b, c

Cached(d) == [dep |-> d, cached |-> TRUE]
Bypass(d) == [dep |-> d, cached |-> FALSE]

\* An endpoint may use a dependency twice, or one that another one uses, too.
EndpointUses == {<<Cached(a), Cached(b)>>, <<Cached(b), Cached(a)>>,
                 <<Bypass(b), Cached(b)>>}

SomeApplications ==
    {app0 \in [uses : {[d \in {a, b, c, Route} |-> CASE d = a -> u
                                                     [] d = b -> v
                                                     [] d = c -> <<>>
                                                     [] d = Route -> w] :
                         u \in {<<Cached(b)>>, <<Bypass(c), Cached(b)>>},
                         v \in {<<>>, <<Cached(c)>>},
                         w \in EndpointUses},
                override : {[d \in Deps |-> d], [d \in Deps |-> IF d = b THEN c ELSE d]},
                generators : SUBSET Deps,
                scope : [Deps -> {"function", "request"}]] :
       /\ ScopesAllowed(app0)
       /\ \A d \in Deps : d \notin app0.generators => app0.scope[d] = "request"}
=============================================================================
