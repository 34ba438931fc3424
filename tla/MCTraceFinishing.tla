--------------------------- MODULE MCTraceFinishing ---------------------------
(* Four families of small traces: they vary when segments run, what refers *)
(* to what, how much there is, and what the attributes hold.               *)
EXTENDS TraceFinishing

Chars(n) == [length |-> n, elided |-> FALSE]

Segment(i) ==
    [id |-> i, trace |-> 1, type |-> "custom", start |-> 1, end |-> 2,
     done |-> TRUE, parent |-> None, dependency |-> None, query |-> None,
     long |-> FALSE, attributes |-> {}]

Node(i) ==
    [id |-> i, trace |-> 1, parent |-> None, source |-> None,
     setup |-> None, cleanup |-> None, long |-> FALSE]

Plain ==
    [id |-> 1, complete |-> TRUE, received |-> 1, start |-> 1, body |-> 3,
     app |-> 5, status |-> 200, error |-> None, path |-> Chars(2),
     route |-> None, method |-> Chars(1), segments |-> <<>>,
     dependencies |-> <<>>, findings |-> <<>>]

\* Work in a thread may end when the request has, or not at all.
Works(i) ==
    UNION {{[Segment(i) EXCEPT !.type = kind[1], !.query = kind[2], !.start = begin,
                               !.end = end, !.done = end # None] :
              end \in {e \in {2, 4, 5, 6} : e >= begin} \cup {None}} :
           kind \in {<<"sql", 1>>, <<"sql", 2>>, <<"dependency_setup", None>>,
                     <<"serialization", None>>},
           begin \in {1, 2, 4}}

Timed ==
    {[Plain EXCEPT !.segments = <<a, b>>, !.body = end, !.complete = end # None] :
       a \in Works(1), b \in Works(2), end \in {None, 1, 3}}

\* 9 names nothing: the rules are given any snapshot.
Linked ==
    {[Plain EXCEPT !.segments = << [Segment(1) EXCEPT !.dependency = x[1],
                                                      !.parent = x[2]],
                                   [Segment(2) EXCEPT !.parent = x[3]] >>,
                   !.dependencies = << [Node(1) EXCEPT !.setup = x[4]],
                                       [Node(2) EXCEPT !.parent = x[5],
                                                       !.source = x[6]] >>] :
       x \in {None, 1, 2, 9} \X {None, 2} \X {None, 1, 9} \X {None, 1, 9}
             \X {None, 1, 9} \X {None, 1, 9}}

Sized ==
    {[Plain EXCEPT !.segments = [i \in 1 .. x[1] |-> Segment(i)],
                   !.dependencies = [i \in 1 .. x[2] |->
                                       [Node(i) EXCEPT !.long = x[3]]],
                   !.error = x[4], !.path = Chars(x[5]), !.route = x[6],
                   !.complete = x[7]] :
       x \in (0 .. 3) \X (0 .. 2) \X BOOLEAN \X {None, "short", "long"}
             \X (1 .. 4) \X {None, Chars(3)} \X BOOLEAN}

At(at, secret) == [at |-> at, secret |-> secret]

Leaves ==
    {[way |-> w, value |-> v] :
       w \in {<<At(1, FALSE)>>, <<At(2, TRUE)>>, <<At(3, FALSE)>>,
              <<At(2, FALSE), At(1, TRUE)>>,
              <<At(1, FALSE), At(2, FALSE), At(1, FALSE)>>,
              <<At(2, FALSE), At(1, FALSE), At(1, TRUE)>>,
              <<At(1, TRUE), At(3, FALSE)>>},
       v \in {"short", "long", "nan"}}

Filled ==
    {[Plain EXCEPT !.segments = << [Segment(1) EXCEPT !.attributes = {a, b}] >>] :
       a \in Leaves, b \in Leaves}

SomeTraces == Timed \cup Linked \cup Sized \cup Filled
=============================================================================
