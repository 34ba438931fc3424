------------------------------- MODULE SqlEvents -------------------------------
(***************************************************************************)
(* The SQLAlchemy listeners (instrumentation/sqlalchemy.py) that turn each *)
(* statement of a traced request into a segment.  The segment begins with  *)
(* the event before_cursor_execute and ends with after_cursor_execute or   *)
(* handle_error; in between it waits on a stack that the connection keeps, *)
(* together with id() of the statement's execution context, by which its   *)
(* end is recognized.                                                      *)
(*                                                                         *)
(* A connection is used by one task at a time.  A task runs statements one *)
(* inside another (a listener of the application may execute some).  The   *)
(* listeners come and go with the owners of the engine, also while a       *)
(* statement runs.                                                         *)
(***************************************************************************)
EXTENDS Naturals, Sequences, SequencesExt

CONSTANTS
    Tasks,      \* tasks and threads, each with its context variables
    Conns,      \* connections of an engine, each with its info
    Stmts,      \* executions of statements
    Requests,   \* traced requests
    Idents,     \* values of id() of an execution context
    RowCounts,  \* {TRUE} if every cursor has a row count, {FALSE} if none has,
                \* BOOLEAN if some have
    None

ASSUME NameAssumption == None \notin Tasks \cup Conns \cup Stmts \cup Requests \cup Idents
ASSUME CountAssumption == RowCounts \subseteq BOOLEAN

VARIABLES
    listening,  \* whether the engine has the listeners
    steady,     \* whether they never came or went while a statement ran
    req,        \* the request whose collector a task sees
    finalized,  \* requests whose collector is finalized
    stack,      \* _segment_stack of each task
    info,       \* the stack of _SqlExecution in the info of a connection
    stmt,       \* the statements
    running,    \* the statements that a task is inside of, outermost first
    segment,    \* the segment of a statement
    token       \* the stack that the token of a segment restores

vars == <<listening, steady, req, finalized, stack, info, stmt, running, segment, token>>

StmtType ==
    [at : {"new", "running", "executed", "ended"}, task : Tasks \cup {None},
     conn : Conns \cup {None}, ident : Idents \cup {None},
     results : SUBSET {"ok", "error"}]

SegmentType ==
    [request : Requests \cup {None}, parent : Stmts \cup {None},
     status : {"incomplete", "ok", "error"},
     counted : BOOLEAN]       \* its attributes have a row_count

NoSegment == [request |-> None, parent |-> None, status |-> "incomplete",
              counted |-> FALSE]

Init ==
    /\ listening \in BOOLEAN
    /\ steady = TRUE
    /\ req = [t \in Tasks |-> None]
    /\ finalized = {}
    /\ stack = [t \in Tasks |-> <<>>]
    /\ info = [c \in Conns |-> <<>>]
    /\ stmt = [s \in Stmts |-> [at |-> "new", task |-> None, conn |-> None,
                                ident |-> None, results |-> {}]]
    /\ running = [t \in Tasks |-> <<>>]
    /\ segment = [s \in Stmts |-> NoSegment]
    /\ token = [s \in Stmts |-> <<>>]

-----------------------------------------------------------------------------
(* The life of a request, as far as the listeners see it. *)

\* A task accepts a request or is started by it with a copy of its context; its
\* stack is the part that it adds.
Enter(t, r) ==
    /\ req[t] = None /\ running[t] = <<>> /\ r \notin finalized
    /\ req' = [req EXCEPT ![t] = r]
    /\ stack' = [stack EXCEPT ![t] = <<>>]
    /\ UNCHANGED <<listening, steady, finalized, info, stmt, running, segment, token>>

\* A task that outlives its request still runs statements.
Finalize(t) ==
    /\ req[t] \notin finalized \cup {None}
    /\ finalized' = finalized \cup {req[t]}
    /\ UNCHANGED <<listening, steady, req, stack, info, stmt, running, segment, token>>

Reset(t) ==
    /\ req[t] \in finalized /\ running[t] = <<>>
    /\ req' = [req EXCEPT ![t] = None]
    /\ stack' = [stack EXCEPT ![t] = <<>>]
    /\ UNCHANGED <<listening, steady, finalized, info, stmt, running, segment, token>>

\* register and unregister of the engine's first and last owner.
Listen ==
    /\ listening' = ~listening
    /\ steady' = (steady /\ \A t \in Tasks : running[t] = <<>>)
    /\ UNCHANGED <<req, finalized, stack, info, stmt, running, segment, token>>

-----------------------------------------------------------------------------
\* Live statements have different contexts; a dead one's id may come again.
MayBe(i) == \A s \in Stmts : stmt[s].ident = i => stmt[s].at = "ended"

MayUse(t, c) ==
    \A s \in Stmts : stmt[s].at = "running" /\ stmt[s].conn = c => stmt[s].task = t

\* Whether _before_cursor_execute records a segment.
Records(t, internal) ==
    listening /\ req[t] \notin finalized \cup {None} /\ ~internal

\* (Mutant: the request, if there is none.)
ParentOrRequest(t) == IF stack[t] = <<>> THEN req[t] ELSE Last(stack[t])

Parent(t) == IF stack[t] = <<>> THEN None ELSE Last(stack[t])

Before(t, s, c, i, internal) ==
    /\ stmt[s].at = "new" /\ MayUse(t, c) /\ MayBe(i)
    /\ stmt' = [stmt EXCEPT ![s] = [at |-> "running", task |-> t, conn |-> c,
                                    ident |-> i, results |-> {}]]
    /\ running' = [running EXCEPT ![t] = Append(@, s)]
    /\ IF Records(t, internal)
       THEN /\ segment' = [segment EXCEPT ![s] =
                 [request |-> req[t], parent |-> Parent(t), status |-> "incomplete",
                  counted |-> FALSE]]
            /\ token' = [token EXCEPT ![s] = stack[t]]
            /\ stack' = [stack EXCEPT ![t] = Append(@, s)]
            /\ info' = [info EXCEPT ![c] = Append(@, [stmt |-> s, ident |-> i])]
       ELSE UNCHANGED <<segment, token, stack, info>>
    /\ UNCHANGED <<listening, steady, req, finalized>>

\* Whether _pop_execution takes the top of the connection's stack for the
\* statement with context i.  (Mutant: whatever is on top.)
AnyTop(c, i) == info[c] # <<>>

IsOwn(c, i) == info[c] # <<>> /\ Last(info[c]).ident = i

\* finish_segment, rejected once the trace is finalized.
\* (Mutant: accepted.)
AlwaysFinishes(s) == TRUE

Finishes(s) == segment[s].request \notin finalized

\* exit_segment; a token of another context is refused, the error swallowed.
Restored(t, s) ==
    IF stmt[s].task = t THEN [stack EXCEPT ![t] = token[s]] ELSE stack

\* The segment of s after an event that ends it.  A row count is written before
\* finish_segment asks whether the trace is finalized.
EndedSegment(s, status, counts) ==
    [segment[s] EXCEPT !.counted = @ \/ counts,
                       !.status = IF Finishes(s) THEN status ELSE @]

\* What the listener does on an event that ends a statement in task t.
Ends(t, c, i, status, counts) ==
    IF listening /\ IsOwn(c, i)
    THEN LET s == Last(info[c]).stmt IN
         /\ info' = [info EXCEPT ![c] = Front(@)]
         /\ segment' = [segment EXCEPT ![s] = EndedSegment(s, status, counts)]
         /\ stack' = Restored(t, s)
    ELSE UNCHANGED <<info, segment, stack>>

\* after_cursor_execute
After(t, s) ==
    /\ running[t] # <<>> /\ s = Last(running[t])
    /\ \E counts \in RowCounts : Ends(t, stmt[s].conn, stmt[s].ident, "ok", counts)
    /\ stmt' = [stmt EXCEPT ![s].at = "executed", ![s].results = {"ok"}]
    /\ running' = [running EXCEPT ![t] = Front(@)]
    /\ UNCHANGED <<listening, steady, req, finalized, token>>

\* The cursor or the database raises: handle_error.
Fails(t, s) ==
    /\ running[t] # <<>> /\ s = Last(running[t])
    /\ Ends(t, stmt[s].conn, stmt[s].ident, "error", FALSE)
    /\ stmt' = [stmt EXCEPT ![s].at = "ended", ![s].results = {"error"}]
    /\ running' = [running EXCEPT ![t] = Front(@)]
    /\ UNCHANGED <<listening, steady, req, finalized, token>>

\* Fetching rows of an executed statement raises: handle_error as well.
FetchFails(t, s) ==
    /\ stmt[s].at = "executed" /\ stmt[s].task = t /\ MayUse(t, stmt[s].conn)
    /\ Ends(t, stmt[s].conn, stmt[s].ident, "error", FALSE)
    /\ stmt' = [stmt EXCEPT ![s].at = "ended", ![s].results = @ \cup {"error"}]
    /\ UNCHANGED <<listening, steady, req, finalized, running, token>>

\* All rows are fetched, and the context dies.
Consumed(s) ==
    /\ stmt[s].at = "executed"
    /\ stmt' = [stmt EXCEPT ![s].at = "ended"]
    /\ UNCHANGED <<listening, steady, req, finalized, stack, info, running, segment, token>>

Execute(t) ==
    \E s \in Stmts :
        \/ \E c \in Conns, i \in Idents, internal \in BOOLEAN : Before(t, s, c, i, internal)
        \/ After(t, s) \/ Fails(t, s) \/ FetchFails(t, s)

Next ==
    \/ \E t \in Tasks, r \in Requests : Enter(t, r)
    \/ \E t \in Tasks : Finalize(t) \/ Reset(t) \/ Execute(t)
    \/ \E s \in Stmts : Consumed(s)
    \/ Listen

Spec == Init /\ [][Next]_vars

-----------------------------------------------------------------------------
\* Every variable has its type.
TypeOK ==
    /\ listening \in BOOLEAN /\ steady \in BOOLEAN
    /\ req \in [Tasks -> Requests \cup {None}]
    /\ finalized \subseteq Requests
    /\ stack \in [Tasks -> Seq(Stmts)]
    /\ info \in [Conns -> Seq([stmt : Stmts, ident : Idents])]
    /\ stmt \in [Stmts -> StmtType]
    /\ running \in [Tasks -> Seq(Stmts)]
    /\ segment \in [Stmts -> SegmentType]
    /\ token \in [Stmts -> Seq(Stmts)]

(***************************************************************************)
(* "Query start/end correlation must be stack-safe and associated with the *)
(* connection or execution context": the status of a segment is a result   *)
(* of its own statement, and a row count is that of its own statement,     *)
(* whatever other statements run, nest, fail or are half read on the same  *)
(* connection.  (Unless the listeners came or went while a statement ran:  *)
(* its entry stays on the connection, and a later statement whose context  *)
(* has the same id ends it.)                                               *)
(***************************************************************************)
OwnOutcome ==
    steady => \A s \in Stmts :
        /\ segment[s].status # "incomplete" => segment[s].status \in stmt[s].results
        /\ segment[s].counted => segment[s].status # "error" /\ "ok" \in stmt[s].results

(***************************************************************************)
(* While the listeners stay, the segment stack of a task names the traced  *)
(* statements it is inside of, innermost last, and the stack of a          *)
(* connection holds just those that run on it: each event pops what it     *)
(* pushed, whether statements succeed, fail, nest, or fail while rows are  *)
(* fetched.                                                                *)
(***************************************************************************)
Traced(s) == segment[s].request # None

Elements(seq) == {seq[k] : k \in DOMAIN seq}

\* The statements of the entries on the stack of a connection.
StmtsOf(entries) == [k \in DOMAIN entries |-> entries[k].stmt]

\* What comes later in seq comes later in whole.
InOrder(seq, whole) ==
    \A j, k \in DOMAIN seq : j < k =>
        \E m, n \in DOMAIN whole : m < n /\ whole[m] = seq[j] /\ whole[n] = seq[k]

StacksFollowStatements ==
    steady =>
      /\ \A t \in Tasks : /\ Elements(stack[t]) = {s \in Elements(running[t]) : Traced(s)}
                          /\ InOrder(stack[t], running[t])
      /\ \A c \in Conns : Elements(StmtsOf(info[c])) =
           {s \in Stmts : stmt[s].at = "running" /\ stmt[s].conn = c /\ Traced(s)}

(***************************************************************************)
(* Both at once: while the listeners stay, stacks, segments and statements *)
(* tell the same story.                                                    *)
(***************************************************************************)
StatementsMatch == OwnOutcome /\ StacksFollowStatements

(***************************************************************************)
(* Once a request is finalized, no event of a statement that still runs,   *)
(* nor a stale one on a connection, ends one of its segments or changes    *)
(* one that has ended.  What a late after_cursor_execute still does is to  *)
(* write a row count into a segment that was left incomplete, once (the    *)
(* snapshot that was stored is a copy of the segments).                    *)
(***************************************************************************)
LateEventsIgnored ==
    [][\A s \in Stmts : segment[s].request \in finalized =>
          \/ segment'[s] = segment[s]
          \/ /\ segment[s].status = "incomplete" /\ ~segment[s].counted
             /\ segment'[s] = [segment[s] EXCEPT !.counted = TRUE]]_vars
=============================================================================
