------------------------------- MODULE SqlProofs -------------------------------
(***************************************************************************)
(* Proofs about SqlEvents, for any number of tasks, connections,           *)
(* statements, requests and ids:                                           *)
(*                                                                         *)
(*   SqlTypes           every variable keeps its type;                     *)
(*   FinalIsFinal       no event ends a segment of a finalized request, or *)
(*                      changes one that has ended;                        *)
(*   StatementsAreOwn   while the listeners stay, each event pops what it  *)
(*                      pushed, and ends its own segment.                  *)
(***************************************************************************)
EXTENDS SqlEvents, SequenceTheorems, TLAPS

-----------------------------------------------------------------------------
(* Sequences. *)

\* Nothing occurs twice.
Injective(q) == \A j, k \in DOMAIN q : q[j] = q[k] => j = k

\* A sequence that is not empty is its front and its last element.
LEMMA FrontFacts ==
    ASSUME NEW S, NEW q \in Seq(S), q # <<>>
    PROVE  /\ Len(q) \in Nat \ {0} /\ DOMAIN q = 1 .. Len(q)
           /\ Last(q) = q[Len(q)] /\ Last(q) \in S
           /\ Front(q) \in Seq(S) /\ Len(Front(q)) = Len(q) - 1
           /\ DOMAIN Front(q) = 1 .. Len(q) - 1
           /\ \A k \in 1 .. Len(q) - 1 : Front(q)[k] = q[k]
  <1>1. Len(q) \in Nat \ {0} /\ DOMAIN q = 1 .. Len(q)
    OBVIOUS
  <1>2. q[Len(q)] \in S
    BY <1>1
  <1>3. /\ SubSeq(q, 1, Len(q) - 1) \in Seq(S)
        /\ Len(SubSeq(q, 1, Len(q) - 1)) = Len(q) - 1
        /\ \A k \in 1 .. Len(q) - 1 : SubSeq(q, 1, Len(q) - 1)[k] = q[k]
    BY <1>1
  <1> QED
    BY <1>1, <1>2, <1>3 DEF Last, Front

\* What appending does.
LEMMA AppendFacts ==
    ASSUME NEW S, NEW q \in Seq(S), NEW x \in S
    PROVE  /\ Append(q, x) \in Seq(S) /\ Len(q) \in Nat /\ DOMAIN q = 1 .. Len(q)
           /\ Len(Append(q, x)) = Len(q) + 1
           /\ DOMAIN Append(q, x) = 1 .. Len(q) + 1
           /\ \A k \in 1 .. Len(q) : Append(q, x)[k] = q[k]
           /\ Append(q, x)[Len(q) + 1] = x
  OBVIOUS

\* Sequences of the same length with the same elements.
LEMMA SameSequence ==
    ASSUME NEW S, NEW p \in Seq(S), NEW q \in Seq(S), Len(p) = Len(q),
           \A k \in 1 .. Len(q) : p[k] = q[k]
    PROVE  p = q
  BY SeqEqual

\* The elements after appending one.
LEMMA AppendElements ==
    ASSUME NEW S, NEW q \in Seq(S), NEW x \in S
    PROVE  Elements(Append(q, x)) = Elements(q) \cup {x}
  <1>1. \A y : y \in Elements(Append(q, x)) => y \in Elements(q) \cup {x}
    BY AppendFacts DEF Elements
  <1>2. \A y : y \in Elements(q) => y \in Elements(Append(q, x))
    BY AppendFacts DEF Elements
  <1>3. x \in Elements(Append(q, x))
    BY AppendFacts DEF Elements
  <1> QED
    BY <1>1, <1>2, <1>3

\* The elements without the last one.
LEMMA FrontElements ==
    ASSUME NEW S, NEW q \in Seq(S), q # <<>>, Injective(q)
    PROVE  /\ Elements(Front(q)) = Elements(q) \ {Last(q)}
           /\ Last(q) \in Elements(q) /\ Injective(Front(q))
  <1>1. \A y : y \in Elements(Front(q)) => y \in Elements(q) \ {Last(q)}
    BY FrontFacts DEF Elements, Injective
  <1>2. \A y : y \in Elements(q) \ {Last(q)} => y \in Elements(Front(q))
    <2> SUFFICES ASSUME NEW k \in DOMAIN q, q[k] # Last(q)
                 PROVE  q[k] \in Elements(Front(q))
      BY DEF Elements
    <2>1. /\ Len(q) \in Nat \ {0} /\ DOMAIN q = 1 .. Len(q) /\ Last(q) = q[Len(q)]
          /\ DOMAIN Front(q) = 1 .. Len(q) - 1
          /\ \A n \in 1 .. Len(q) - 1 : Front(q)[n] = q[n]
      BY FrontFacts
    <2>2. k \in 1 .. Len(q) - 1
      BY <2>1
    <2>3. k \in DOMAIN Front(q) /\ Front(q)[k] = q[k]
      BY <2>1, <2>2
    <2> QED
      BY <2>3 DEF Elements
  <1>3. Last(q) \in Elements(q) /\ Injective(Front(q))
    <2>1. /\ Len(q) \in Nat \ {0} /\ DOMAIN q = 1 .. Len(q) /\ Last(q) = q[Len(q)]
          /\ DOMAIN Front(q) = 1 .. Len(q) - 1
          /\ \A n \in 1 .. Len(q) - 1 : Front(q)[n] = q[n]
      BY FrontFacts
    <2>2. Len(q) \in DOMAIN q
      BY <2>1
    <2>3. DOMAIN Front(q) \subseteq DOMAIN q
      BY <2>1
    <2> QED
      BY <2>1, <2>2, <2>3 DEF Elements, Injective
  <1> QED
    BY <1>1, <1>2, <1>3

\* Appending something new keeps a sequence without repetitions.
LEMMA AppendOnce ==
    ASSUME NEW S, NEW q \in Seq(S), NEW x \in S, Injective(q), x \notin Elements(q)
    PROVE  Injective(Append(q, x))
  <1>1. /\ Len(q) \in Nat /\ DOMAIN q = 1 .. Len(q)
        /\ DOMAIN Append(q, x) = 1 .. Len(q) + 1
        /\ \A k \in 1 .. Len(q) : Append(q, x)[k] = q[k]
        /\ Append(q, x)[Len(q) + 1] = x
    BY AppendFacts
  <1>2. \A k \in DOMAIN Append(q, x) :
           \/ k \in DOMAIN q /\ Append(q, x)[k] = q[k] /\ q[k] # x
           \/ k = Len(q) + 1 /\ Append(q, x)[k] = x
    BY <1>1 DEF Elements
  <1> QED
    BY <1>2 DEF Injective

\* Order is kept when the whole grows, with or without the part.
LEMMA OrderAppends ==
    ASSUME NEW S, NEW q \in Seq(S), NEW w \in Seq(S), NEW x \in S,
           InOrder(q, w), Elements(q) \subseteq Elements(w)
    PROVE  InOrder(q, Append(w, x)) /\ InOrder(Append(q, x), Append(w, x))
  <1>a. /\ Len(w) \in Nat /\ DOMAIN w = 1 .. Len(w)
        /\ DOMAIN Append(w, x) = 1 .. Len(w) + 1
        /\ \A k \in 1 .. Len(w) : Append(w, x)[k] = w[k]
        /\ Append(w, x)[Len(w) + 1] = x
    BY AppendFacts
  <1>b. /\ Len(q) \in Nat /\ DOMAIN q = 1 .. Len(q)
        /\ DOMAIN Append(q, x) = 1 .. Len(q) + 1
        /\ \A k \in 1 .. Len(q) : Append(q, x)[k] = q[k]
        /\ Append(q, x)[Len(q) + 1] = x
    BY AppendFacts
  <1>1. InOrder(q, Append(w, x))
    <2> SUFFICES ASSUME NEW j \in DOMAIN q, NEW k \in DOMAIN q, j < k
                 PROVE  \E m, n \in DOMAIN Append(w, x) :
                           m < n /\ Append(w, x)[m] = q[j] /\ Append(w, x)[n] = q[k]
      BY DEF InOrder
    <2>1. PICK m, n \in DOMAIN w : m < n /\ w[m] = q[j] /\ w[n] = q[k]
      BY DEF InOrder
    <2> QED
      BY <2>1, <1>a
  <1>2. InOrder(Append(q, x), Append(w, x))
    <2> SUFFICES ASSUME NEW j \in DOMAIN Append(q, x), NEW k \in DOMAIN Append(q, x), j < k
                 PROVE  \E m, n \in DOMAIN Append(w, x) :
                           /\ m < n /\ Append(w, x)[m] = Append(q, x)[j]
                           /\ Append(w, x)[n] = Append(q, x)[k]
      BY DEF InOrder
    <2>1. j \in DOMAIN q /\ Append(q, x)[j] = q[j]
      BY <1>b
    <2>2. CASE k \in DOMAIN q
      <3>1. Append(q, x)[k] = q[k]
        BY <2>2, <1>b
      <3>2. PICK m, n \in DOMAIN Append(w, x) :
              m < n /\ Append(w, x)[m] = q[j] /\ Append(w, x)[n] = q[k]
        BY <1>1, <2>1, <2>2 DEF InOrder
      <3> QED
        BY <2>1, <3>1, <3>2
    <2>3. CASE k \notin DOMAIN q
      <3>1. Append(q, x)[k] = x
        BY <2>3, <1>b
      <3>2. PICK m \in DOMAIN w : w[m] = q[j]
        BY <2>1 DEF Elements
      <3>3. /\ m \in DOMAIN Append(w, x) /\ Append(w, x)[m] = q[j]
            /\ Len(w) + 1 \in DOMAIN Append(w, x) /\ m < Len(w) + 1
        BY <3>2, <1>a
      <3> QED
        BY <2>1, <3>1, <3>3, <1>a
    <2> QED
      BY <2>2, <2>3
  <1> QED
    BY <1>1, <1>2

\* It is kept when the whole loses its last element, which the part has not.
LEMMA OrderFront ==
    ASSUME NEW S, NEW q \in Seq(S), NEW w \in Seq(S), w # <<>>, InOrder(q, w),
           Last(w) \notin Elements(q)
    PROVE  InOrder(q, Front(w))
  <1> SUFFICES ASSUME NEW j \in DOMAIN q, NEW k \in DOMAIN q, j < k
               PROVE  \E m, n \in DOMAIN Front(w) :
                         m < n /\ Front(w)[m] = q[j] /\ Front(w)[n] = q[k]
    BY DEF InOrder
  <1>1. PICK m, n \in DOMAIN w : m < n /\ w[m] = q[j] /\ w[n] = q[k]
    BY DEF InOrder
  <1>2. w[n] # Last(w)
    BY <1>1 DEF Elements
  <1>3. /\ Len(w) \in Nat \ {0} /\ DOMAIN w = 1 .. Len(w) /\ Last(w) = w[Len(w)]
        /\ DOMAIN Front(w) = 1 .. Len(w) - 1
        /\ \A i \in 1 .. Len(w) - 1 : Front(w)[i] = w[i]
    BY FrontFacts
  <1>4. n \in 1 .. Len(w) - 1 /\ m \in 1 .. Len(w) - 1
    BY <1>1, <1>2, <1>3
  <1> QED
    BY <1>1, <1>3, <1>4

\* A part in order has the last element of the whole as its own last, if it has
\* it at all.
LEMMA OrderLast ==
    ASSUME NEW S, NEW q \in Seq(S), NEW w \in Seq(S), w # <<>>, Injective(w),
           InOrder(q, w), Last(w) \in Elements(q)
    PROVE  q # <<>> /\ Last(q) = Last(w)
  <1>1. PICK j \in DOMAIN q : q[j] = Last(w)
    BY DEF Elements
  <1>2. q # <<>>
    BY <1>1
  <1>3. j = Len(q)
    <2>1. SUFFICES ASSUME j # Len(q) PROVE FALSE
      OBVIOUS
    <2>2. Len(q) \in DOMAIN q /\ j < Len(q)
      BY <1>2, <2>1, FrontFacts
    <2>3. PICK m, n \in DOMAIN w : m < n /\ w[m] = q[j] /\ w[n] = q[Len(q)]
      BY <2>2 DEF InOrder
    <2>4. m = Len(w)
      BY <1>1, <2>3, FrontFacts DEF Injective
    <2> QED
      BY <2>3, <2>4, FrontFacts
  <1> QED
    BY <1>1, <1>2, <1>3, FrontFacts

\* A part in order repeats nothing if the whole does not.
LEMMA OrderInjective ==
    ASSUME NEW S, NEW q \in Seq(S), NEW w \in Seq(S), Injective(w), InOrder(q, w)
    PROVE  Injective(q)
  <1> SUFFICES ASSUME NEW j \in DOMAIN q, NEW k \in DOMAIN q, j < k, q[j] = q[k]
               PROVE  FALSE
    <2>1. \A j \in DOMAIN q : j \in Nat
      OBVIOUS
    <2> QED
      BY <2>1 DEF Injective
  <1>1. PICK m, n \in DOMAIN w : m < n /\ w[m] = q[j] /\ w[n] = q[k]
    BY DEF InOrder
  <1>2. m = n /\ m \in Nat
    BY <1>1 DEF Injective
  <1> QED
    BY <1>1, <1>2

\* A beginning of an ordered part is in order.
LEMMA OrderPrefix ==
    ASSUME NEW q, NEW p, NEW w, InOrder(q, w), DOMAIN p \subseteq DOMAIN q,
           \A k \in DOMAIN p : p[k] = q[k]
    PROVE  InOrder(p, w)
  BY DEF InOrder
-----------------------------------------------------------------------------
(* Types, and what statements are inside of. *)

Known(s) == stmt[s].task \in Tasks /\ stmt[s].conn \in Conns /\ stmt[s].ident \in Idents

\* A task is inside of the statements that it runs, once each, and one that was
\* not executed has no segment.
Inside ==
    /\ \A t \in Tasks : Injective(running[t])
    /\ \A t \in Tasks : \A s \in Elements(running[t]) :
          stmt[s].at = "running" /\ stmt[s].task = t
    /\ \A s \in Stmts : stmt[s].at = "running" => s \in Elements(running[stmt[s].task])
    /\ \A s \in Stmts : stmt[s].at # "new" => Known(s)
    /\ \A s \in Stmts : stmt[s].at = "new" => ~Traced(s)

\* A connection is used by one task, and live statements have different ids.
Apart ==
    /\ \A r, s \in Stmts : /\ stmt[r].at = "running" /\ stmt[s].at = "running"
                           /\ stmt[r].conn = stmt[s].conn
                           => stmt[r].task = stmt[s].task
    /\ \A r, s \in Stmts : /\ stmt[r].at \in {"running", "executed"}
                           /\ stmt[s].at \in {"running", "executed"}
                           /\ stmt[r].ident = stmt[s].ident
                           => r = s

BaseInv == TypeOK /\ Inside /\ Apart

\* The statement that task t leaves is the innermost one.
LEMMA Innermost ==
    ASSUME BaseInv, NEW t \in Tasks, running[t] # <<>>
    PROVE  LET s == Last(running[t]) IN
           /\ s \in Stmts /\ s \in Elements(running[t])
           /\ stmt[s].at = "running" /\ stmt[s].task = t /\ Known(s)
           /\ Front(running[t]) \in Seq(Stmts) /\ Injective(Front(running[t]))
           /\ Elements(Front(running[t])) = Elements(running[t]) \ {s}
  <1>1. running[t] \in Seq(Stmts) /\ Injective(running[t])
    BY DEF BaseInv, TypeOK, Inside
  <1>2. Last(running[t]) \in Stmts /\ Front(running[t]) \in Seq(Stmts)
    BY <1>1, FrontFacts
  <1>3. /\ Last(running[t]) \in Elements(running[t]) /\ Injective(Front(running[t]))
        /\ Elements(Front(running[t])) = Elements(running[t]) \ {Last(running[t])}
    BY <1>1, FrontElements
  <1> QED
    BY <1>2, <1>3 DEF BaseInv, Inside

\* The entry on top of the stack of a connection.
LEMMA TopEntry ==
    ASSUME NEW q \in Seq([stmt : Stmts, ident : Idents]), q # <<>>
    PROVE  /\ Len(q) \in Nat \ {0} /\ DOMAIN q = 1 .. Len(q) /\ Last(q) = q[Len(q)]
           /\ DOMAIN Front(q) = 1 .. Len(q) - 1
           /\ \A k \in 1 .. Len(q) - 1 : Front(q)[k] = q[k]
  <1> DEFINE S == [stmt : Stmts, ident : Idents]
  <1>1. q \in Seq(S)
    OBVIOUS
  <1> HIDE DEF S
  <1> QED
    BY <1>1, FrontFacts

\* An event that ends a statement; only a successful one has a row count.
Heard(t, c, i, status) ==
    \E counts \in BOOLEAN : (counts => status = "ok") /\ Ends(t, c, i, status, counts)

\* What becomes of the segment that it ends.
LEMMA EndedFacts ==
    ASSUME NEW s, segment[s] \in SegmentType, NEW status \in {"ok", "error"},
           NEW counts \in BOOLEAN
    PROVE  /\ EndedSegment(s, status, counts) \in SegmentType
           /\ EndedSegment(s, status, counts).request = segment[s].request
           /\ EndedSegment(s, status, counts).status \in {segment[s].status, status}
           /\ EndedSegment(s, status, counts).counted
                 => segment[s].counted \/ counts
           /\ ~Finishes(s) /\ ~segment[s].counted =>
                 \/ EndedSegment(s, status, counts) = segment[s]
                 \/ EndedSegment(s, status, counts)
                       = [segment[s] EXCEPT !.counted = TRUE]
  BY DEF EndedSegment, SegmentType

\* What the end of a statement does to the entries and the segments: the last
\* entry of the connection is taken, and its segment ended, or nothing.
LEMMA EndsEntry ==
    ASSUME BaseInv, NEW t \in Tasks, NEW c \in Conns, NEW i \in Idents,
           NEW status \in {"ok", "error"}, Heard(t, c, i, status)
    PROVE  \/ UNCHANGED <<info, segment, stack>>
           \/ LET s == Last(info[c]).stmt IN
              /\ info[c] # <<>> /\ s \in Stmts
              /\ info' = [info EXCEPT ![c] = Front(info[c])]
              /\ stack' = Restored(t, s)
              /\ \E counts \in BOOLEAN :
                    /\ counts => status = "ok"
                    /\ segment' = [segment EXCEPT ![s] = EndedSegment(s, status, counts)]
  <1>1. PICK counts \in BOOLEAN : /\ counts => status = "ok"
                                 /\ Ends(t, c, i, status, counts)
    BY DEF Heard
  <1>2. CASE listening /\ IsOwn(c, i)
    <2>1. info[c] # <<>> /\ info[c] \in Seq([stmt : Stmts, ident : Idents])
      BY <1>2 DEF IsOwn, BaseInv, TypeOK
    <2>2. Last(info[c]) \in [stmt : Stmts, ident : Idents]
      BY <2>1, FrontFacts
    <2>3. Last(info[c]).stmt \in Stmts
      BY <2>2
    <2> QED
      BY <1>1, <1>2, <2>1, <2>3 DEF Ends
  <1>3. CASE ~(listening /\ IsOwn(c, i))
    BY <1>1, <1>3 DEF Ends
  <1> QED
    BY <1>2, <1>3

\* What the end of a statement does, by types.
LEMMA EndsTypes ==
    ASSUME BaseInv, NEW t \in Tasks, NEW c \in Conns, NEW i \in Idents,
           NEW status \in {"ok", "error"}, Heard(t, c, i, status)
    PROVE  /\ stack' \in [Tasks -> Seq(Stmts)]
           /\ info' \in [Conns -> Seq([stmt : Stmts, ident : Idents])]
           /\ segment' \in [Stmts -> SegmentType]
           /\ \A s \in Stmts : segment'[s].request = segment[s].request
  <1>0. /\ stack \in [Tasks -> Seq(Stmts)] /\ token \in [Stmts -> Seq(Stmts)]
        /\ info \in [Conns -> Seq([stmt : Stmts, ident : Idents])]
        /\ segment \in [Stmts -> SegmentType]
    BY DEF BaseInv, TypeOK
  <1>1. CASE UNCHANGED <<info, segment, stack>>
    BY <1>0, <1>1
  <1> DEFINE s == Last(info[c]).stmt
  <1>2. CASE /\ info[c] # <<>> /\ s \in Stmts
             /\ info' = [info EXCEPT ![c] = Front(info[c])]
             /\ stack' = Restored(t, s)
             /\ \E counts \in BOOLEAN :
                   /\ counts => status = "ok"
                   /\ segment' = [segment EXCEPT ![s] = EndedSegment(s, status, counts)]
    <2> HIDE DEF s
    <2>1. PICK counts \in BOOLEAN :
             segment' = [segment EXCEPT ![s] = EndedSegment(s, status, counts)]
      BY <1>2
    <2>2. info[c] \in Seq([stmt : Stmts, ident : Idents])
      BY <1>0
    <2>3. Front(info[c]) \in Seq([stmt : Stmts, ident : Idents])
      BY <1>2, <2>2, FrontFacts
    <2>4. info' \in [Conns -> Seq([stmt : Stmts, ident : Idents])]
      BY <1>0, <1>2, <2>3
    <2>5. stack' \in [Tasks -> Seq(Stmts)]
      BY <1>0, <1>2 DEF Restored
    <2> DEFINE closing == EndedSegment(s, status, counts)
    <2>6. closing \in SegmentType /\ closing.request = segment[s].request
      BY <1>0, <1>2, EndedFacts
    <2>7. segment' = [segment EXCEPT ![s] = closing]
      BY <2>1
    <2> HIDE DEF closing
    <2>8. /\ segment' \in [Stmts -> SegmentType]
          /\ \A r \in Stmts : segment'[r].request = segment[r].request
      BY <1>0, <1>2, <2>6, <2>7
    <2> QED
      BY <2>4, <2>5, <2>8
  <1>3. \/ UNCHANGED <<info, segment, stack>>
        \/ /\ info[c] # <<>> /\ s \in Stmts
           /\ info' = [info EXCEPT ![c] = Front(info[c])]
           /\ stack' = Restored(t, s)
           /\ \E counts \in BOOLEAN :
                 /\ counts => status = "ok"
                 /\ segment' = [segment EXCEPT ![s] = EndedSegment(s, status, counts)]
    BY EndsEntry
  <1> HIDE DEF s
  <1> QED
    BY ZenonT(40), <1>1, <1>2, <1>3
\* Statement s of task t ends with a result, and is at a place then.
Leaves(t, s, status, place) ==
    /\ running[t] # <<>> /\ s = Last(running[t])
    /\ Heard(t, stmt[s].conn, stmt[s].ident, status)
    /\ stmt' = [stmt EXCEPT ![s].at = place, ![s].results = {status}]
    /\ running' = [running EXCEPT ![t] = Front(@)]
    /\ UNCHANGED <<listening, steady, req, finalized, token>>

\* What the statements of a task are then.
LEMMA LeavesStatements ==
    ASSUME BaseInv, NEW t \in Tasks, NEW s, NEW status \in {"ok", "error"},
           NEW place \in {"executed", "ended"}, Leaves(t, s, status, place)
    PROVE  /\ s \in Stmts /\ stmt[s].at = "running" /\ stmt[s].task = t /\ Known(s)
           /\ stmt' \in [Stmts -> StmtType]
           /\ \A r \in Stmts \ {s} : stmt'[r] = stmt[r]
           /\ stmt'[s].at = place /\ stmt'[s].results = {status}
           /\ stmt'[s].task = t /\ stmt'[s].conn = stmt[s].conn
           /\ stmt'[s].ident = stmt[s].ident
           /\ running' \in [Tasks -> Seq(Stmts)]
           /\ \A u \in Tasks : Injective(running'[u])
           /\ running'[t] = Front(running[t])
           /\ \A u \in Tasks \ {t} : running'[u] = running[u]
  <1>1. /\ s \in Stmts /\ stmt[s].at = "running" /\ stmt[s].task = t /\ Known(s)
        /\ Front(running[t]) \in Seq(Stmts) /\ Injective(Front(running[t]))
        /\ Elements(Front(running[t])) = Elements(running[t]) \ {s}
    BY Innermost DEF Leaves
  <1>2. /\ stmt \in [Stmts -> StmtType] /\ running \in [Tasks -> Seq(Stmts)]
        /\ \A u \in Tasks : Injective(running[u])
    BY DEF BaseInv, TypeOK, Inside
  <1> DEFINE now == [stmt[s] EXCEPT !.at = place, !.results = {status}]
  <1>3. /\ now \in StmtType /\ now.at = place /\ now.results = {status}
        /\ now.task = stmt[s].task /\ now.conn = stmt[s].conn
        /\ now.ident = stmt[s].ident
    BY <1>1, <1>2 DEF StmtType
  <1>4. stmt' = [stmt EXCEPT ![s] = now]
    BY <1>1, <1>2 DEF Leaves
  <1> HIDE DEF now
  <1>5. /\ stmt' \in [Stmts -> StmtType] /\ stmt'[s] = now
        /\ \A r \in Stmts \ {s} : stmt'[r] = stmt[r]
    BY <1>1, <1>2, <1>3, <1>4
  <1>6. running' = [running EXCEPT ![t] = Front(running[t])]
    BY DEF Leaves
  <1>7. /\ running' \in [Tasks -> Seq(Stmts)] /\ running'[t] = Front(running[t])
        /\ \A u \in Tasks \ {t} : running'[u] = running[u]
    BY <1>1, <1>2, <1>6
  <1> QED
    BY <1>1, <1>2, <1>3, <1>5, <1>7

\* The end of a statement keeps BaseInv.
LEMMA LeavesBase ==
    ASSUME BaseInv, NEW t \in Tasks, NEW s, NEW status \in {"ok", "error"},
           NEW place \in {"executed", "ended"}, Leaves(t, s, status, place)
    PROVE  BaseInv'
  <1>1. /\ s \in Stmts /\ stmt[s].at = "running" /\ stmt[s].task = t /\ Known(s)
    BY LeavesStatements
  <1>2. /\ stmt' \in [Stmts -> StmtType] /\ running' \in [Tasks -> Seq(Stmts)]
        /\ \A u \in Tasks : Injective(running'[u])
    BY LeavesStatements
  <1>3. /\ \A r \in Stmts \ {s} : stmt'[r] = stmt[r]
        /\ stmt'[s].at = place /\ stmt'[s].task = t /\ stmt'[s].conn = stmt[s].conn
        /\ stmt'[s].ident = stmt[s].ident
    BY LeavesStatements
  <1>4. /\ \A r : r \in Elements(running'[t]) <=> r \in Elements(running[t]) /\ r # s
        /\ \A u \in Tasks \ {t} : running'[u] = running[u]
    <2>1. /\ running[t] # <<>> /\ s = Last(running[t])
          /\ running' = [running EXCEPT ![t] = Front(running[t])]
      BY DEF Leaves
    <2>2. Elements(Front(running[t])) = Elements(running[t]) \ {s}
      BY <2>1, Innermost
    <2>3. running \in [Tasks -> Seq(Stmts)]
      BY DEF BaseInv, TypeOK
    <2> QED
      BY <2>1, <2>2, <2>3
  <1>5. Heard(t, stmt[s].conn, stmt[s].ident, status)
    BY DEF Leaves
  <1>6. stmt[s].conn \in Conns /\ stmt[s].ident \in Idents
    BY <1>1 DEF Known
  <1>7. /\ stack' \in [Tasks -> Seq(Stmts)]
        /\ info' \in [Conns -> Seq([stmt : Stmts, ident : Idents])]
        /\ segment' \in [Stmts -> SegmentType]
        /\ \A r \in Stmts : segment'[r].request = segment[r].request
    BY <1>5, <1>6, EndsTypes
  <1>8. TypeOK'
    BY <1>2, <1>7 DEF BaseInv, TypeOK, Leaves
  <1>9. Inside'
    <2>1. ASSUME NEW u \in Tasks, NEW r \in Elements(running'[u])
          PROVE  stmt'[r].at = "running" /\ stmt'[r].task = u
      <3>1. r \in Elements(running[u]) /\ r # s
        BY <2>1, <1>1, <1>4 DEF BaseInv, Inside
      <3>2. stmt[r].at = "running" /\ stmt[r].task = u
        BY <3>1 DEF BaseInv, Inside
      <3>3. r \in Stmts
        BY <3>1 DEF BaseInv, TypeOK, Elements
      <3> QED
        BY <3>1, <3>2, <3>3, <1>3
    <2>2. ASSUME NEW r \in Stmts, stmt'[r].at = "running"
          PROVE  r \in Elements(running'[stmt'[r].task])
      <3>1. r # s /\ stmt'[r] = stmt[r]
        BY <2>2, <1>3
      <3>2. r \in Elements(running[stmt[r].task]) /\ stmt[r].task \in Tasks
        BY <2>2, <3>1 DEF BaseInv, Inside, Known
      <3> QED
        BY <3>1, <3>2, <1>4
    <2>3. \A r \in Stmts : stmt'[r].at # "new" => Known(r)'
      BY <1>1, <1>3, <1>6 DEF BaseInv, Inside, Known
    <2>4. \A r \in Stmts : stmt'[r].at = "new" => ~Traced(r)'
      BY <1>3, <1>7 DEF BaseInv, Inside, Traced
    <2> QED
      BY <1>2, <2>1, <2>2, <2>3, <2>4 DEF Inside
  <1>10. Apart'
    <2>1. \A r \in Stmts : /\ stmt'[r].conn = stmt[r].conn /\ stmt'[r].ident = stmt[r].ident
                           /\ stmt'[r].task = stmt[r].task
                           /\ stmt'[r].at = "running" => stmt[r].at = "running"
                           /\ stmt'[r].at \in {"running", "executed"}
                                 => stmt[r].at \in {"running", "executed"}
      BY <1>1, <1>3
    <2> QED
      BY <2>1 DEF BaseInv, Apart
  <1> QED
    BY <1>8, <1>9, <1>10 DEF BaseInv

\* The event of a failure while rows are fetched.
LEMMA FetchHeard ==
    ASSUME NEW t, NEW s, FetchFails(t, s)
    PROVE  Heard(t, stmt[s].conn, stmt[s].ident, "error")
  BY DEF FetchFails, Heard

\* So does a failure while rows are fetched.
LEMMA FetchBase ==
    ASSUME BaseInv, NEW t \in Tasks, NEW s \in Stmts, FetchFails(t, s)
    PROVE  BaseInv'
  <1>1. Known(s) /\ stmt[s].at = "executed"
    BY DEF BaseInv, Inside, FetchFails
  <1>2. /\ stack' \in [Tasks -> Seq(Stmts)]
        /\ info' \in [Conns -> Seq([stmt : Stmts, ident : Idents])]
        /\ segment' \in [Stmts -> SegmentType]
        /\ \A r \in Stmts : segment'[r].request = segment[r].request
    <2>1. Heard(t, stmt[s].conn, stmt[s].ident, "error")
      BY FetchHeard
    <2> QED
      BY <1>1, <2>1, EndsTypes DEF Known
  <1> DEFINE now == [stmt[s] EXCEPT !.at = "ended", !.results = @ \cup {"error"}]
  <1>3. stmt \in [Stmts -> StmtType]
    BY DEF BaseInv, TypeOK
  <1>4. /\ now \in StmtType /\ now.at = "ended" /\ now.task = stmt[s].task
        /\ now.conn = stmt[s].conn /\ now.ident = stmt[s].ident
    BY <1>3 DEF StmtType
  <1>5. stmt' = [stmt EXCEPT ![s] = now]
    BY <1>3 DEF FetchFails
  <1> HIDE DEF now
  <1>6. /\ stmt' \in [Stmts -> StmtType] /\ stmt'[s] = now
        /\ \A r \in Stmts \ {s} : stmt'[r] = stmt[r]
    BY <1>3, <1>4, <1>5
  <1>7. TypeOK'
    BY <1>2, <1>6 DEF BaseInv, TypeOK, FetchFails
  <1>8. \A r \in Stmts : /\ stmt'[r].conn = stmt[r].conn /\ stmt'[r].ident = stmt[r].ident
                         /\ stmt'[r].task = stmt[r].task
                         /\ stmt'[r].at = "running" <=> stmt[r].at = "running"
                         /\ stmt'[r].at = "new" <=> stmt[r].at = "new"
                         /\ stmt'[r].at = "executed" => stmt[r].at = "executed"
    BY <1>1, <1>4, <1>6
  <1>9. running' = running
    BY DEF FetchFails
  <1>10. Inside'
    <2>1. \A u \in Tasks : \A r \in Elements(running[u]) :
             r \in Stmts /\ stmt[r].at = "running" /\ stmt[r].task = u
      BY DEF BaseInv, TypeOK, Inside, Elements
    <2>2. \A u \in Tasks : \A r \in Elements(running'[u]) :
             stmt'[r].at = "running" /\ stmt'[r].task = u
      BY <2>1, <1>8, <1>9
    <2>3. \A r \in Stmts : stmt'[r].at = "running" => r \in Elements(running'[stmt'[r].task])
      BY <1>8, <1>9 DEF BaseInv, Inside
    <2>4. \A r \in Stmts : stmt'[r].at # "new" => Known(r)'
      BY <1>8 DEF BaseInv, Inside, Known
    <2>5. \A r \in Stmts : stmt'[r].at = "new" => ~Traced(r)'
      BY <1>2, <1>8 DEF BaseInv, Inside, Traced
    <2>6. \A u \in Tasks : Injective(running'[u])
      BY <1>9 DEF BaseInv, Inside
    <2> QED
      BY <2>2, <2>3, <2>4, <2>5, <2>6 DEF Inside
  <1>11. Apart'
    BY <1>8 DEF BaseInv, Apart
  <1> QED
    BY <1>7, <1>10, <1>11 DEF BaseInv

\* So does the event before a statement.
LEMMA BeforeBase ==
    ASSUME BaseInv, NEW t \in Tasks, NEW s \in Stmts, NEW c \in Conns, NEW i \in Idents,
           NEW internal \in BOOLEAN, Before(t, s, c, i, internal)
    PROVE  BaseInv'
  <1>0. /\ req \in [Tasks -> Requests \cup {None}]
        /\ stack \in [Tasks -> Seq(Stmts)]
        /\ info \in [Conns -> Seq([stmt : Stmts, ident : Idents])]
        /\ stmt \in [Stmts -> StmtType] /\ running \in [Tasks -> Seq(Stmts)]
        /\ segment \in [Stmts -> SegmentType] /\ token \in [Stmts -> Seq(Stmts)]
        /\ Inside /\ Apart
    BY DEF BaseInv, TypeOK
  <1> DEFINE now == [at |-> "running", task |-> t, conn |-> c, ident |-> i, results |-> {}]
             made == [request |-> req[t], parent |-> Parent(t), status |-> "incomplete",
                      counted |-> FALSE]
  <1>1. now \in StmtType
    BY DEF StmtType
  <1>2. /\ stmt' = [stmt EXCEPT ![s] = now]
        /\ running' = [running EXCEPT ![t] = Append(running[t], s)]
        /\ stmt[s].at = "new" /\ MayUse(t, c) /\ MayBe(i)
    BY DEF Before
  <1>3. made \in SegmentType
    <2>1. Parent(t) \in Stmts \cup {None}
      <3>1. CASE stack[t] = <<>>
        BY <3>1 DEF Parent
      <3>2. CASE stack[t] # <<>>
        BY <1>0, <3>2, FrontFacts DEF Parent
      <3> QED
        BY <3>1, <3>2
    <2> QED
      BY <1>0, <2>1 DEF SegmentType
  <1>4. \/ UNCHANGED <<segment, token, stack, info>>
        \/ /\ segment' = [segment EXCEPT ![s] = made]
           /\ token' = [token EXCEPT ![s] = stack[t]]
           /\ stack' = [stack EXCEPT ![t] = Append(stack[t], s)]
           /\ info' = [info EXCEPT ![c] = Append(info[c], [stmt |-> s, ident |-> i])]
    BY DEF Before
  <1>5. /\ now.at = "running" /\ now.task = t /\ now.conn = c /\ now.ident = i
    OBVIOUS
  <1> HIDE DEF now, made
  <1>6. /\ stmt' \in [Stmts -> StmtType] /\ stmt'[s] = now
        /\ \A r \in Stmts \ {s} : stmt'[r] = stmt[r]
    BY <1>0, <1>1, <1>2
  <1>7. /\ running' \in [Tasks -> Seq(Stmts)]
        /\ running'[t] = Append(running[t], s)
        /\ \A u \in Tasks \ {t} : running'[u] = running[u]
    BY <1>0, <1>2
  <1>8. TypeOK'
    <2>1. segment' \in [Stmts -> SegmentType] /\ token' \in [Stmts -> Seq(Stmts)]
      BY <1>0, <1>3, <1>4
    <2>2. stack' \in [Tasks -> Seq(Stmts)]
      <3>1. Append(stack[t], s) \in Seq(Stmts)
        BY <1>0
      <3> QED
        BY <1>0, <1>4, <3>1
    <2>3. info' \in [Conns -> Seq([stmt : Stmts, ident : Idents])]
      <3>1. [stmt |-> s, ident |-> i] \in [stmt : Stmts, ident : Idents]
        OBVIOUS
      <3>2. Append(info[c], [stmt |-> s, ident |-> i])
              \in Seq([stmt : Stmts, ident : Idents])
        BY <1>0, <3>1, AppendFacts
      <3> QED
        BY <1>0, <1>4, <3>2
    <2> QED
      BY <1>6, <1>7, <2>1, <2>2, <2>3 DEF BaseInv, TypeOK, Before
  <1>9. s \notin Elements(running[t])
    BY <1>0, <1>2 DEF Inside
  <1>10. /\ Elements(running'[t]) = Elements(running[t]) \cup {s}
         /\ Injective(running'[t])
    BY <1>0, <1>7, <1>9, AppendElements, AppendOnce DEF Inside
  <1>11. Inside'
    <2>1. ASSUME NEW u \in Tasks, NEW r \in Elements(running'[u])
          PROVE  stmt'[r].at = "running" /\ stmt'[r].task = u
      <3>1. CASE r = s /\ u = t
        BY <3>1, <1>5, <1>6
      <3>2. CASE r \in Elements(running[u])
        <4>1. r \in Stmts /\ stmt[r].at = "running" /\ stmt[r].task = u
          BY <3>2, <1>0 DEF Inside, Elements
        <4> QED
          BY <4>1, <1>2, <1>6
      <3> QED
        BY <2>1, <3>1, <3>2, <1>7, <1>10
    <2>2. ASSUME NEW r \in Stmts, stmt'[r].at = "running"
          PROVE  r \in Elements(running'[stmt'[r].task])
      <3>1. CASE r = s
        BY <3>1, <1>5, <1>6, <1>10
      <3>2. CASE r # s
        <4>1. r \in Elements(running[stmt[r].task]) /\ stmt[r].task \in Tasks
          BY <2>2, <3>2, <1>0, <1>6 DEF Inside, Known
        <4> QED
          BY <3>2, <4>1, <1>6, <1>7, <1>10
      <3> QED
        BY <3>1, <3>2
    <2>3. \A r \in Stmts : stmt'[r].at # "new" => Known(r)'
      BY <1>0, <1>5, <1>6 DEF Inside, Known
    <2>4. \A r \in Stmts : stmt'[r].at = "new" => ~Traced(r)'
      BY ZenonT(40), <1>0, <1>4, <1>5, <1>6 DEF Inside, Traced
    <2>5. \A u \in Tasks : Injective(running'[u])
      BY <1>0, <1>7, <1>10 DEF Inside
    <2> QED
      BY <2>1, <2>2, <2>3, <2>4, <2>5 DEF Inside
  <1>12. Apart'
    <2>1. \A r \in Stmts \ {s} : stmt[r].at = "running" /\ stmt[r].conn = c => stmt[r].task = t
      BY <1>2 DEF MayUse
    <2>2. \A r \in Stmts \ {s} : stmt[r].ident = i => stmt[r].at = "ended"
      BY <1>2 DEF MayBe
    <2>3. ASSUME NEW p \in Stmts, NEW r \in Stmts, stmt'[p].at = "running",
                 stmt'[r].at = "running", stmt'[p].conn = stmt'[r].conn
          PROVE  stmt'[p].task = stmt'[r].task
      <3>1. CASE p = s \/ r = s
        BY <2>1, <2>3, <3>1, <1>5, <1>6
      <3>2. CASE p # s /\ r # s
        BY <2>3, <3>2, <1>0, <1>6 DEF Apart
      <3> QED
        BY <3>1, <3>2
    <2>4. ASSUME NEW p \in Stmts, NEW r \in Stmts, stmt'[p].at \in {"running", "executed"},
                 stmt'[r].at \in {"running", "executed"}, stmt'[p].ident = stmt'[r].ident
          PROVE  p = r
      <3>1. CASE p = s \/ r = s
        BY <2>2, <2>4, <3>1, <1>5, <1>6
      <3>2. CASE p # s /\ r # s
        BY <2>4, <3>2, <1>0, <1>6 DEF Apart
      <3> QED
        BY <3>1, <3>2
    <2> QED
      BY <2>3, <2>4 DEF Apart
  <1> QED
    BY <1>8, <1>11, <1>12 DEF BaseInv
\* The steps of Next, with the two ways in which a statement ends as one.
LEMMA NextCases ==
    ASSUME Next
    PROVE  \/ \E t \in Tasks, r \in Requests : Enter(t, r)
           \/ \E t \in Tasks : Finalize(t) \/ Reset(t)
           \/ \E t \in Tasks, s \in Stmts, c \in Conns, i \in Idents, internal \in BOOLEAN :
                 Before(t, s, c, i, internal)
           \/ \E t \in Tasks, s \in Stmts, status \in {"ok", "error"},
                 place \in {"executed", "ended"} : Leaves(t, s, status, place)
           \/ \E t \in Tasks, s \in Stmts : FetchFails(t, s)
           \/ \E s \in Stmts : Consumed(s)
           \/ Listen
  <1>1. ASSUME NEW t \in Tasks, NEW s \in Stmts, After(t, s)
        PROVE  Leaves(t, s, "ok", "executed")
    <2>1. Heard(t, stmt[s].conn, stmt[s].ident, "ok")
      BY <1>1, CountAssumption DEF After, Heard
    <2> QED
      BY <1>1, <2>1 DEF After, Leaves
  <1>2. ASSUME NEW t \in Tasks, NEW s \in Stmts, Fails(t, s)
        PROVE  Leaves(t, s, "error", "ended")
    <2>1. Heard(t, stmt[s].conn, stmt[s].ident, "error")
      BY <1>2 DEF Fails, Heard
    <2> QED
      BY <1>2, <2>1 DEF Fails, Leaves
  <1> QED
    BY <1>1, <1>2 DEF Next, Execute

\* BaseInv is inductive.
LEMMA BaseStep ==
    ASSUME BaseInv, [Next]_vars
    PROVE  BaseInv'
  <1>1. CASE UNCHANGED vars
    BY ZenonT(40), <1>1 DEF vars, BaseInv, TypeOK, Inside, Apart, Known, Traced
  <1>2. ASSUME NEW t \in Tasks, NEW r \in Requests, Enter(t, r)
        PROVE  BaseInv'
    <2>1. TypeOK'
      BY <1>2 DEF BaseInv, TypeOK, Enter
    <2>2. Inside' /\ Apart'
      BY <1>2 DEF BaseInv, Inside, Apart, Known, Traced, Enter
    <2> QED
      BY <2>1, <2>2 DEF BaseInv
  <1>3. ASSUME NEW t \in Tasks, Finalize(t) \/ Reset(t)
        PROVE  BaseInv'
    <2>1. TypeOK'
      BY <1>3 DEF BaseInv, TypeOK, Finalize, Reset
    <2>2. Inside' /\ Apart'
      BY <1>3 DEF BaseInv, Inside, Apart, Known, Traced, Finalize, Reset
    <2> QED
      BY <2>1, <2>2 DEF BaseInv
  <1>4. ASSUME NEW s \in Stmts, Consumed(s)
        PROVE  BaseInv'
    <2>1. stmt \in [Stmts -> StmtType] /\ stmt[s].at = "executed"
      BY <1>4 DEF BaseInv, TypeOK, Consumed
    <2> DEFINE now == [stmt[s] EXCEPT !.at = "ended"]
    <2>2. /\ now \in StmtType /\ now.at = "ended" /\ now.task = stmt[s].task
          /\ now.conn = stmt[s].conn /\ now.ident = stmt[s].ident
      BY <2>1 DEF StmtType
    <2>3. stmt' = [stmt EXCEPT ![s] = now]
      BY <1>4, <2>1 DEF Consumed
    <2> HIDE DEF now
    <2>4. /\ stmt' \in [Stmts -> StmtType]
          /\ \A r \in Stmts : /\ stmt'[r].conn = stmt[r].conn
                              /\ stmt'[r].ident = stmt[r].ident
                              /\ stmt'[r].task = stmt[r].task
                              /\ stmt'[r].at = "running" <=> stmt[r].at = "running"
                              /\ stmt'[r].at = "new" <=> stmt[r].at = "new"
                              /\ stmt'[r].at = "executed" => stmt[r].at = "executed"
      BY <2>1, <2>2, <2>3
    <2>5. running' = running /\ segment' = segment
      BY <1>4 DEF Consumed
    <2>6. TypeOK'
      BY <1>4, <2>4 DEF BaseInv, TypeOK, Consumed
    <2>7. \A u \in Tasks : \A r \in Elements(running[u]) : r \in Stmts
      BY DEF BaseInv, TypeOK, Elements
    <2>8. Inside'
      BY <2>4, <2>5, <2>7 DEF BaseInv, Inside, Known, Traced
    <2>9. Apart'
      BY <2>4 DEF BaseInv, Apart
    <2> QED
      BY <2>6, <2>8, <2>9 DEF BaseInv
  <1>5. CASE Listen
    <2>1. TypeOK'
      BY <1>5 DEF BaseInv, TypeOK, Listen
    <2>2. Inside' /\ Apart'
      BY <1>5 DEF BaseInv, Inside, Apart, Known, Traced, Listen
    <2> QED
      BY <2>1, <2>2 DEF BaseInv
  <1> QED
    BY <1>1, <1>2, <1>3, <1>4, <1>5, NextCases, BeforeBase, LeavesBase, FetchBase

\* BaseInv holds initially.
LEMMA BaseInit == Init => BaseInv
  <1> SUFFICES ASSUME Init PROVE BaseInv
    OBVIOUS
  <1>1. TypeOK
    BY DEF Init, TypeOK, StmtType, SegmentType, NoSegment
  <1>2. \A t \in Tasks : Elements(running[t]) = {} /\ Injective(running[t])
    BY DEF Init, Elements, Injective
  <1>3. \A s \in Stmts : stmt[s].at = "new" /\ ~Traced(s)
    BY DEF Init, Traced, NoSegment
  <1> QED
    BY <1>1, <1>2, <1>3 DEF BaseInv, Inside, Apart

(***************************************************************************)
(* Type correctness: every variable keeps its type.                        *)
(***************************************************************************)
THEOREM SqlTypes == Spec => []TypeOK
  <1>1. BaseInv => TypeOK
    BY DEF BaseInv
  <1> QED
    BY <1>1, BaseInit, BaseStep, PTL DEF Spec

\* A statement whose end is awaited: begun, its segment untouched since.
Awaited(s) == /\ s \in Stmts /\ stmt[s].at # "new"
              /\ segment[s].status = "incomplete" /\ ~segment[s].counted

\* Every entry on a connection is of a statement whose end is awaited, and of
\* another one than any other entry.
Waiting ==
    /\ \A c \in Conns : \A k \in DOMAIN info[c] : Awaited(info[c][k].stmt)
    /\ \A c, d \in Conns : \A k \in DOMAIN info[c], m \in DOMAIN info[d] :
          info[c][k].stmt = info[d][m].stmt => c = d /\ k = m

WaitInv == BaseInv /\ Waiting

\* Entries that remain, of statements that are as they were, go on waiting.
LEMMA WaitRests ==
    ASSUME Waiting,
           \A c \in Conns : \A k \in DOMAIN info'[c] :
              /\ k \in DOMAIN info[c] /\ info'[c][k] = info[c][k]
              /\ segment'[info[c][k].stmt] = segment[info[c][k].stmt],
           \A s \in Stmts : stmt'[s].at = "new" => stmt[s].at = "new"
    PROVE  Waiting'
  BY DEF Waiting, Awaited

\* The end of a statement takes an entry away, and ends no other one's segment.
LEMMA EndsWaiting ==
    ASSUME WaitInv, NEW t \in Tasks, NEW c \in Conns, NEW i \in Idents,
           NEW status \in {"ok", "error"}, Heard(t, c, i, status),
           \A s \in Stmts : stmt'[s].at = "new" => stmt[s].at = "new"
    PROVE  Waiting'
  <1>0. /\ BaseInv /\ Waiting /\ segment \in [Stmts -> SegmentType]
        /\ info \in [Conns -> Seq([stmt : Stmts, ident : Idents])]
    BY DEF WaitInv, BaseInv, TypeOK
  <1>1. CASE UNCHANGED <<info, segment, stack>>
    BY <1>0, <1>1, WaitRests
  <1> DEFINE s == Last(info[c]).stmt
  <1>2. CASE /\ info[c] # <<>> /\ s \in Stmts
             /\ info' = [info EXCEPT ![c] = Front(info[c])]
             /\ \A r \in Stmts \ {s} : segment'[r] = segment[r]
    <2>0. info[c] \in Seq([stmt : Stmts, ident : Idents]) /\ info[c] # <<>>
      BY <1>0, <1>2
    <2>1. /\ Len(info[c]) \in DOMAIN info[c] /\ DOMAIN info[c] = 1 .. Len(info[c])
          /\ Len(info[c]) \in Nat /\ info[c][Len(info[c])].stmt = s
          /\ DOMAIN Front(info[c]) = 1 .. Len(info[c]) - 1
          /\ \A k \in 1 .. Len(info[c]) - 1 : Front(info[c])[k] = info[c][k]
      <3>1. /\ Len(info[c]) \in Nat \ {0} /\ DOMAIN info[c] = 1 .. Len(info[c])
            /\ Last(info[c]) = info[c][Len(info[c])]
            /\ DOMAIN Front(info[c]) = 1 .. Len(info[c]) - 1
            /\ \A k \in 1 .. Len(info[c]) - 1 : Front(info[c])[k] = info[c][k]
        BY ZenonT(40), <2>0, TopEntry
      <3> QED
        BY <3>1
    <2> HIDE DEF s
    <2>2. /\ info'[c] = Front(info[c])
          /\ \A d \in Conns \ {c} : info'[d] = info[d]
      BY <1>0, <1>2
    <2> SUFFICES ASSUME NEW d \in Conns, NEW k \in DOMAIN info'[d]
                 PROVE  /\ k \in DOMAIN info[d] /\ info'[d][k] = info[d][k]
                        /\ segment'[info[d][k].stmt] = segment[info[d][k].stmt]
      BY <1>0, WaitRests
    <2>3. k \in DOMAIN info[d] /\ info'[d][k] = info[d][k]
      BY <2>1, <2>2
    <2>4. ~(d = c /\ k = Len(info[c]))
      BY <2>1, <2>2
    <2>5. info[d][k].stmt \in Stmts /\ info[d][k].stmt # s
      BY <1>0, <2>1, <2>3, <2>4 DEF Waiting, Awaited
    <2> QED
      BY <1>2, <2>3, <2>5
  <1> QED
    BY <1>0, <1>1, <1>2, EndsEntry

\* The beginning of a statement adds an entry of its own, if any.
LEMMA BeforeWaiting ==
    ASSUME WaitInv, NEW t \in Tasks, NEW s \in Stmts, NEW c \in Conns, NEW i \in Idents,
           NEW internal \in BOOLEAN, Before(t, s, c, i, internal)
    PROVE  Waiting'
  <1>0. /\ Waiting /\ segment \in [Stmts -> SegmentType] /\ stmt \in [Stmts -> StmtType]
        /\ info \in [Conns -> Seq([stmt : Stmts, ident : Idents])]
    BY DEF WaitInv, BaseInv, TypeOK
  <1>1. /\ stmt[s].at = "new" /\ stmt'[s].at = "running"
        /\ \A r \in Stmts \ {s} : stmt'[r] = stmt[r]
    BY <1>0 DEF Before
  <1>2. CASE UNCHANGED <<info, segment>>
    BY <1>0, <1>1, <1>2, WaitRests
  <1> DEFINE x == [stmt |-> s, ident |-> i]
  <1>3. CASE /\ info' = [info EXCEPT ![c] = Append(info[c], x)]
             /\ segment' = [segment EXCEPT ![s] =
                   [request |-> req[t], parent |-> Parent(t), status |-> "incomplete",
                    counted |-> FALSE]]
    <2>1. /\ segment'[s].status = "incomplete" /\ ~segment'[s].counted
          /\ \A r \in Stmts \ {s} : segment'[r] = segment[r]
      BY <1>0, <1>3
    <2>2. x \in [stmt : Stmts, ident : Idents] /\ x.stmt = s
      OBVIOUS
    <2> HIDE DEF x
    <2>3. /\ Len(info[c]) \in Nat /\ DOMAIN info[c] = 1 .. Len(info[c])
          /\ DOMAIN Append(info[c], x) = 1 .. Len(info[c]) + 1
          /\ \A k \in 1 .. Len(info[c]) : Append(info[c], x)[k] = info[c][k]
          /\ Append(info[c], x)[Len(info[c]) + 1] = x
      BY <1>0, <2>2, AppendFacts
    <2>4. /\ info'[c] = Append(info[c], x)
          /\ \A d \in Conns \ {c} : info'[d] = info[d]
      BY <1>0, <1>3
    <2>5. \A d \in Conns : \A k \in DOMAIN info'[d] :
             \/ k \in DOMAIN info[d] /\ info'[d][k] = info[d][k]
             \/ d = c /\ k = Len(info[c]) + 1 /\ info'[d][k].stmt = s
      BY <2>2, <2>3, <2>4
    <2>6. \A d \in Conns : \A k \in DOMAIN info[d] :
             Awaited(info[d][k].stmt) /\ info[d][k].stmt # s
      BY <1>0, <1>1 DEF Waiting, Awaited
    <2> DEFINE Waits(r) == /\ r \in Stmts /\ stmt'[r].at # "new"
                           /\ segment'[r].status = "incomplete" /\ ~segment'[r].counted
    <2>7. Waits(s) /\ \A r : Awaited(r) /\ r # s => Waits(r)
      BY <1>1, <2>1 DEF Awaited
    <2> HIDE DEF Waits
    <2>8. \A d \in Conns : \A k \in DOMAIN info'[d] : Waits(info'[d][k].stmt)
      <3> SUFFICES ASSUME NEW d \in Conns, NEW k \in DOMAIN info'[d]
                   PROVE  Waits(info'[d][k].stmt)
        OBVIOUS
      <3>1. CASE k \in DOMAIN info[d] /\ info'[d][k] = info[d][k]
        BY <2>6, <2>7, <3>1
      <3>2. CASE info'[d][k].stmt = s
        BY <2>7, <3>2
      <3> QED
        BY <2>5, <3>1, <3>2
    <2>9. \A d, e \in Conns : \A k \in DOMAIN info'[d], m \in DOMAIN info'[e] :
             info'[d][k].stmt = info'[e][m].stmt => d = e /\ k = m
      <3> SUFFICES ASSUME NEW d \in Conns, NEW e \in Conns, NEW k \in DOMAIN info'[d],
                          NEW m \in DOMAIN info'[e], info'[d][k].stmt = info'[e][m].stmt
                   PROVE  d = e /\ k = m
        OBVIOUS
      <3>1. CASE /\ k \in DOMAIN info[d] /\ info'[d][k] = info[d][k]
                 /\ m \in DOMAIN info[e] /\ info'[e][m] = info[e][m]
        BY <1>0, <3>1 DEF Waiting
      <3>2. CASE info'[d][k].stmt = s /\ info'[e][m].stmt = s
        BY <2>5, <2>6, <3>2
      <3> QED
        BY <2>5, <2>6, <3>1, <3>2
    <2> QED
      BY <2>8, <2>9 DEF Waiting, Awaited, Waits
  <1> HIDE DEF x
  <1> QED
    BY <1>2, <1>3 DEF Before, x

\* WaitInv is inductive.
LEMMA WaitStep ==
    ASSUME WaitInv, [Next]_vars
    PROVE  WaitInv'
  <1>1. BaseInv /\ BaseInv' /\ Waiting
    BY BaseStep DEF WaitInv
  <1>2. CASE UNCHANGED <<info, segment, stmt>>
    BY <1>1, <1>2, WaitRests DEF WaitInv
  <1>3. ASSUME NEW t \in Tasks, NEW s \in Stmts, NEW status \in {"ok", "error"},
               NEW place \in {"executed", "ended"}, Leaves(t, s, status, place)
        PROVE  Waiting'
    <2>1. /\ s \in Stmts /\ Known(s) /\ stmt'[s].at = place
          /\ \A r \in Stmts \ {s} : stmt'[r] = stmt[r]
      BY <1>1, <1>3, LeavesStatements
    <2>2. Heard(t, stmt[s].conn, stmt[s].ident, status)
      BY <1>3 DEF Leaves
    <2> QED
      BY <2>1, <2>2, EndsWaiting DEF Known
  <1>4. ASSUME NEW t \in Tasks, NEW s \in Stmts, FetchFails(t, s)
        PROVE  Waiting'
    <2>1. Known(s) /\ stmt \in [Stmts -> StmtType]
      BY <1>1, <1>4 DEF FetchFails, BaseInv, Inside, TypeOK
    <2>2. Heard(t, stmt[s].conn, stmt[s].ident, "error")
      BY <1>4, FetchHeard
    <2>3. \A r \in Stmts : stmt'[r].at = "new" => stmt[r].at = "new"
      BY <1>4, <2>1 DEF FetchFails, StmtType
    <2> QED
      BY <2>1, <2>2, <2>3, EndsWaiting DEF Known
  <1>5. ASSUME NEW s \in Stmts, Consumed(s)
        PROVE  Waiting'
    <2>1. \A r \in Stmts : stmt'[r].at = "new" => stmt[r].at = "new"
      BY <1>1, <1>5 DEF Consumed, BaseInv, TypeOK, StmtType
    <2> QED
      BY <1>1, <1>5, <2>1, WaitRests DEF Consumed
  <1>6. CASE Next
    <2>1. CASE \E t \in Tasks, r \in Requests : Enter(t, r)
      BY <1>2, <2>1 DEF Enter
    <2>2. CASE \E t \in Tasks : Finalize(t) \/ Reset(t)
      BY <1>2, <2>2 DEF Finalize, Reset
    <2>3. CASE Listen
      BY <1>2, <2>3 DEF Listen
    <2> QED
      BY <1>1, <1>3, <1>4, <1>5, <1>6, <2>1, <2>2, <2>3, NextCases, BeforeWaiting
         DEF WaitInv
  <1> QED
    BY <1>2, <1>6 DEF vars

\* What a step may do to segments.
Late ==
    \A s \in Stmts : segment[s].request \in finalized =>
        \/ segment'[s] = segment[s]
        \/ /\ segment[s].status = "incomplete" /\ ~segment[s].counted
           /\ segment'[s] = [segment[s] EXCEPT !.counted = TRUE]

(***************************************************************************)
(* finish_segment and its ValueError: once the collector of a request is   *)
(* finalized, no event of a statement that still runs or is half read, nor *)
(* a stale entry on a connection, ends a segment of the request or changes *)
(* one that has ended; one that was left incomplete gets the row count of  *)
(* a late after_cursor_execute, once at most.                              *)
(***************************************************************************)
THEOREM FinalIsFinal == Spec => LateEventsIgnored
  <1>1. ASSUME WaitInv, [Next]_vars
        PROVE  Late
    <2>0. /\ None \notin finalized /\ segment \in [Stmts -> SegmentType]
          /\ info \in [Conns -> Seq([stmt : Stmts, ident : Idents])]
          /\ BaseInv /\ Waiting
      BY <1>1, NameAssumption DEF WaitInv, BaseInv, TypeOK
    <2>1. CASE segment' = segment
      BY <2>1 DEF Late
    <2>2. ASSUME NEW t \in Tasks, NEW s \in Stmts, NEW c \in Conns, NEW i \in Idents,
                 NEW internal \in BOOLEAN, Before(t, s, c, i, internal)
          PROVE  Late
      <3>1. segment[s].request = None
        BY <2>0, <2>2 DEF Before, BaseInv, Inside, Traced
      <3>2. \A r \in Stmts \ {s} : segment'[r] = segment[r]
        BY <2>0, <2>2 DEF Before
      <3> QED
        BY <2>0, <3>1, <3>2 DEF Late
    <2>3. ASSUME NEW t \in Tasks, NEW c \in Conns, NEW i \in Idents,
                 NEW status \in {"ok", "error"}, Heard(t, c, i, status)
          PROVE  Late
      <3> DEFINE s == Last(info[c]).stmt
      <3>1. CASE UNCHANGED <<info, segment, stack>>
        BY <2>1, <3>1
      <3>2. ASSUME info[c] # <<>>, s \in Stmts, NEW counts \in BOOLEAN,
                   segment' = [segment EXCEPT ![s] = EndedSegment(s, status, counts)]
            PROVE  Late
        <4>0. info[c] \in Seq([stmt : Stmts, ident : Idents]) /\ info[c] # <<>>
          BY <2>0, <3>2
        <4>1. Len(info[c]) \in DOMAIN info[c] /\ info[c][Len(info[c])].stmt = s
          <5>1. /\ Len(info[c]) \in Nat \ {0} /\ DOMAIN info[c] = 1 .. Len(info[c])
                /\ Last(info[c]) = info[c][Len(info[c])]
                /\ DOMAIN Front(info[c]) = 1 .. Len(info[c]) - 1
                /\ \A k \in 1 .. Len(info[c]) - 1 : Front(info[c])[k] = info[c][k]
            BY ZenonT(40), <4>0, TopEntry
          <5> QED
            BY <5>1
        <4>2. segment[s].status = "incomplete" /\ ~segment[s].counted
          BY <2>0, <4>1 DEF Waiting, Awaited
        <4> HIDE DEF s
        <4>3. /\ segment'[s] = EndedSegment(s, status, counts)
              /\ \A r \in Stmts \ {s} : segment'[r] = segment[r]
          BY <2>0, <3>2
        <4>4. segment[s].request \in finalized =>
                 \/ segment'[s] = segment[s]
                 \/ segment'[s] = [segment[s] EXCEPT !.counted = TRUE]
          BY <2>0, <3>2, <4>2, <4>3, EndedFacts DEF Finishes
        <4> QED
          BY <3>2, <4>2, <4>3, <4>4 DEF Late
      <3> QED
        BY <2>0, <2>3, <3>1, <3>2, EndsEntry
    <2>4. ASSUME NEW t \in Tasks, NEW s \in Stmts, NEW status \in {"ok", "error"},
                 NEW place \in {"executed", "ended"}, Leaves(t, s, status, place)
          PROVE  Late
      <3>1. Known(s)
        BY <2>0, <2>4, LeavesStatements
      <3> QED
        BY <2>3, <2>4, <3>1 DEF Leaves, Known
    <2>5. ASSUME NEW t \in Tasks, NEW s \in Stmts, FetchFails(t, s)
          PROVE  Late
      <3>1. Known(s)
        BY <2>0, <2>5 DEF FetchFails, BaseInv, Inside
      <3> QED
        BY <2>3, <2>5, <3>1, FetchHeard DEF Known
    <2>6. CASE Next
      BY <2>1, <2>2, <2>4, <2>5, <2>6, NextCases
         DEF Enter, Finalize, Reset, Consumed, Listen
    <2> QED
      BY <1>1, <2>1, <2>6 DEF vars
  <1>2. WaitInv /\ [Next]_vars => Late
    BY <1>1
  <1>3. Init => WaitInv
    BY BaseInit DEF Init, WaitInv, Waiting
  <1>4. WaitInv /\ [Next]_vars => WaitInv'
    BY WaitStep
  <1> QED
    BY <1>2, <1>3, <1>4, PTL DEF Spec, LateEventsIgnored, Late
-----------------------------------------------------------------------------
(* Stacks, segments and statements, while the listeners stay. *)

\* The stack of a task has the traced statements it is inside of in their order,
\* and the token of each restores what is below it.
Stacked ==
    \A t \in Tasks :
        /\ \A s : s \in Elements(stack[t]) <=> s \in Elements(running[t]) /\ Traced(s)
        /\ InOrder(stack[t], running[t])
        /\ \A k \in DOMAIN stack[t] :
              /\ Len(token[stack[t][k]]) = k - 1
              /\ \A m \in 1 .. k - 1 : token[stack[t][k]][m] = stack[t][m]

\* The stack of a connection has the traced statements that run on it, in the
\* order of the task that is inside of them, with their ids.
Queued ==
    \A c \in Conns :
        /\ \A s \in Stmts : s \in Elements(StmtsOf(info[c]))
              <=> stmt[s].at = "running" /\ stmt[s].conn = c /\ Traced(s)
        /\ \A k \in DOMAIN info[c] : info[c][k].ident = stmt[info[c][k].stmt].ident
        /\ \A t \in Tasks : Elements(StmtsOf(info[c])) \subseteq Elements(running[t])
              => InOrder(StmtsOf(info[c]), running[t])

\* What runs has no outcome yet, and if it is traced its end will be heard.
Unended ==
    \A s \in Stmts :
        /\ stmt[s].at = "running" /\ Traced(s) => listening
        /\ stmt[s].at \in {"new", "running"}
              => segment[s].status = "incomplete" /\ ~segment[s].counted

Outcomes ==
    \A s \in Stmts :
        /\ segment[s].status # "incomplete" => segment[s].status \in stmt[s].results
        /\ segment[s].counted => segment[s].status # "error" /\ "ok" \in stmt[s].results

SteadyInv == Stacked /\ Queued /\ Unended /\ Outcomes

StoryInv == BaseInv /\ (steady => SteadyInv)

Entries == Seq([stmt : Stmts, ident : Idents])

\* The statements of entries are a sequence as long as they are.
LEMMA EntryFacts ==
    ASSUME NEW q \in Entries
    PROVE  /\ StmtsOf(q) \in Seq(Stmts) /\ Len(StmtsOf(q)) = Len(q)
           /\ DOMAIN StmtsOf(q) = DOMAIN q
           /\ \A k \in DOMAIN q : StmtsOf(q)[k] = q[k].stmt
           /\ q # <<>> => StmtsOf(q) # <<>> /\ Last(StmtsOf(q)) = Last(q).stmt
  <1>1. /\ Len(q) \in Nat /\ DOMAIN q = 1 .. Len(q)
        /\ \A k \in DOMAIN q : q[k].stmt \in Stmts
    <2>1. Len(q) \in Nat /\ DOMAIN q = 1 .. Len(q)
      BY DEF Entries
    <2>2. \A k \in DOMAIN q : q[k] \in [stmt : Stmts, ident : Idents]
      BY <2>1, ElementOfSeq DEF Entries
    <2> QED
      BY <2>1, <2>2
  <1>2. StmtsOf(q) = [k \in 1 .. Len(q) |-> q[k].stmt]
    BY <1>1 DEF StmtsOf
  <1>3. StmtsOf(q) \in Seq(Stmts) /\ Len(StmtsOf(q)) = Len(q)
        /\ DOMAIN StmtsOf(q) = DOMAIN q
        /\ \A k \in DOMAIN q : StmtsOf(q)[k] = q[k].stmt
    BY <1>1, <1>2
  <1>4. ASSUME q # <<>>
        PROVE  StmtsOf(q) # <<>> /\ Last(StmtsOf(q)) = Last(q).stmt
    <2>1. Len(q) \in DOMAIN q /\ StmtsOf(q) # <<>>
      BY <1>1, <1>3, <1>4 DEF Entries
    <2> QED
      BY <1>3, <2>1 DEF Last
  <1> QED
    BY <1>3, <1>4

\* Dropping the last entry drops the last statement.
LEMMA EntriesFront ==
    ASSUME NEW q \in Entries, q # <<>>
    PROVE  StmtsOf(Front(q)) = Front(StmtsOf(q))
  <1>1. /\ Len(q) \in Nat \ {0} /\ DOMAIN q = 1 .. Len(q)
        /\ Front(q) \in Entries /\ DOMAIN Front(q) = 1 .. Len(q) - 1
        /\ \A k \in 1 .. Len(q) - 1 : Front(q)[k] = q[k]
    BY FrontFacts DEF Entries
  <1>2. /\ StmtsOf(q) \in Seq(Stmts) /\ StmtsOf(q) # <<>> /\ Len(StmtsOf(q)) = Len(q)
        /\ \A k \in DOMAIN q : StmtsOf(q)[k] = q[k].stmt
    BY EntryFacts
  <1>3. /\ DOMAIN Front(StmtsOf(q)) = 1 .. Len(q) - 1
        /\ \A k \in 1 .. Len(q) - 1 : Front(StmtsOf(q))[k] = q[k].stmt
    <2>1. /\ DOMAIN Front(StmtsOf(q)) = 1 .. Len(q) - 1
          /\ \A k \in 1 .. Len(q) - 1 : Front(StmtsOf(q))[k] = StmtsOf(q)[k]
      BY <1>2, FrontFacts
    <2> QED
      BY <1>1, <1>2, <2>1
  <1>4. /\ DOMAIN StmtsOf(Front(q)) = 1 .. Len(q) - 1
        /\ \A k \in 1 .. Len(q) - 1 : StmtsOf(Front(q))[k] = q[k].stmt
    BY <1>1, EntryFacts
  <1>5. Front(StmtsOf(q)) = [k \in 1 .. Len(q) - 1 |-> Front(StmtsOf(q))[k]]
    BY <1>2, <1>3, FrontFacts
  <1>6. StmtsOf(Front(q)) = [k \in 1 .. Len(q) - 1 |-> StmtsOf(Front(q))[k]]
    BY <1>4 DEF StmtsOf
  <1> QED
    BY <1>3, <1>4, <1>5, <1>6

\* Appending an entry appends its statement.
LEMMA EntriesAppend ==
    ASSUME NEW q \in Entries, NEW s \in Stmts, NEW i \in Idents
    PROVE  StmtsOf(Append(q, [stmt |-> s, ident |-> i])) = Append(StmtsOf(q), s)
  <1> DEFINE x == [stmt |-> s, ident |-> i]
  <1>0. x \in [stmt : Stmts, ident : Idents] /\ x.stmt = s
    OBVIOUS
  <1> HIDE DEF x
  <1>1. /\ Len(q) \in Nat /\ DOMAIN q = 1 .. Len(q)
        /\ Append(q, x) \in Entries /\ DOMAIN Append(q, x) = 1 .. Len(q) + 1
        /\ \A k \in 1 .. Len(q) : Append(q, x)[k] = q[k]
        /\ Append(q, x)[Len(q) + 1] = x
    BY <1>0, AppendFacts DEF Entries
  <1>2. /\ StmtsOf(q) \in Seq(Stmts) /\ Len(StmtsOf(q)) = Len(q)
        /\ \A k \in DOMAIN q : StmtsOf(q)[k] = q[k].stmt
    BY EntryFacts
  <1>3. StmtsOf(Append(q, x)) = [k \in 1 .. Len(q) + 1 |-> IF k = Len(q) + 1 THEN s ELSE q[k].stmt]
    BY <1>0, <1>1 DEF StmtsOf
  <1>4. Append(StmtsOf(q), s) = [k \in 1 .. Len(q) + 1 |-> IF k = Len(q) + 1 THEN s ELSE q[k].stmt]
    <2> DEFINE w == StmtsOf(q)
    <2>1. w \in Seq(Stmts) /\ Len(w) = Len(q)
      BY <1>2
    <2>2. \A k \in 1 .. Len(q) : w[k] = q[k].stmt
      BY <1>1, <1>2
    <2> HIDE DEF w
    <2>3. /\ Append(w, s) \in Seq(Stmts) /\ DOMAIN Append(w, s) = 1 .. Len(q) + 1
          /\ \A k \in 1 .. Len(q) : Append(w, s)[k] = w[k]
          /\ Append(w, s)[Len(q) + 1] = s
      BY <2>1, AppendFacts
    <2>4. Append(w, s) = [k \in 1 .. Len(q) + 1 |-> Append(w, s)[k]]
      BY <2>3, LenProperties
    <2>5. \A k \in 1 .. Len(q) + 1 :
             Append(w, s)[k] = IF k = Len(q) + 1 THEN s ELSE q[k].stmt
      BY <1>1, <2>2, <2>3
    <2> QED
      BY <2>4, <2>5 DEF w
  <1> QED
    BY <1>3, <1>4 DEF x
\* A sequence without elements is in any order.
LEMMA EmptyInOrder == \A q, w : Elements(q) = {} => InOrder(q, w)
  BY DEF Elements, InOrder

\* Types of the stacks, in the form that the lemmas above are about.
LEMMA StackTypes ==
    ASSUME BaseInv
    PROVE  /\ \A t \in Tasks : /\ stack[t] \in Seq(Stmts) /\ running[t] \in Seq(Stmts)
                               /\ Injective(running[t])
           /\ \A c \in Conns : info[c] \in Entries /\ StmtsOf(info[c]) \in Seq(Stmts)
  <1>1. \A c \in Conns : info[c] \in Entries
    BY DEF BaseInv, TypeOK, Entries
  <1>2. \A c \in Conns : StmtsOf(info[c]) \in Seq(Stmts)
    BY <1>1, EntryFacts
  <1> QED
    BY <1>1, <1>2 DEF BaseInv, TypeOK, Inside

\* Whatever waits on a connection is what one task is inside of.
LEMMA OneTask ==
    ASSUME BaseInv, Queued, NEW c \in Conns, NEW s \in Stmts,
           stmt[s].at = "running", stmt[s].conn = c
    PROVE  Elements(StmtsOf(info[c])) \subseteq Elements(running[stmt[s].task])
  <1> SUFFICES ASSUME NEW r \in Elements(StmtsOf(info[c]))
               PROVE  r \in Elements(running[stmt[s].task])
    OBVIOUS
  <1>1. r \in Stmts
    BY StackTypes DEF Elements
  <1>2. stmt[r].at = "running" /\ stmt[r].conn = c
    BY <1>1 DEF Queued
  <1>3. stmt[r].task = stmt[s].task
    BY <1>1, <1>2 DEF BaseInv, Apart
  <1> QED
    BY <1>1, <1>2, <1>3 DEF BaseInv, Inside

\* The innermost statement of a task, if it is traced, is on top of the stacks
\* of the task and of its connection.
LEMMA OwnTop ==
    ASSUME BaseInv, SteadyInv, NEW t \in Tasks, NEW s, running[t] # <<>>,
           s = Last(running[t]), Traced(s)
    PROVE  /\ stack[t] # <<>> /\ Last(stack[t]) = s
           /\ info[stmt[s].conn] # <<>> /\ Last(info[stmt[s].conn]).stmt = s
           /\ listening /\ IsOwn(stmt[s].conn, stmt[s].ident)
  <1> DEFINE c == stmt[s].conn
             w == StmtsOf(info[c])
  <1>1. /\ s \in Stmts /\ s \in Elements(running[t])
        /\ stmt[s].at = "running" /\ stmt[s].task = t
    BY Innermost
  <1>2. c \in Conns
    BY <1>1 DEF BaseInv, Inside, Known
  <1>3. /\ stack[t] \in Seq(Stmts) /\ running[t] \in Seq(Stmts) /\ Injective(running[t])
        /\ info[c] \in Entries /\ w \in Seq(Stmts)
    BY <1>2, StackTypes
  <1>4. s \in Elements(stack[t]) /\ InOrder(stack[t], running[t])
    BY <1>1 DEF SteadyInv, Stacked
  <1>5. stack[t] # <<>> /\ Last(stack[t]) = s
    BY <1>3, <1>4, OrderLast
  <1>6. s \in Elements(w)
    BY <1>1, <1>2 DEF SteadyInv, Queued
  <1>7. InOrder(w, running[t])
    <2>1. Elements(w) \subseteq Elements(running[t])
      BY <1>1, <1>2, OneTask DEF SteadyInv
    <2> QED
      BY <1>2, <2>1 DEF SteadyInv, Queued
  <1>8. w # <<>> /\ Last(w) = s
    BY <1>3, <1>6, <1>7, OrderLast
  <1>9. info[c] # <<>>
    <2>1. info[c] = <<>> => DOMAIN w = {}
      BY DEF StmtsOf
    <2> QED
      BY <2>1, <1>6 DEF Elements
  <1>10. Last(info[c]).stmt = s
    BY <1>3, <1>8, <1>9, EntryFacts
  <1>11. Len(info[c]) \in DOMAIN info[c] /\ Last(info[c]) = info[c][Len(info[c])]
    BY <1>3, <1>9 DEF Entries, Last
  <1>12. Last(info[c]).ident = stmt[s].ident
    BY <1>2, <1>10, <1>11 DEF SteadyInv, Queued
  <1>13. listening
    BY <1>1 DEF SteadyInv, Unended
  <1> QED
    BY <1>5, <1>9, <1>10, <1>12, <1>13 DEF IsOwn

\* The end of a statement that waits on no connection takes no entry.
LEMMA NoTop ==
    ASSUME BaseInv, SteadyInv, NEW s \in Stmts,
           stmt[s].at \in {"running", "executed"},
           ~(stmt[s].at = "running" /\ Traced(s))
    PROVE  ~IsOwn(stmt[s].conn, stmt[s].ident)
  <1> DEFINE c == stmt[s].conn
  <1> SUFFICES ASSUME info[c] # <<>>, Last(info[c]).ident = stmt[s].ident
               PROVE  FALSE
    BY DEF IsOwn
  <1>1. c \in Conns
    BY DEF BaseInv, Inside, Known
  <1>2. info[c] \in Entries
    BY <1>1, StackTypes
  <1>3. Len(info[c]) \in DOMAIN info[c] /\ Last(info[c]) = info[c][Len(info[c])]
    BY <1>2 DEF Entries, Last
  <1> DEFINE r == Last(info[c]).stmt
  <1>4. r \in Elements(StmtsOf(info[c])) /\ r \in Stmts
    <2>1. DOMAIN StmtsOf(info[c]) = DOMAIN info[c]
          /\ StmtsOf(info[c]) \in Seq(Stmts)
          /\ StmtsOf(info[c])[Len(info[c])] = r
      BY <1>2, <1>3, EntryFacts
    <2>2. r \in Elements(StmtsOf(info[c]))
      BY <1>3, <2>1 DEF Elements
    <2> QED
      BY SMTT(30), <2>1, <2>2 DEF Elements
  <1>5. stmt[r].at = "running" /\ Traced(r)
    BY <1>1, <1>4 DEF SteadyInv, Queued
  <1>6. stmt[r].ident = stmt[s].ident
    BY <1>1, <1>3 DEF SteadyInv, Queued
  <1>7. r = s
    BY <1>4, <1>5, <1>6 DEF BaseInv, Apart
  <1> QED
    BY <1>5, <1>7

\* The end of the innermost statement, while the listeners stay, takes it from
\* the stacks if it is traced, and touches nothing if it is not.
LEMMA LeavesStacks ==
    ASSUME BaseInv, SteadyInv, NEW t \in Tasks, NEW s, NEW status \in {"ok", "error"},
           NEW place \in {"executed", "ended"}, Leaves(t, s, status, place)
    PROVE  IF Traced(s)
           THEN /\ stack' = [stack EXCEPT ![t] = Front(stack[t])]
                /\ info' = [info EXCEPT ![stmt[s].conn] = Front(info[stmt[s].conn])]
                /\ stack[t] # <<>> /\ Last(stack[t]) = s
                /\ info[stmt[s].conn] # <<>>
                /\ Last(StmtsOf(info[stmt[s].conn])) = s
                /\ \A r \in Stmts \ {s} : segment'[r] = segment[r]
                /\ segment'[s].status \in {segment[s].status, status}
                /\ segment'[s].counted => segment[s].counted \/ status = "ok"
           ELSE UNCHANGED <<stack, info, segment>>
  <1> DEFINE c == stmt[s].conn
  <1>1. /\ s \in Stmts /\ stmt[s].at = "running" /\ stmt[s].task = t /\ Known(s)
    BY LeavesStatements
  <1>a. PICK counts \in BOOLEAN : /\ counts => status = "ok"
                                 /\ Ends(t, c, stmt[s].ident, status, counts)
    BY DEF Leaves, Heard
  <1>2. /\ running[t] # <<>> /\ s = Last(running[t])
        /\ Ends(t, c, stmt[s].ident, status, counts)
    BY <1>a DEF Leaves
  <1>3. CASE ~Traced(s)
    BY <1>1, <1>2, <1>3, NoTop DEF Ends
  <1>4. CASE Traced(s)
    <2>1. /\ stack[t] # <<>> /\ Last(stack[t]) = s /\ info[c] # <<>>
          /\ Last(info[c]).stmt = s /\ listening /\ IsOwn(c, stmt[s].ident)
      BY <1>2, <1>4, OwnTop
    <2>2. /\ info' = [info EXCEPT ![c] = Front(info[c])]
          /\ segment' = [segment EXCEPT ![s] = EndedSegment(s, status, counts)]
          /\ stack' = Restored(t, s)
      BY <1>2, <2>1 DEF Ends
    <2>3. stack' = [stack EXCEPT ![t] = token[s]]
      BY <1>1, <2>2 DEF Restored
    <2>4. token[s] = Front(stack[t])
      <3>1. stack[t] \in Seq(Stmts) /\ token[s] \in Seq(Stmts)
        BY <1>1 DEF BaseInv, TypeOK
      <3>2. /\ Len(stack[t]) \in Nat \ {0} /\ DOMAIN stack[t] = 1 .. Len(stack[t])
            /\ stack[t][Len(stack[t])] = s
            /\ Front(stack[t]) \in Seq(Stmts)
            /\ Len(Front(stack[t])) = Len(stack[t]) - 1
            /\ \A k \in 1 .. Len(stack[t]) - 1 : Front(stack[t])[k] = stack[t][k]
        BY <2>1, <3>1, FrontFacts
      <3>3. /\ Len(token[s]) = Len(stack[t]) - 1
            /\ \A m \in 1 .. Len(stack[t]) - 1 : token[s][m] = stack[t][m]
        <4>1. \A k \in DOMAIN stack[t] :
                 /\ Len(token[stack[t][k]]) = k - 1
                 /\ \A m \in 1 .. k - 1 : token[stack[t][k]][m] = stack[t][m]
          BY DEF SteadyInv, Stacked
        <4>2. Len(stack[t]) \in DOMAIN stack[t]
          BY <3>2
        <4> QED
          BY <3>2, <4>1, <4>2
      <3>4. /\ Len(token[s]) = Len(Front(stack[t]))
            /\ \A m \in 1 .. Len(token[s]) : token[s][m] = Front(stack[t])[m]
        BY <3>2, <3>3
      <3> HIDE DEF Front
      <3>5. Front(stack[t]) \in Seq(Stmts) /\ token[s] \in Seq(Stmts)
        BY <3>1, <3>2
      <3> QED
        BY <3>4, <3>5, SameSequence
    <2>5. /\ \A r \in Stmts \ {s} : segment'[r] = segment[r]
          /\ segment'[s].status \in {segment[s].status, status}
          /\ segment'[s].counted => segment[s].counted \/ status = "ok"
      <3>1. segment \in [Stmts -> SegmentType]
        BY DEF BaseInv, TypeOK
      <3>2. /\ segment'[s] = EndedSegment(s, status, counts)
            /\ \A r \in Stmts \ {s} : segment'[r] = segment[r]
        BY <1>1, <2>2, <3>1
      <3> QED
        BY <1>1, <1>a, <3>1, <3>2, EndedFacts
    <2>6. Last(StmtsOf(info[c])) = s
      BY <1>1, <2>1, StackTypes, EntryFacts DEF Known
    <2> QED
      BY <1>4, <2>1, <2>2, <2>3, <2>4, <2>5, <2>6
  <1> QED
    BY <1>3, <1>4
\* It leaves who is traced as it was, and the task one statement less.
LEMMA LeavesFrame ==
    ASSUME BaseInv, NEW t \in Tasks, NEW s, NEW status \in {"ok", "error"},
           NEW place \in {"executed", "ended"}, Leaves(t, s, status, place)
    PROVE  /\ \A r \in Stmts : Traced(r)' <=> Traced(r)
           /\ running[t] # <<>> /\ s = Last(running[t])
           /\ running'[t] = Front(running[t])
           /\ \A r : r \in Elements(running'[t]) <=> r \in Elements(running[t]) /\ r # s
           /\ \A u \in Tasks \ {t} : running'[u] = running[u]
           /\ \A u \in Tasks : Elements(running[u]) \subseteq Stmts
           /\ UNCHANGED <<listening, steady, token>>
  <1>1. /\ s \in Stmts /\ Known(s) /\ running'[t] = Front(running[t])
        /\ \A u \in Tasks \ {t} : running'[u] = running[u]
    BY LeavesStatements
  <1>2. /\ running[t] # <<>> /\ s = Last(running[t])
        /\ Heard(t, stmt[s].conn, stmt[s].ident, status)
        /\ UNCHANGED <<listening, steady, token>>
    BY DEF Leaves
  <1>3. Elements(Front(running[t])) = Elements(running[t]) \ {s}
    BY <1>2, Innermost
  <1>4. \A r \in Stmts : segment'[r].request = segment[r].request
    BY <1>1, <1>2, EndsTypes DEF Known
  <1>5. \A u \in Tasks : Elements(running[u]) \subseteq Stmts
    BY StackTypes DEF Elements
  <1> QED
    BY <1>1, <1>2, <1>3, <1>4, <1>5 DEF Traced

\* It keeps the stacks of tasks.
LEMMA LeavesStacked ==
    ASSUME BaseInv, SteadyInv, NEW t \in Tasks, NEW s, NEW status \in {"ok", "error"},
           NEW place \in {"executed", "ended"}, Leaves(t, s, status, place)
    PROVE  Stacked'
  <1>0. /\ \A r \in Stmts : Traced(r)' <=> Traced(r)
        /\ running[t] # <<>> /\ s = Last(running[t])
        /\ running'[t] = Front(running[t])
        /\ \A r : r \in Elements(running'[t]) <=> r \in Elements(running[t]) /\ r # s
        /\ \A u \in Tasks \ {t} : running'[u] = running[u]
        /\ \A u \in Tasks : Elements(running[u]) \subseteq Stmts
        /\ token' = token
    BY LeavesFrame
  <1>1. stack \in [Tasks -> Seq(Stmts)]
    BY DEF BaseInv, TypeOK
  <1>2. Stacked
    BY DEF SteadyInv
  <1> SUFFICES ASSUME NEW u \in Tasks
               PROVE  /\ \A r : r \in Elements(stack'[u])
                                   <=> r \in Elements(running'[u]) /\ Traced(r)'
                      /\ InOrder(stack'[u], running'[u])
                      /\ \A k \in DOMAIN stack'[u] :
                            /\ Len(token'[stack'[u][k]]) = k - 1
                            /\ \A m \in 1 .. k - 1 :
                                  token'[stack'[u][k]][m] = stack'[u][m]
    BY DEF Stacked
  <1>3. CASE u # t
    <2>1. stack'[u] = stack[u]
      BY <1>1, <1>3, LeavesStacks
    <2> QED
      BY <1>0, <1>2, <1>3, <2>1 DEF Stacked
  <1>4. CASE u = t /\ ~Traced(s)
    <2>1. stack'[t] = stack[t]
      BY <1>4, LeavesStacks
    <2>2. s \notin Elements(stack[t])
      BY <1>2, <1>4 DEF Stacked
    <2>3. InOrder(stack[t], Front(running[t]))
      BY <1>0, <1>2, <2>2, StackTypes, OrderFront DEF Stacked
    <2> QED
      BY <1>0, <1>2, <1>4, <2>1, <2>2, <2>3 DEF Stacked
  <1>5. CASE u = t /\ Traced(s)
    <2> DEFINE f == Front(stack[t])
    <2>1. stack'[t] = f /\ stack[t] # <<>> /\ Last(stack[t]) = s
      BY <1>1, <1>5, LeavesStacks
    <2>2. /\ stack[t] \in Seq(Stmts) /\ running[t] \in Seq(Stmts)
          /\ Injective(running[t]) /\ InOrder(stack[t], running[t])
      BY <1>2, StackTypes DEF Stacked
    <2>3. Injective(stack[t])
      BY <2>2, OrderInjective
    <2>4. Elements(f) = Elements(stack[t]) \ {s}
      BY <2>1, <2>2, <2>3, FrontElements
    <2>5. /\ Len(stack[t]) \in Nat \ {0} /\ DOMAIN stack[t] = 1 .. Len(stack[t])
          /\ f \in Seq(Stmts) /\ DOMAIN f = 1 .. Len(stack[t]) - 1
          /\ \A k \in 1 .. Len(stack[t]) - 1 : f[k] = stack[t][k]
      BY <2>1, <2>2, FrontFacts
    <2> HIDE DEF f
    <2>6. DOMAIN f \subseteq DOMAIN stack[t] /\ \A k \in DOMAIN f : f[k] = stack[t][k]
      BY <2>5
    <2>7. InOrder(f, running[t])
      BY <2>2, <2>6, OrderPrefix
    <2>8. InOrder(f, running'[t])
      BY <1>0, <2>2, <2>4, <2>5, <2>7, OrderFront
    <2>9. \A r : r \in Elements(f) <=> r \in Elements(running'[t]) /\ Traced(r)'
      BY <1>0, <1>2, <2>4 DEF Stacked
    <2>10. ASSUME NEW k \in DOMAIN f
           PROVE  /\ Len(token'[f[k]]) = k - 1
                  /\ \A m \in 1 .. k - 1 : token'[f[k]][m] = f[m]
      <3>1. /\ k \in DOMAIN stack[t] /\ f[k] = stack[t][k]
            /\ \A m \in 1 .. k - 1 : f[m] = stack[t][m]
        BY SMTT(30), <2>5
      <3>2. /\ Len(token[stack[t][k]]) = k - 1
            /\ \A m \in 1 .. k - 1 : token[stack[t][k]][m] = stack[t][m]
        BY <1>2, <3>1 DEF Stacked
      <3> QED
        BY <1>0, <3>1, <3>2
    <2> QED
      BY <1>5, <2>1, <2>8, <2>9, <2>10
  <1> QED
    BY <1>3, <1>4, <1>5

\* It keeps the stacks of connections.
LEMMA LeavesQueued ==
    ASSUME BaseInv, SteadyInv, NEW t \in Tasks, NEW s, NEW status \in {"ok", "error"},
           NEW place \in {"executed", "ended"}, Leaves(t, s, status, place)
    PROVE  Queued'
  <1>0. /\ \A r \in Stmts : Traced(r)' <=> Traced(r)
        /\ running[t] # <<>> /\ s = Last(running[t])
        /\ running'[t] = Front(running[t])
        /\ \A r : r \in Elements(running'[t]) <=> r \in Elements(running[t]) /\ r # s
        /\ \A u \in Tasks \ {t} : running'[u] = running[u]
    BY SMTT(30), LeavesFrame
  <1>1. /\ s \in Stmts /\ stmt[s].at = "running" /\ stmt[s].task = t /\ Known(s)
        /\ \A r \in Stmts \ {s} : stmt'[r] = stmt[r]
        /\ stmt'[s].at = place /\ stmt'[s].conn = stmt[s].conn
        /\ stmt'[s].ident = stmt[s].ident
    BY LeavesStatements
  <1>2. Queued /\ info \in [Conns -> Entries]
    BY DEF SteadyInv, BaseInv, TypeOK, Entries
  <1> DEFINE c == stmt[s].conn
             w(d) == StmtsOf(info[d])
  <1>3. c \in Conns
    BY <1>1 DEF Known
  <1> SUFFICES ASSUME NEW d \in Conns
               PROVE  /\ \A r \in Stmts : r \in Elements(StmtsOf(info'[d]))
                            <=> stmt'[r].at = "running" /\ stmt'[r].conn = d /\ Traced(r)'
                      /\ \A k \in DOMAIN info'[d] :
                            info'[d][k].ident = stmt'[info'[d][k].stmt].ident
                      /\ \A u \in Tasks :
                            Elements(StmtsOf(info'[d])) \subseteq Elements(running'[u])
                               => InOrder(StmtsOf(info'[d]), running'[u])
    BY DEF Queued
  <1>4. \A k \in DOMAIN info[d] : /\ info[d][k].stmt \in Stmts
                                  /\ info[d][k].ident = stmt'[info[d][k].stmt].ident
    <2>1. info[d] \in Entries
      BY <1>2
    <2>2. Len(info[d]) \in Nat /\ DOMAIN info[d] = 1 .. Len(info[d])
      BY <2>1 DEF Entries
    <2>3. \A k \in DOMAIN info[d] : info[d][k] \in [stmt : Stmts, ident : Idents]
      BY <2>1, <2>2, ElementOfSeq DEF Entries
    <2> QED
      BY <1>1, <1>2, <2>3 DEF Queued
  <1>5. w(d) \in Seq(Stmts) /\ Elements(w(d)) \subseteq Stmts
    BY StackTypes DEF Elements
  \* A part of the entries of d that has not s keeps its order.
  <1>6. ASSUME NEW p \in Seq(Stmts), NEW u \in Tasks, DOMAIN p \subseteq DOMAIN w(d),
               \A k \in DOMAIN p : p[k] = w(d)[k], s \notin Elements(p),
               Elements(w(d)) \subseteq Elements(running[u])
        PROVE  InOrder(p, running'[u])
    <2>1. InOrder(w(d), running[u])
      BY <1>2, <1>6 DEF Queued
    <2>2. InOrder(p, running[u])
      BY <1>6, <2>1, OrderPrefix
    <2>3. running[u] \in Seq(Stmts)
      BY StackTypes
    <2> QED
      BY <1>0, <1>6, <2>2, <2>3, OrderFront
  <1>7. CASE info'[d] = info[d] /\ ~(d = c /\ Traced(s))
    <2>1. s \notin Elements(w(d))
      BY <1>1, <1>2, <1>7 DEF Queued
    <2>2. \A r \in Stmts : r \in Elements(w(d))
            <=> stmt'[r].at = "running" /\ stmt'[r].conn = d /\ Traced(r)'
      BY <1>0, <1>1, <1>2, <2>1 DEF Queued
    <2>3. ASSUME NEW u \in Tasks, Elements(w(d)) \subseteq Elements(running'[u])
          PROVE  InOrder(w(d), running'[u])
      BY <1>0, <1>5, <1>6, <2>1, <2>3
    <2> QED
      BY <1>4, <1>7, <2>2, <2>3
  <1>8. CASE d = c /\ Traced(s)
    <2> DEFINE f == Front(w(d))
    <2>1. info'[d] = Front(info[d]) /\ info[d] # <<>> /\ Last(w(d)) = s
      BY <1>2, <1>3, <1>8, LeavesStacks
    <2>2. StmtsOf(info'[d]) = f /\ w(d) # <<>>
      BY <1>2, <2>1, EntriesFront, EntryFacts
    <2>3. Elements(w(d)) \subseteq Elements(running[t])
      BY <1>1, <1>2, <1>8, OneTask
    <2>4. Injective(w(d))
      BY <1>2, <1>5, <2>3, StackTypes, OrderInjective DEF Queued
    <2>5. Elements(f) = Elements(w(d)) \ {s}
      BY <1>5, <2>1, <2>2, <2>4, FrontElements
    <2>6. /\ Len(w(d)) \in Nat \ {0} /\ DOMAIN w(d) = 1 .. Len(w(d))
          /\ f \in Seq(Stmts) /\ DOMAIN f = 1 .. Len(w(d)) - 1
          /\ \A k \in 1 .. Len(w(d)) - 1 : f[k] = w(d)[k]
      BY <1>5, <2>2, FrontFacts
    <2> HIDE DEF f
    <2>7. DOMAIN f \subseteq DOMAIN w(d) /\ \A k \in DOMAIN f : f[k] = w(d)[k]
      BY <2>6
    <2>8. \A r \in Stmts : r \in Elements(f)
            <=> stmt'[r].at = "running" /\ stmt'[r].conn = d /\ Traced(r)'
      BY <1>0, <1>1, <1>2, <1>8, <2>5 DEF Queued
    <2>9. \A k \in DOMAIN info'[d] : k \in DOMAIN info[d] /\ info'[d][k] = info[d][k]
      <3>1. info[d] \in Seq([stmt : Stmts, ident : Idents])
        BY <1>2 DEF Entries
      <3>2. /\ Len(info[d]) \in Nat \ {0} /\ DOMAIN info[d] = 1 .. Len(info[d])
            /\ DOMAIN Front(info[d]) = 1 .. Len(info[d]) - 1
            /\ \A k \in 1 .. Len(info[d]) - 1 : Front(info[d])[k] = info[d][k]
        BY <2>1, <3>1, FrontFacts
      <3> QED
        BY <2>1, <3>2
    <2>10. ASSUME NEW u \in Tasks, Elements(f) \subseteq Elements(running'[u])
           PROVE  InOrder(f, running'[u])
      <3>1. CASE Elements(f) = {}
        BY <3>1, EmptyInOrder
      <3>2. CASE u = t
        BY <1>6, <2>3, <2>5, <2>6, <2>7, <3>2
      <3>3. CASE u # t /\ Elements(f) # {}
        <4>1. PICK r \in Elements(f) : TRUE
          BY <3>3
        <4>2. r \in Elements(running[t]) /\ r \in Elements(running[u])
          BY <1>0, <2>3, <2>5, <2>10, <3>3, <4>1
        <4> QED
          BY <3>3, <4>2 DEF BaseInv, Inside
      <3> QED
        BY <3>1, <3>2, <3>3
    <2> QED
      BY <1>4, <2>2, <2>8, <2>9, <2>10
  <1>9. d # c \/ ~Traced(s) => info'[d] = info[d]
    BY <1>2, LeavesStacks
  <1> QED
    BY <1>7, <1>8, <1>9

\* It keeps outcomes.
LEMMA LeavesOutcomes ==
    ASSUME BaseInv, SteadyInv, NEW t \in Tasks, NEW s, NEW status \in {"ok", "error"},
           NEW place \in {"executed", "ended"}, Leaves(t, s, status, place)
    PROVE  Unended' /\ Outcomes'
  <1>1. /\ s \in Stmts /\ stmt[s].at = "running"
        /\ \A r \in Stmts \ {s} : stmt'[r] = stmt[r]
        /\ stmt'[s].at = place /\ stmt'[s].results = {status}
    BY LeavesStatements
  <1>2. (\A r \in Stmts : Traced(r)' <=> Traced(r)) /\ listening' = listening
    BY LeavesFrame
  <1>3. /\ \A r \in Stmts \ {s} : segment'[r] = segment[r]
        /\ segment'[s].status \in {segment[s].status, status}
        /\ segment'[s].counted => segment[s].counted \/ status = "ok"
    BY LeavesStacks
  <1>4. segment[s].status = "incomplete" /\ ~segment[s].counted
    BY <1>1 DEF SteadyInv, Unended
  <1> QED
    BY <1>1, <1>2, <1>3, <1>4 DEF SteadyInv, Unended, Outcomes
\* What the beginning of a statement adds: the statement, and its segment on top
\* of both stacks if it is recorded.
Begun(t, s, c, i) ==
    /\ stmt[s].at = "new" /\ \A u \in Tasks : s \notin Elements(running[u])
    /\ stmt'[s].at = "running" /\ stmt'[s].conn = c /\ stmt'[s].ident = i
    /\ \A r \in Stmts \ {s} : /\ stmt'[r] = stmt[r] /\ segment'[r] = segment[r]
                              /\ token'[r] = token[r] /\ (Traced(r)' <=> Traced(r))
    /\ running'[t] = Append(running[t], s)
    /\ Elements(running'[t]) = Elements(running[t]) \cup {s}
    /\ \A u \in Tasks \ {t} : running'[u] = running[u]
    /\ segment'[s].status \in {"incomplete", segment[s].status}
    /\ segment'[s].counted => segment[s].counted
    /\ UNCHANGED <<listening, steady>>
    /\ Traced(s)' =>
          /\ listening
          /\ token'[s] = stack[t] /\ stack'[t] = Append(stack[t], s)
          /\ \A u \in Tasks \ {t} : stack'[u] = stack[u]
          /\ info'[c] = Append(info[c], [stmt |-> s, ident |-> i])
          /\ \A d \in Conns \ {c} : info'[d] = info[d]
    /\ ~Traced(s)' => UNCHANGED <<stack, info>>

LEMMA BeforeFrame ==
    ASSUME BaseInv, NEW t \in Tasks, NEW s \in Stmts, NEW c \in Conns, NEW i \in Idents,
           NEW internal \in BOOLEAN, Before(t, s, c, i, internal)
    PROVE  Begun(t, s, c, i)
  <1>0. /\ req \in [Tasks -> Requests \cup {None}] /\ stack \in [Tasks -> Seq(Stmts)]
        /\ info \in [Conns -> Seq([stmt : Stmts, ident : Idents])]
        /\ stmt \in [Stmts -> StmtType] /\ running \in [Tasks -> Seq(Stmts)]
        /\ segment \in [Stmts -> SegmentType] /\ token \in [Stmts -> Seq(Stmts)]
        /\ Inside
    BY DEF BaseInv, TypeOK
  <1> DEFINE now == [at |-> "running", task |-> t, conn |-> c, ident |-> i, results |-> {}]
             made == [request |-> req[t], parent |-> Parent(t), status |-> "incomplete",
                      counted |-> FALSE]
             entry == [stmt |-> s, ident |-> i]
  <1>1. /\ now.at = "running" /\ now.conn = c /\ now.ident = i
        /\ made.request = req[t] /\ made.status = "incomplete"
        /\ ~made.counted
    OBVIOUS
  <1>2. /\ stmt' = [stmt EXCEPT ![s] = now]
        /\ running' = [running EXCEPT ![t] = Append(running[t], s)]
        /\ stmt[s].at = "new" /\ UNCHANGED <<listening, steady>>
    BY DEF Before
  <1>3. \/ UNCHANGED <<segment, token, stack, info>>
        \/ /\ listening /\ req[t] # None
           /\ segment' = [segment EXCEPT ![s] = made]
           /\ token' = [token EXCEPT ![s] = stack[t]]
           /\ stack' = [stack EXCEPT ![t] = Append(stack[t], s)]
           /\ info' = [info EXCEPT ![c] = Append(info[c], entry)]
    BY DEF Before, Records
  <1> HIDE DEF now, made
  <1>4. /\ stmt'[s] = now /\ running'[t] = Append(running[t], s)
        /\ \A r \in Stmts \ {s} : stmt'[r] = stmt[r]
        /\ \A u \in Tasks \ {t} : running'[u] = running[u]
    BY <1>0, <1>2
  <1>5. Elements(running'[t]) = Elements(running[t]) \cup {s}
    BY <1>0, <1>4, AppendElements
  <1>6. (\A u \in Tasks : s \notin Elements(running[u])) /\ ~Traced(s)
    BY <1>0, <1>2 DEF Inside
  <1>7. CASE UNCHANGED <<segment, token, stack, info>>
    BY <1>1, <1>2, <1>4, <1>5, <1>6, <1>7 DEF Begun, Traced
  <1>8. CASE /\ listening /\ req[t] # None
             /\ segment' = [segment EXCEPT ![s] = made]
             /\ token' = [token EXCEPT ![s] = stack[t]]
             /\ stack' = [stack EXCEPT ![t] = Append(stack[t], s)]
             /\ info' = [info EXCEPT ![c] = Append(info[c], entry)]
    <2>1. /\ segment'[s] = made /\ token'[s] = stack[t]
          /\ \A r \in Stmts \ {s} : segment'[r] = segment[r] /\ token'[r] = token[r]
      BY <1>0, <1>8
    <2>2. /\ stack'[t] = Append(stack[t], s) /\ info'[c] = Append(info[c], entry)
          /\ \A u \in Tasks \ {t} : stack'[u] = stack[u]
          /\ \A d \in Conns \ {c} : info'[d] = info[d]
      BY <1>0, <1>8
    <2> QED
      BY <1>1, <1>2, <1>4, <1>5, <1>6, <1>8, <2>1, <2>2 DEF Begun, Traced
  <1> QED
    BY <1>3, <1>7, <1>8

\* The beginning of a statement keeps the stacks of tasks.
LEMMA BeforeStacked ==
    ASSUME BaseInv, SteadyInv, NEW t \in Tasks, NEW s \in Stmts, NEW c \in Conns,
           NEW i \in Idents, NEW internal \in BOOLEAN, Before(t, s, c, i, internal)
    PROVE  Stacked'
  <1>b. Begun(t, s, c, i)
    BY BeforeFrame
  <1>0. /\ \A u \in Tasks : s \notin Elements(running[u])
        /\ \A r \in Stmts \ {s} : token'[r] = token[r] /\ (Traced(r)' <=> Traced(r))
        /\ running'[t] = Append(running[t], s)
        /\ Elements(running'[t]) = Elements(running[t]) \cup {s}
        /\ \A u \in Tasks \ {t} : running'[u] = running[u]
    BY <1>b DEF Begun
  <1>1. /\ Stacked
        /\ \A u \in Tasks : /\ stack[u] \in Seq(Stmts) /\ running[u] \in Seq(Stmts)
                            /\ Elements(running[u]) \subseteq Stmts
    BY StackTypes DEF SteadyInv, Elements
  <1> SUFFICES ASSUME NEW u \in Tasks
               PROVE  /\ \A r : r \in Elements(stack'[u])
                                   <=> r \in Elements(running'[u]) /\ Traced(r)'
                      /\ InOrder(stack'[u], running'[u])
                      /\ \A k \in DOMAIN stack'[u] :
                            /\ Len(token'[stack'[u][k]]) = k - 1
                            /\ \A m \in 1 .. k - 1 :
                                  token'[stack'[u][k]][m] = stack'[u][m]
    BY DEF Stacked
  <1>2. /\ \A r : r \in Elements(stack[u]) <=> r \in Elements(running[u]) /\ Traced(r)
        /\ Elements(stack[u]) \subseteq Elements(running[u])
        /\ InOrder(stack[u], running[u])
    BY <1>1 DEF Stacked
  <1>3. ASSUME NEW k \in DOMAIN stack[u]
        PROVE  /\ Len(token'[stack[u][k]]) = k - 1
               /\ \A m \in 1 .. k - 1 : token'[stack[u][k]][m] = stack[u][m]
    <2>1. stack[u][k] \in Elements(stack[u])
      BY DEF Elements
    <2>2. stack[u][k] \in Stmts \ {s}
      BY <1>0, <1>1, <1>2, <2>1
    <2>3. /\ Len(token[stack[u][k]]) = k - 1
          /\ \A m \in 1 .. k - 1 : token[stack[u][k]][m] = stack[u][m]
      BY <1>1 DEF Stacked
    <2>4. token'[stack[u][k]] = token[stack[u][k]]
      BY <1>0, <2>2
    <2> QED
      BY <2>3, <2>4
  <1>c. \A r : r \in Elements(stack[u]) <=> r \in Elements(running[u]) /\ Traced(r)'
    <2>1. \A r : r \in Elements(running[u]) => (Traced(r)' <=> Traced(r))
      BY <1>0, <1>1
    <2> QED
      BY <1>2, <2>1
  <1>d. /\ InOrder(stack[u], Append(running[u], s))
        /\ InOrder(Append(stack[u], s), Append(running[u], s))
    <2>1. stack[u] \in Seq(Stmts) /\ running[u] \in Seq(Stmts)
      BY <1>1
    <2> QED
      BY <1>2, <2>1, OrderAppends
  <1>4. CASE u # t
    <2>1. stack'[u] = stack[u] /\ running'[u] = running[u]
      BY <1>0, <1>4, <1>b DEF Begun
    <2> QED
      BY <1>2, <1>3, <1>c, <2>1
  <1>5. CASE u = t /\ ~Traced(s)'
    <2>1. stack'[u] = stack[u]
      BY <1>b, <1>5 DEF Begun
    <2>2. InOrder(stack[u], running'[u])
      BY <1>0, <1>5, <1>d
    <2>3. \A r : r \in Elements(stack[u]) <=> r \in Elements(running'[u]) /\ Traced(r)'
      BY <1>0, <1>5, <1>c
    <2> QED
      BY <1>3, <2>1, <2>2, <2>3
  <1>6. CASE u = t /\ Traced(s)'
    <2>1. stack'[u] = Append(stack[u], s) /\ token'[s] = stack[u]
      BY <1>b, <1>6 DEF Begun
    <2>2. Elements(stack'[u]) = Elements(stack[u]) \cup {s}
      BY <1>1, <2>1, AppendElements
    <2>3. InOrder(stack'[u], running'[u])
      BY <1>0, <1>6, <1>d, <2>1
    <2>4. ASSUME NEW k \in DOMAIN stack'[u]
          PROVE  /\ Len(token'[stack'[u][k]]) = k - 1
                 /\ \A m \in 1 .. k - 1 : token'[stack'[u][k]][m] = stack'[u][m]
      <3>1. /\ Len(stack[u]) \in Nat /\ DOMAIN stack[u] = 1 .. Len(stack[u])
            /\ DOMAIN stack'[u] = 1 .. Len(stack[u]) + 1
            /\ \A m \in 1 .. Len(stack[u]) : stack'[u][m] = stack[u][m]
            /\ stack'[u][Len(stack[u]) + 1] = s
        BY <1>1, <2>1, AppendFacts
      <3>2. \A m \in 1 .. k - 1 : stack'[u][m] = stack[u][m]
        BY <3>1
      <3>3. CASE k \in DOMAIN stack[u]
        <4>1. stack'[u][k] = stack[u][k]
          BY <3>1, <3>3
        <4> QED
          BY <1>3, <3>2, <3>3, <4>1
      <3>4. CASE k \notin DOMAIN stack[u]
        <4>1. k = Len(stack[u]) + 1 /\ stack'[u][k] = s
          BY <3>1, <3>4
        <4> QED
          BY <2>1, <3>1, <3>2, <4>1
      <3> QED
        BY <3>3, <3>4
    <2>5. \A r : r \in Elements(stack'[u]) <=> r \in Elements(running'[u]) /\ Traced(r)'
      BY <1>0, <1>6, <1>c, <2>2
    <2> QED
      BY <2>3, <2>4, <2>5
  <1> QED
    BY <1>4, <1>5, <1>6

\* It keeps the stacks of connections.
LEMMA BeforeQueued ==
    ASSUME BaseInv, SteadyInv, NEW t \in Tasks, NEW s \in Stmts, NEW c \in Conns,
           NEW i \in Idents, NEW internal \in BOOLEAN, Before(t, s, c, i, internal)
    PROVE  Queued'
  <1>b. Begun(t, s, c, i)
    BY BeforeFrame
  <1>0. /\ stmt[s].at = "new" /\ \A u \in Tasks : s \notin Elements(running[u])
        /\ stmt'[s].at = "running" /\ stmt'[s].conn = c /\ stmt'[s].ident = i
        /\ \A r \in Stmts \ {s} : stmt'[r] = stmt[r] /\ (Traced(r)' <=> Traced(r))
        /\ running'[t] = Append(running[t], s)
        /\ Elements(running'[t]) = Elements(running[t]) \cup {s}
        /\ \A u \in Tasks \ {t} : running'[u] = running[u]
    BY <1>b DEF Begun
  <1>1. Queued /\ \A d \in Conns : info[d] \in Entries /\ StmtsOf(info[d]) \in Seq(Stmts)
    BY StackTypes DEF SteadyInv
  <1> SUFFICES ASSUME NEW d \in Conns
               PROVE  /\ \A r \in Stmts : r \in Elements(StmtsOf(info'[d]))
                            <=> stmt'[r].at = "running" /\ stmt'[r].conn = d /\ Traced(r)'
                      /\ \A k \in DOMAIN info'[d] :
                            info'[d][k].ident = stmt'[info'[d][k].stmt].ident
                      /\ \A u \in Tasks :
                            Elements(StmtsOf(info'[d])) \subseteq Elements(running'[u])
                               => InOrder(StmtsOf(info'[d]), running'[u])
    BY DEF Queued
  <1> DEFINE w == StmtsOf(info[d])
  <1>2. w \in Seq(Stmts) /\ Elements(w) \subseteq Stmts /\ s \notin Elements(w)
    <2>1. w \in Seq(Stmts) /\ Elements(w) \subseteq Stmts
      BY <1>1 DEF Elements
    <2> QED
      BY <1>0, <1>1, <2>1 DEF Queued
  <1>3. \A r \in Stmts \ {s} : r \in Elements(w)
          <=> stmt'[r].at = "running" /\ stmt'[r].conn = d /\ Traced(r)'
    BY <1>0, <1>1 DEF Queued
  <1>4. \A k \in DOMAIN info[d] : info[d][k].ident = stmt'[info[d][k].stmt].ident
    <2> SUFFICES ASSUME NEW k \in DOMAIN info[d]
                 PROVE  info[d][k].ident = stmt'[info[d][k].stmt].ident
      OBVIOUS
    <2>1. info[d] \in Entries
      BY <1>1
    <2>2. w[k] = info[d][k].stmt /\ k \in DOMAIN w
      BY <2>1, EntryFacts
    <2>3. info[d][k].stmt \in Elements(w)
      BY <2>2 DEF Elements
    <2>4. info[d][k].stmt \in Stmts \ {s}
      BY <1>2, <2>3
    <2> QED
      BY <1>0, <1>1, <2>4 DEF Queued
  <1>5. ASSUME NEW u \in Tasks, Elements(w) \subseteq Elements(running[u])
        PROVE  /\ InOrder(w, running'[u])
               /\ u = t => InOrder(Append(w, s), running'[u])
    <2>1. InOrder(w, running[u]) /\ running[u] \in Seq(Stmts)
      BY <1>1, <1>5, StackTypes DEF Queued
    <2>2. CASE u = t
      <3>1. /\ InOrder(w, Append(running[u], s))
            /\ InOrder(Append(w, s), Append(running[u], s))
        BY <1>2, <1>5, <2>1, OrderAppends
      <3> QED
        BY <1>0, <2>2, <3>1
    <2>3. CASE u # t
      BY <1>0, <2>1, <2>3
    <2> QED
      BY <2>2, <2>3
  <1>6. \A u \in Tasks : Elements(w) \subseteq Elements(running'[u])
                            => Elements(w) \subseteq Elements(running[u])
    BY <1>0, <1>2
  <1>7. CASE info'[d] = info[d] /\ ~(d = c /\ Traced(s)')
    BY <1>0, <1>2, <1>3, <1>4, <1>5, <1>6, <1>7
  <1>8. CASE d = c /\ Traced(s)'
    <2> DEFINE x == [stmt |-> s, ident |-> i]
    <2>1. info'[d] = Append(info[d], x)
      BY <1>b, <1>8 DEF Begun
    <2>2. StmtsOf(info'[d]) = Append(w, s)
      BY <1>1, <2>1, EntriesAppend
    <2>3. Elements(Append(w, s)) = Elements(w) \cup {s}
      BY <1>2, AppendElements
    <2>4. ASSUME NEW u \in Tasks, Elements(Append(w, s)) \subseteq Elements(running'[u])
          PROVE  InOrder(Append(w, s), running'[u])
      <3>1. u = t /\ Elements(w) \subseteq Elements(running[u])
        BY <1>0, <1>6, <2>3, <2>4
      <3> QED
        BY <1>5, <3>1
    <2>5. ASSUME NEW k \in DOMAIN info'[d]
          PROVE  info'[d][k].ident = stmt'[info'[d][k].stmt].ident
      <3>1. x \in [stmt : Stmts, ident : Idents] /\ x.stmt = s /\ x.ident = i
        OBVIOUS
      <3>2. info[d] \in Seq([stmt : Stmts, ident : Idents])
        BY <1>1 DEF Entries
      <3> HIDE DEF x
      <3>3. /\ Len(info[d]) \in Nat /\ DOMAIN info[d] = 1 .. Len(info[d])
            /\ DOMAIN info'[d] = 1 .. Len(info[d]) + 1
            /\ \A m \in 1 .. Len(info[d]) : info'[d][m] = info[d][m]
            /\ info'[d][Len(info[d]) + 1] = x
        BY <2>1, <3>1, <3>2, AppendFacts
      <3>4. \/ k \in DOMAIN info[d] /\ info'[d][k] = info[d][k]
            \/ info'[d][k] = x
        BY <3>3
      <3> QED
        BY <1>0, <1>4, <3>1, <3>4
    <2>6. \A r \in Stmts : r \in Elements(Append(w, s))
            <=> stmt'[r].at = "running" /\ stmt'[r].conn = d /\ Traced(r)'
      BY <1>0, <1>3, <1>8, <2>3
    <2> QED
      BY <2>2, <2>4, <2>5, <2>6
  <1>9. ~(d = c /\ Traced(s)') => info'[d] = info[d]
    BY <1>b DEF Begun
  <1> QED
    BY <1>7, <1>8, <1>9

\* It keeps outcomes.
LEMMA BeforeOutcomes ==
    ASSUME BaseInv, SteadyInv, NEW t \in Tasks, NEW s \in Stmts, NEW c \in Conns,
           NEW i \in Idents, NEW internal \in BOOLEAN, Before(t, s, c, i, internal)
    PROVE  Unended' /\ Outcomes'
  <1>b. Begun(t, s, c, i)
    BY BeforeFrame
  <1>1. /\ \A r \in Stmts \ {s} : /\ stmt'[r] = stmt[r] /\ segment'[r] = segment[r]
                                  /\ (Traced(r)' <=> Traced(r))
        /\ stmt[s].at = "new" /\ segment'[s].status \in {"incomplete", segment[s].status}
        /\ segment'[s].counted => segment[s].counted
        /\ listening' = listening
        /\ Traced(s)' => listening
    BY <1>b DEF Begun
  <1>2. segment'[s].status = "incomplete" /\ ~segment'[s].counted
    BY <1>1 DEF SteadyInv, Unended
  <1> QED
    BY <1>1, <1>2 DEF SteadyInv, Unended, Outcomes
\* A step that neither begins nor ends a statement, and at which the listeners
\* come or go only if no statement runs, keeps all of it.
LEMMA KeepsSteady ==
    ASSUME BaseInv, SteadyInv, UNCHANGED <<stack, info, running, segment, token>>,
           listening' = listening \/ \A t \in Tasks : running[t] = <<>>,
           \A r \in Stmts :
              /\ stmt'[r].conn = stmt[r].conn /\ stmt'[r].ident = stmt[r].ident
              /\ stmt'[r].at = "running" <=> stmt[r].at = "running"
              /\ stmt'[r].at = "new" => stmt[r].at = "new"
              /\ stmt[r].results \subseteq stmt'[r].results
    PROVE  SteadyInv'
  <1>1. Stacked'
    BY DEF SteadyInv, Stacked, Traced, Elements
  <1>2. Queued'
    <2> SUFFICES ASSUME NEW c \in Conns
                 PROVE  /\ \A s \in Stmts : s \in Elements(StmtsOf(info[c]))
                              <=> stmt'[s].at = "running" /\ stmt'[s].conn = c /\ Traced(s)
                        /\ \A k \in DOMAIN info[c] :
                              info[c][k].ident = stmt'[info[c][k].stmt].ident
                        /\ \A t \in Tasks :
                              Elements(StmtsOf(info[c])) \subseteq Elements(running[t])
                                 => InOrder(StmtsOf(info[c]), running[t])
      BY DEF Queued, Traced
    <2>1. \A k \in DOMAIN info[c] : info[c][k].stmt \in Stmts
      <3>1. info[c] \in Entries
        BY StackTypes
      <3>2. Len(info[c]) \in Nat /\ DOMAIN info[c] = 1 .. Len(info[c])
        BY <3>1 DEF Entries
      <3>3. \A k \in DOMAIN info[c] : info[c][k] \in [stmt : Stmts, ident : Idents]
        BY <3>1, <3>2, ElementOfSeq DEF Entries
      <3> QED
        BY <3>3
    <2> QED
      BY <2>1 DEF SteadyInv, Queued
  <1>3. Unended'
    <2>1. CASE listening' = listening
      BY <2>1 DEF SteadyInv, Unended, Traced
    <2>2. CASE \A t \in Tasks : running[t] = <<>>
      <3>1. \A s \in Stmts : stmt[s].at # "running"
        BY <2>2 DEF BaseInv, Inside, Known, Elements
      <3> QED
        BY <3>1 DEF SteadyInv, Unended
    <2> QED
      BY <2>1, <2>2
  <1>4. Outcomes'
    BY DEF SteadyInv, Outcomes
  <1> QED
    BY <1>1, <1>2, <1>3, <1>4 DEF SteadyInv

\* A task that is inside of no statement has an empty stack.
LEMMA EmptyStack ==
    ASSUME BaseInv, SteadyInv, NEW t \in Tasks, running[t] = <<>>
    PROVE  stack[t] = <<>>
  <1>1. Elements(running[t]) = {}
    BY DEF Elements
  <1>2. Elements(stack[t]) = {} /\ stack[t] \in Seq(Stmts)
    BY <1>1, StackTypes DEF SteadyInv, Stacked
  <1>3. DOMAIN stack[t] = {}
    BY <1>2 DEF Elements
  <1>4. Len(stack[t]) \in Nat /\ DOMAIN stack[t] = 1 .. Len(stack[t])
    BY <1>2
  <1>5. Len(stack[t]) = 0
    BY <1>3, <1>4
  <1> QED
    BY <1>2, <1>5, EmptySeq

\* A failure while rows are fetched, and the end of the rows, touch no stack.
LEMMA DiesSteady ==
    ASSUME BaseInv, SteadyInv, NEW s \in Stmts,
           Consumed(s) \/ \E t \in Tasks : FetchFails(t, s)
    PROVE  SteadyInv'
  <1>1. stmt \in [Stmts -> StmtType] /\ stmt[s].at = "executed"
    BY DEF BaseInv, TypeOK, Consumed, FetchFails
  <1>2. ~IsOwn(stmt[s].conn, stmt[s].ident)
    BY <1>1, NoTop
  <1>3. UNCHANGED <<listening, stack, info, running, segment, token>>
    BY <1>2 DEF Consumed, FetchFails, Ends
  <1>4. \/ stmt' = [stmt EXCEPT ![s].at = "ended"]
        \/ stmt' = [stmt EXCEPT ![s].at = "ended", ![s].results = @ \cup {"error"}]
    BY DEF Consumed, FetchFails
  <1>5. /\ \A r \in Stmts \ {s} : stmt'[r] = stmt[r]
        /\ stmt'[s].conn = stmt[s].conn /\ stmt'[s].ident = stmt[s].ident
        /\ stmt'[s].at = "ended" /\ stmt[s].results \subseteq stmt'[s].results
    BY <1>1, <1>4 DEF StmtType
  <1>6. \A r \in Stmts :
           /\ stmt'[r].conn = stmt[r].conn /\ stmt'[r].ident = stmt[r].ident
           /\ stmt'[r].at = "running" <=> stmt[r].at = "running"
           /\ stmt'[r].at = "new" => stmt[r].at = "new"
           /\ stmt[r].results \subseteq stmt'[r].results
    BY <1>1, <1>5
  <1> QED
    BY <1>3, <1>6, KeepsSteady

\* Every step keeps the story.
LEMMA StoryStep ==
    ASSUME StoryInv, [Next]_vars
    PROVE  StoryInv'
  <1>1. BaseInv /\ BaseInv'
    BY BaseStep DEF StoryInv
  <1> SUFFICES ASSUME steady'
               PROVE  SteadyInv'
    BY <1>1 DEF StoryInv
  <1>2. steady
    <2>1. CASE UNCHANGED vars
      BY <2>1 DEF vars
    <2>2. CASE Next
      BY ZenonT(40), <2>2, NextCases DEF Enter, Finalize, Reset, Before, Leaves, FetchFails, Consumed, Listen
    <2> QED
      BY <2>1, <2>2
  <1>3. SteadyInv
    BY <1>2 DEF StoryInv
  <1>4. ASSUME UNCHANGED <<stack, info, running, segment, token, stmt>>,
               listening' = listening \/ \A t \in Tasks : running[t] = <<>>
        PROVE  SteadyInv'
    BY <1>1, <1>3, <1>4, KeepsSteady
  <1>5. ASSUME NEW t \in Tasks, running[t] = <<>>, stack' = [stack EXCEPT ![t] = <<>>]
        PROVE  stack' = stack
    BY <1>1, <1>3, <1>5, EmptyStack DEF BaseInv, TypeOK
  <1>6. ASSUME NEW t \in Tasks, NEW r \in Requests, Enter(t, r)
        PROVE  SteadyInv'
    BY <1>4, <1>5, <1>6 DEF Enter
  <1>7. ASSUME NEW t \in Tasks, Finalize(t) \/ Reset(t)
        PROVE  SteadyInv'
    BY <1>4, <1>5, <1>7 DEF Finalize, Reset
  <1>8. ASSUME NEW t \in Tasks, NEW s \in Stmts, NEW c \in Conns, NEW i \in Idents,
               NEW internal \in BOOLEAN, Before(t, s, c, i, internal)
        PROVE  SteadyInv'
    BY <1>1, <1>3, <1>8, BeforeStacked, BeforeQueued, BeforeOutcomes DEF SteadyInv
  <1>9. ASSUME NEW t \in Tasks, NEW s \in Stmts, NEW status \in {"ok", "error"},
               NEW place \in {"executed", "ended"}, Leaves(t, s, status, place)
        PROVE  SteadyInv'
    BY <1>1, <1>3, <1>9, LeavesStacked, LeavesQueued, LeavesOutcomes DEF SteadyInv
  <1>10. ASSUME NEW s \in Stmts, Consumed(s) \/ \E t \in Tasks : FetchFails(t, s)
         PROVE  SteadyInv'
    BY <1>1, <1>3, <1>10, DiesSteady
  <1>11. CASE Listen
    BY <1>4, <1>11 DEF Listen
  <1>12. CASE UNCHANGED vars
    BY <1>4, <1>12 DEF vars
  <1> QED
    BY <1>6, <1>7, <1>8, <1>9, <1>10, <1>11, <1>12, NextCases

\* It holds when nothing runs yet.
LEMMA StoryInit == Init => StoryInv
  <1> SUFFICES ASSUME Init PROVE SteadyInv
    BY BaseInit DEF StoryInv
  <1>1. /\ \A t \in Tasks : stack[t] = <<>> /\ running[t] = <<>>
        /\ \A c \in Conns : info[c] = <<>>
        /\ \A s \in Stmts : /\ stmt[s].at = "new" /\ ~Traced(s)
                            /\ segment[s].status = "incomplete"
                            /\ ~segment[s].counted
    BY DEF Init, Traced, NoSegment
  <1>2. \A t \in Tasks : /\ Elements(stack[t]) = {} /\ Elements(running[t]) = {}
                         /\ DOMAIN stack[t] = {}
    BY <1>1 DEF Elements
  <1>3. \A c \in Conns : Elements(StmtsOf(info[c])) = {} /\ DOMAIN info[c] = {}
    <2> SUFFICES ASSUME NEW c \in Conns
                 PROVE  Elements(StmtsOf(info[c])) = {} /\ DOMAIN info[c] = {}
      OBVIOUS
    <2>1. DOMAIN info[c] = {}
      BY <1>1
    <2>2. DOMAIN StmtsOf(info[c]) = {}
      BY <2>1 DEF StmtsOf
    <2> QED
      BY <2>1, <2>2 DEF Elements
  <1>4. Stacked
    BY <1>1, <1>2, EmptyInOrder DEF Stacked
  <1>5. Queued
    BY <1>1, <1>3, EmptyInOrder DEF Queued
  <1>6. Unended /\ Outcomes
    BY <1>1 DEF Unended, Outcomes
  <1> QED
    BY <1>4, <1>5, <1>6 DEF SteadyInv

(***************************************************************************)
(* StatementsMatch: while the listeners stay, whatever statements of       *)
(* whatever tasks run, nest, fail or are half read on whatever             *)
(* connections, the outcome of a segment is one of its own statement, the  *)
(* stack of a task has the traced statements it is inside of, in order,    *)
(* and the stack of a connection those that run on it.                     *)
(***************************************************************************)
THEOREM StatementsAreOwn == Spec => []StatementsMatch
  <1>1. ASSUME StoryInv
        PROVE  StatementsMatch
    <2>1. OwnOutcome
      BY <1>1 DEF StoryInv, SteadyInv, Outcomes, OwnOutcome
    <2>2. StacksFollowStatements
      <3> SUFFICES ASSUME steady
                   PROVE  /\ \A t \in Tasks :
                                /\ Elements(stack[t]) = {s \in Elements(running[t]) : Traced(s)}
                                /\ InOrder(stack[t], running[t])
                          /\ \A c \in Conns : Elements(StmtsOf(info[c])) =
                               {s \in Stmts : stmt[s].at = "running" /\ stmt[s].conn = c
                                                 /\ Traced(s)}
        BY DEF StacksFollowStatements
      <3>1. BaseInv /\ Stacked /\ Queued
        BY <1>1 DEF StoryInv, SteadyInv
      <3>2. \A c \in Conns : Elements(StmtsOf(info[c])) \subseteq Stmts
        BY <3>1, StackTypes DEF Elements
      <3> QED
        BY <3>1, <3>2 DEF Stacked, Queued
    <2> QED
      BY <2>1, <2>2 DEF StatementsMatch
  <1>2. StoryInv => StatementsMatch
    BY <1>1
  <1>3. StoryInv /\ [Next]_vars => StoryInv'
    BY StoryStep
  <1> QED
    BY <1>2, <1>3, StoryInit, PTL DEF Spec
=============================================================================
