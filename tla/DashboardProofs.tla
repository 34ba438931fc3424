---------------------------- MODULE DashboardProofs ----------------------------
(***************************************************************************)
(* Proofs about DashboardPage, for any traces and any number of calls      *)
(* under way at once.                                                      *)
(*                                                                         *)
(*   PageTypes        every variable has its type;                         *)
(*   PanelFollows     the panel shows the selected trace;                  *)
(*   ClearedStayGone  cleared traces do not come back to the table.        *)
(*                                                                         *)
(* A callback takes its call out of the list of those under way, and may   *)
(* append others; Without and AndThen say what that leaves.                *)
(***************************************************************************)
EXTENDS DashboardPage, SequenceTheorems, TLAPS

-----------------------------------------------------------------------------
(***************************************************************************)
(* Lists of calls.                                                         *)
(***************************************************************************)
\* What is left of a list without its n-th element: the others, in order.
LEMMA Without ==
  ASSUME NEW S, NEW q \in Seq(S), NEW n \in DOMAIN q
  PROVE  /\ RemoveAt(q, n) \in Seq(S)
         /\ Len(RemoveAt(q, n)) = Len(q) - 1
         /\ \A i \in DOMAIN RemoveAt(q, n) :
              RemoveAt(q, n)[i] = IF i < n THEN q[i] ELSE q[i + 1]
         /\ \A i \in DOMAIN RemoveAt(q, n) :
              \E j \in DOMAIN q \ {n} : RemoveAt(q, n)[i] = q[j]
         /\ \A j \in DOMAIN q \ {n} :
              \E i \in DOMAIN RemoveAt(q, n) : RemoveAt(q, n)[i] = q[j]
  <1> DEFINE a == SubSeq(q, 1, n - 1)
             b == SubSeq(q, n + 1, Len(q))
  <1>1. Len(q) \in Nat /\ n \in 1 .. Len(q) /\ DOMAIN q = 1 .. Len(q)
    BY LenProperties
  <1>2. /\ a \in Seq(S) /\ Len(a) = n - 1
        /\ \A i \in 1 .. (n - 1) : a[i] = q[i]
    <2>1. /\ 1 \in 1 .. (Len(q) + 1) /\ n - 1 \in 0 .. Len(q)
          /\ \A i \in 1 .. (n - 1) : 1 + i - 1 = i
      BY <1>1
    <2> QED
      BY <1>1, <2>1, SubSeqProperties
  <1>3. /\ b \in Seq(S) /\ Len(b) = Len(q) - n
        /\ \A i \in 1 .. (Len(q) - n) : b[i] = q[n + i]
    <2>1. /\ n + 1 \in 1 .. (Len(q) + 1) /\ Len(q) \in 0 .. Len(q)
          /\ \A i \in 1 .. (Len(q) - n) : n + 1 + i - 1 = n + i
      BY <1>1
    <2> QED
      BY <1>1, <2>1, SubSeqProperties
  <1>4. RemoveAt(q, n) = a \o b
    BY DEF RemoveAt
  <1> HIDE DEF a, b
  <1>5. /\ a \o b \in Seq(S) /\ Len(a \o b) = Len(q) - 1
        /\ \A i \in 1 .. (Len(q) - 1) :
             (a \o b)[i] = IF i < n THEN q[i] ELSE q[i + 1]
    <2>1. /\ a \o b \in Seq(S) /\ Len(a \o b) = Len(a) + Len(b)
          /\ \A i \in 1 .. Len(a) + Len(b) :
               (a \o b)[i] = IF i <= Len(a) THEN a[i] ELSE b[i - Len(a)]
      BY <1>2, <1>3, ConcatProperties
    <2>2. Len(a) + Len(b) = Len(q) - 1 /\ n \in Nat
      BY <1>1, <1>2, <1>3
    <2>3. ASSUME NEW i \in 1 .. (Len(q) - 1)
          PROVE  (a \o b)[i] = IF i < n THEN q[i] ELSE q[i + 1]
      <3>1. i \in 1 .. (Len(a) + Len(b)) /\ i \in Nat
        BY <1>1, <2>2
      <3>2. CASE i < n
        <4>1. i \in 1 .. (n - 1) /\ i <= Len(a)
          BY <1>2, <2>2, <3>1, <3>2
        <4> QED
          BY <1>2, <2>1, <3>1, <3>2, <4>1
      <3>3. CASE ~(i < n)
        <4>1. /\ ~(i <= Len(a)) /\ i - Len(a) \in 1 .. (Len(q) - n)
              /\ n + (i - Len(a)) = i + 1
          BY <1>1, <1>2, <1>3, <2>2, <3>1, <3>3
        <4>2. (a \o b)[i] = b[i - Len(a)]
          BY <2>1, <3>1, <4>1
        <4> QED
          BY <1>3, <3>3, <4>1, <4>2
      <3> QED
        BY <3>2, <3>3
    <2> QED
      BY <2>1, <2>2, <2>3
  <1>6. DOMAIN (a \o b) = 1 .. (Len(q) - 1)
    BY <1>5, LenProperties
  <1>7. ASSUME NEW i \in 1 .. (Len(q) - 1)
        PROVE  \E j \in DOMAIN q \ {n} : (a \o b)[i] = q[j]
    <2>1. CASE i < n
      <3>1. i \in DOMAIN q \ {n}
        BY <1>1, <2>1
      <3>2. (a \o b)[i] = q[i]
        BY <1>5, <2>1
      <3> QED
        BY <3>1, <3>2
    <2>2. CASE ~(i < n)
      <3>1. i + 1 \in DOMAIN q \ {n}
        BY <1>1, <2>2
      <3>2. (a \o b)[i] = q[i + 1]
        BY <1>5, <2>2
      <3> QED
        BY <3>1, <3>2
    <2> QED
      BY <2>1, <2>2
  <1>8. ASSUME NEW j \in DOMAIN q \ {n}
        PROVE  \E i \in 1 .. (Len(q) - 1) : (a \o b)[i] = q[j]
    <2>1. CASE j < n
      <3>1. j \in 1 .. (Len(q) - 1)
        BY <1>1, <2>1
      <3>2. (a \o b)[j] = q[j]
        BY <1>5, <2>1, <3>1
      <3> QED
        BY <3>1, <3>2
    <2>2. CASE ~(j < n)
      <3>1. /\ j - 1 \in 1 .. (Len(q) - 1) /\ ~(j - 1 < n)
            /\ (j - 1) + 1 = j
        BY <1>1, <2>2
      <3>2. (a \o b)[j - 1] = q[j]
        BY <1>5, <3>1
      <3> QED
        BY <3>1, <3>2
    <2> QED
      BY <2>1, <2>2
  <1> QED
    BY <1>4, <1>5, <1>6, <1>7, <1>8

\* r holds the elements of p and then those of q.
Joins(r, p, q) ==
    /\ Len(r) = Len(p) + Len(q)
    /\ \A i \in DOMAIN r :
         \/ i \in DOMAIN p /\ r[i] = p[i]
         \/ \E j \in DOMAIN q : r[i] = q[j]
    /\ \A j \in DOMAIN p : j \in DOMAIN r /\ r[j] = p[j]
    /\ \A j \in DOMAIN q : \E i \in DOMAIN r : r[i] = q[j]

\* What two lists hold, one after the other.
LEMMA AndThen ==
  ASSUME NEW S, NEW p \in Seq(S), NEW q \in Seq(S)
  PROVE  p \o q \in Seq(S) /\ Joins(p \o q, p, q)
  <1>1. /\ Len(p) \in Nat /\ DOMAIN p = 1 .. Len(p)
        /\ Len(q) \in Nat /\ DOMAIN q = 1 .. Len(q)
    BY LenProperties
  <1>2. /\ p \o q \in Seq(S) /\ Len(p \o q) = Len(p) + Len(q)
        /\ \A i \in 1 .. Len(p) + Len(q) :
             (p \o q)[i] = IF i <= Len(p) THEN p[i] ELSE q[i - Len(p)]
    BY ConcatProperties
  <1>3. DOMAIN (p \o q) = 1 .. (Len(p) + Len(q))
    BY <1>2, LenProperties
  <1>4. ASSUME NEW i \in 1 .. (Len(p) + Len(q))
        PROVE  \/ i \in DOMAIN p /\ (p \o q)[i] = p[i]
               \/ \E j \in DOMAIN q : (p \o q)[i] = q[j]
    <2>1. CASE i <= Len(p)
      BY <1>1, <1>2, <2>1
    <2>2. CASE i > Len(p)
      <3>1. i - Len(p) \in DOMAIN q /\ (p \o q)[i] = q[i - Len(p)]
        BY <1>1, <1>2, <2>2
      <3> QED
        BY <3>1
    <2> QED
      BY <1>1, <2>1, <2>2
  <1>5. \A j \in DOMAIN p : j \in 1 .. (Len(p) + Len(q)) /\ (p \o q)[j] = p[j]
    BY <1>1, <1>2
  <1>6. ASSUME NEW j \in DOMAIN q
        PROVE  Len(p) + j \in 1 .. (Len(p) + Len(q)) /\ (p \o q)[Len(p) + j] = q[j]
    <2>1. Len(p) + j \in 1 .. (Len(p) + Len(q)) /\ ~(Len(p) + j <= Len(p))
          /\ Len(p) + j - Len(p) = j
      BY <1>1
    <2> QED
      BY <1>2, <2>1
  <1> QED
    <2>1. \A j \in DOMAIN q : \E i \in DOMAIN (p \o q) : (p \o q)[i] = q[j]
      BY <1>3, <1>6
    <2> QED
      BY <1>2, <1>3, <1>4, <1>5, <2>1 DEF Joins

-----------------------------------------------------------------------------
(***************************************************************************)
(* Every step but an answer takes one call out of the list, or none, and   *)
(* adds others.                                                            *)
(***************************************************************************)
\* At most one of the calls of q asks for the traces to be cleared.
OneDelete(q) ==
    \A i, j \in DOMAIN q : q[i].kind = "delete" /\ q[j].kind = "delete" => i = j

\* q holds the calls under way but the n-th, if there is one, and those of N,
\* k in number.
Follows(q, n, k, N) ==
    /\ q \in Seq(CallType)
    /\ Len(q) = Len(calls) + k - (IF n \in DOMAIN calls THEN 1 ELSE 0)
    /\ \A i \in DOMAIN q :
         (\E j \in DOMAIN calls \ {n} : q[i] = calls[j]) \/ q[i] \in N
    /\ \A j \in DOMAIN calls \ {n} : \E i \in DOMAIN q : q[i] = calls[j]
    /\ \A c \in N : \E i \in DOMAIN q : q[i] = c
    /\ OneDelete(calls) /\ (\A c \in N : c.kind # "delete") => OneDelete(q)

\* Calls are added at the end.
LEMMA Added ==
  ASSUME calls \in Seq(CallType), NEW new \in Seq(CallType),
         NEW N, N = {new[j] : j \in DOMAIN new}
  PROVE  Follows(calls \o new, 0, Len(new), N)
  <1> DEFINE q == calls \o new
  <1>1. q \in Seq(CallType) /\ Joins(q, calls, new)
    BY AndThen
  <1>2. 0 \notin DOMAIN calls /\ Len(calls) \in Nat /\ Len(new) \in Nat
    BY LenProperties
  <1> HIDE DEF q
  <1>3. OneDelete(calls) /\ (\A c \in N : c.kind # "delete") => OneDelete(q)
    BY <1>1 DEF OneDelete, Joins
  <1>4. Follows(q, 0, Len(new), N)
    BY <1>1, <1>2, <1>3 DEF Follows, Joins
  <1> QED
    BY <1>4 DEF q

\* A call is handled, and others are made.
LEMMA HandledAnd ==
  ASSUME calls \in Seq(CallType), NEW n \in DOMAIN calls,
         NEW new \in Seq(CallType), NEW N, N = {new[j] : j \in DOMAIN new}
  PROVE  Follows(Handled(n) \o new, n, Len(new), N)
  <1> DEFINE p == Handled(n)
             q == p \o new
  <1>1. /\ p \in Seq(CallType) /\ Len(p) = Len(calls) - 1
        /\ \A i \in DOMAIN p : p[i] = IF i < n THEN calls[i] ELSE calls[i + 1]
        /\ \A i \in DOMAIN p : \E j \in DOMAIN calls \ {n} : p[i] = calls[j]
        /\ \A j \in DOMAIN calls \ {n} : \E i \in DOMAIN p : p[i] = calls[j]
    BY Without DEF Handled
  <1>2. /\ Len(calls) \in Nat /\ DOMAIN calls = 1 .. Len(calls)
        /\ Len(new) \in Nat /\ DOMAIN new = 1 .. Len(new)
        /\ DOMAIN p = 1 .. (Len(calls) - 1) /\ n \in 1 .. Len(calls)
    <2> HIDE DEF p
    <2> QED
      BY <1>1, LenProperties
  <1> HIDE DEF p
  <1>3. OneDelete(calls) => OneDelete(p)
    <2> SUFFICES ASSUME OneDelete(calls), NEW i \in DOMAIN p, NEW j \in DOMAIN p,
                        p[i].kind = "delete", p[j].kind = "delete"
                 PROVE  i = j
      BY DEF OneDelete
    <2> DEFINE At(m) == IF m < n THEN m ELSE m + 1
    <2>1. At(i) \in DOMAIN calls /\ At(j) \in DOMAIN calls
      BY <1>2
    <2>2. calls[At(i)] = p[i] /\ calls[At(j)] = p[j]
      BY <1>1
    <2>3. At(i) = At(j)
      BY <2>1, <2>2 DEF OneDelete
    <2> QED
      BY <1>2, <2>3
  <1>4. q \in Seq(CallType) /\ Joins(q, p, new)
    BY <1>1, AndThen
  <1> HIDE DEF q
  <1>5. OneDelete(calls) /\ (\A c \in N : c.kind # "delete") => OneDelete(q)
    BY <1>3, <1>4 DEF OneDelete, Joins
  <1>6. \A i \in DOMAIN q :
          (\E j \in DOMAIN calls \ {n} : q[i] = calls[j]) \/ q[i] \in N
    <2> SUFFICES ASSUME NEW i \in DOMAIN q
                 PROVE  (\E j \in DOMAIN calls \ {n} : q[i] = calls[j]) \/ q[i] \in N
      OBVIOUS
    <2>1. CASE i \in DOMAIN p /\ q[i] = p[i]
      BY <1>1, <2>1
    <2>2. CASE \E j \in DOMAIN new : q[i] = new[j]
      BY <2>2
    <2> QED
      BY <1>4, <2>1, <2>2 DEF Joins
  <1>7. /\ \A j \in DOMAIN calls \ {n} : \E i \in DOMAIN q : q[i] = calls[j]
        /\ \A c \in N : \E i \in DOMAIN q : q[i] = c
    BY <1>1, <1>4 DEF Joins
  <1>8. Len(q) = Len(calls) + Len(new) - 1
    BY <1>1, <1>2, <1>4 DEF Joins
  <1>9. Follows(q, n, Len(new), N)
    BY <1>4, <1>5, <1>6, <1>7, <1>8 DEF Follows
  <1> QED
    BY <1>9 DEF q, p

Reloads(o) == {Call("list", o, None), Call("routes", o, None)}

\* The calls that are made have their type.
LEMMA CallTyped ==
  ASSUME NEW o \in Owners
  PROVE  /\ Call("list", o, None) \in CallType /\ Call("routes", o, None) \in CallType
         /\ Call("delete", o, None) \in CallType
         /\ \A i \in Ids : Call("trace", o, i) \in CallType
  BY DEF Call, CallType, CallOf

\* The tables are asked for.
LEMMA AddedReload ==
  ASSUME calls \in Seq(CallType), NEW o \in Owners
  PROVE  Follows(calls \o Reload(o), 0, 2, Reloads(o))
  <1>1. /\ Reload(o) \in Seq(CallType) /\ Len(Reload(o)) = 2
        /\ Reloads(o) = {Reload(o)[j] : j \in DOMAIN Reload(o)}
    <2>1. \A c, d \in CallType :
            /\ <<c, d>> \in Seq(CallType) /\ Len(<<c, d>>) = 2
            /\ {c, d} = {<<c, d>>[j] : j \in DOMAIN <<c, d>>}
      OBVIOUS
    <2> QED
      BY <2>1, CallTyped DEF Reload, Reloads
  <1> HIDE DEF Reload, Reloads
  <1> QED
    BY <1>1, Added

\* A call is handled, and the tables are asked for.
LEMMA HandledReload ==
  ASSUME calls \in Seq(CallType), NEW n \in DOMAIN calls, NEW o \in Owners
  PROVE  Follows(Handled(n) \o Reload(o), n, 2, Reloads(o))
  <1>1. /\ Reload(o) \in Seq(CallType) /\ Len(Reload(o)) = 2
        /\ Reloads(o) = {Reload(o)[j] : j \in DOMAIN Reload(o)}
    <2>1. \A c, d \in CallType :
            /\ <<c, d>> \in Seq(CallType) /\ Len(<<c, d>>) = 2
            /\ {c, d} = {<<c, d>>[j] : j \in DOMAIN <<c, d>>}
      OBVIOUS
    <2> QED
      BY <2>1, CallTyped DEF Reload, Reloads
  <1> HIDE DEF Reload, Reloads
  <1> QED
    BY <1>1, HandledAnd

\* One call is made.
LEMMA AddedOne ==
  ASSUME calls \in Seq(CallType), NEW c \in CallType
  PROVE  Follows(Append(calls, c), 0, 1, {c})
  <1>1. /\ <<c>> \in Seq(CallType) /\ Len(<<c>>) = 1
        /\ {c} = {<<c>>[j] : j \in DOMAIN <<c>>}
    OBVIOUS
  <1>2. Append(calls, c) = calls \o <<c>>
    BY AppendIsConcat
  <1>3. Follows(calls \o <<c>>, 0, Len(<<c>>), {c})
    BY <1>1, Added
  <1> QED
    BY <1>1, <1>2, <1>3

\* A call is handled.
LEMMA HandledOnly ==
  ASSUME calls \in Seq(CallType), NEW n \in DOMAIN calls
  PROVE  Follows(Handled(n), n, 0, {})
  <1>1. /\ << >> \in Seq(CallType) /\ Len(<< >>) = 0
        /\ {} = {<< >>[j] : j \in DOMAIN << >>}
    OBVIOUS
  <1>2. Handled(n) \in Seq(CallType)
    BY Without DEF Handled
  <1>3. Handled(n) = Handled(n) \o << >>
    <2> HIDE DEF Handled
    <2> QED
      BY <1>2, ConcatEmptySeq
  <1>4. Follows(Handled(n) \o << >>, n, Len(<< >>), {})
    BY <1>1, HandledAnd
  <1> QED
    BY <1>1, <1>3, <1>4

\* A call is handled, and another one is made.
LEMMA HandledOne ==
  ASSUME calls \in Seq(CallType), NEW n \in DOMAIN calls, NEW c \in CallType
  PROVE  Follows(Append(Handled(n), c), n, 1, {c})
  <1>1. /\ <<c>> \in Seq(CallType) /\ Len(<<c>>) = 1
        /\ {c} = {<<c>>[j] : j \in DOMAIN <<c>>}
    OBVIOUS
  <1>2. Handled(n) \in Seq(CallType)
    BY Without DEF Handled
  <1>3. Append(Handled(n), c) = Handled(n) \o <<c>>
    <2> HIDE DEF Handled
    <2> QED
      BY <1>2, AppendIsConcat
  <1>4. Follows(Handled(n) \o <<c>>, n, Len(<<c>>), {c})
    BY <1>1, HandledAnd
  <1> QED
    BY <1>1, <1>3, <1>4

-----------------------------------------------------------------------------
(***************************************************************************)
(* Type correctness.                                                       *)
(***************************************************************************)
\* A clear under way leaves room for the two calls that follow it.
Fits == Len(calls) + (IF clear = "deleting" THEN 1 ELSE 0) <= MaxCalls

\* An answer holds traces that were saved.
Known == \A n \in DOMAIN calls : calls[n].got \subseteq saved

\* What the clear button awaits says which of its calls are under way.
Deleting ==
    /\ OneDelete(calls)
    /\ \A n \in DOMAIN calls : calls[n].kind = "delete" =>
         clear = "deleting" /\ calls[n].owner = "clear"

Reloading ==
    \A n \in DOMAIN calls : calls[n].owner = "clear" /\ calls[n].kind # "delete" =>
        clear = "reloading"

PageInv == TypeOK /\ Fits /\ Known /\ Deleting /\ Reloading

\* What a call for one thing is not.
LEMMA CallFacts ==
  ASSUME NEW o, NEW i, NEW k
  PROVE  /\ Call(k, o, i).kind = k /\ Call(k, o, i).owner = o
         /\ Call(k, o, i).id = i /\ Call(k, o, i).got = {}
         /\ Call(k, o, i).at = "sent"
  BY DEF Call

LEMMA PageInit == Init => PageInv
  <1> SUFFICES ASSUME Init PROVE PageInv
    OBVIOUS
  <1> DEFINE c == Call("list", "page", None)
             d == Call("routes", "page", None)
  <1>1. c \in CallType /\ d \in CallType
    BY CallTyped DEF Owners
  <1>2. calls = <<c, d>> /\ c.kind = "list" /\ d.kind = "routes" /\ c.got = {} /\ d.got = {}
        /\ c.owner = "page" /\ d.owner = "page"
    BY CallFacts DEF Init
  <1> HIDE DEF c, d
  <1>3. /\ calls \in Seq(CallType) /\ Len(calls) = 2 /\ DOMAIN calls = {1, 2}
        /\ calls[1] = c /\ calls[2] = d
    BY <1>1, <1>2
  <1>4. Fits /\ Known /\ Deleting /\ Reloading
    BY <1>2, <1>3, CallsAssumption DEF Init, Fits, Known, Deleting, Reloading, OneDelete
  <1>5. TypeOK
    BY <1>3, CallsAssumption DEF Init, TypeOK, Hint
  <1> QED
    BY <1>4, <1>5 DEF PageInv

\* Calls that are made or handled leave the list as it should be, if what the
\* clear button awaits is true of them.
LEMMA CallsStay ==
  ASSUME PageInv, NEW n, NEW k \in {0, 1, 2}, NEW N, Follows(calls', n, k, N),
         saved' = saved, \A c \in N : c.kind # "delete" /\ c.got = {},
         clear' = "deleting" => clear = "deleting",
         \A j \in DOMAIN calls \ {n} :
           calls[j].owner = "clear" => clear' = clear,
         \A c \in N : c.owner = "clear" => clear' = "reloading",
         Len(calls) + k - (IF n \in DOMAIN calls THEN 1 ELSE 0)
           + (IF clear' = "deleting" THEN 1 ELSE 0) <= MaxCalls
  PROVE  /\ calls' \in Seq(CallType) /\ Len(calls') <= MaxCalls
         /\ Fits' /\ Known' /\ Deleting' /\ Reloading'
  <1>1. /\ calls' \in Seq(CallType)
        /\ Len(calls') = Len(calls) + k - (IF n \in DOMAIN calls THEN 1 ELSE 0)
        /\ \A i \in DOMAIN calls' :
             (\E j \in DOMAIN calls \ {n} : calls'[i] = calls[j]) \/ calls'[i] \in N
        /\ OneDelete(calls')
    BY DEF Follows, PageInv, Deleting
  <1>2. Len(calls') \in Nat /\ Len(calls) \in Nat
    BY <1>1, LenProperties DEF PageInv, TypeOK
  <1>3. Len(calls') <= MaxCalls /\ Fits'
    BY <1>1, <1>2, CallsAssumption DEF Fits
  <1>4. Known'
    BY <1>1 DEF PageInv, Known
  <1>5. Deleting'
    <2>1. ASSUME NEW i \in DOMAIN calls', calls'[i].kind = "delete"
          PROVE  clear' = "deleting" /\ calls'[i].owner = "clear"
      BY <1>1, <2>1 DEF PageInv, Deleting
    <2> QED
      BY <1>1, <2>1 DEF Deleting, OneDelete
  <1>6. Reloading'
    BY <1>1 DEF PageInv, Reloading
  <1> QED
    BY <1>1, <1>3, <1>4, <1>5, <1>6

\* An answer changes what a call has got, and nothing else of it.
LEMMA AnswerEffect ==
  ASSUME PageInv, NEW n, Answer(n)
  PROVE  /\ calls' \in Seq(CallType) /\ DOMAIN calls' = DOMAIN calls
         /\ Len(calls') = Len(calls) /\ n \in DOMAIN calls
         /\ \A i \in DOMAIN calls :
              /\ calls'[i].kind = calls[i].kind /\ calls'[i].owner = calls[i].owner
              /\ calls'[i].id = calls[i].id
         /\ \A i \in DOMAIN calls \ {n} : calls'[i] = calls[i]
         /\ calls'[n].got = {} \/ calls'[n].got = store
         /\ calls'[n].got # {} =>
              (calls[n].kind = "list" /\ store' = store)
                \/ (calls[n].kind = "delete" /\ store' = {})
         /\ store' = store \/ store' = {}
  <1>1. PICK ok \in BOOLEAN :
           /\ calls' = [calls EXCEPT ![n] = Answered(@, ok)]
           /\ \/ ~ok /\ UNCHANGED store
              \/ store' = IF calls[n].kind = "delete" THEN {} ELSE store
    BY DEF Answer
  <1>2. n \in DOMAIN calls /\ calls \in Seq(CallType)
    BY DEF Answer, PageInv, TypeOK
  <1>3. calls[n] \in CallType
    BY <1>2, ElementOfSeq, LenProperties
  <1>4. store \in SUBSET Ids
    BY DEF PageInv, TypeOK
  <1> DEFINE a == Answered(calls[n], ok)
             c == calls[n]
  <1>5. /\ a.kind = c.kind /\ a.owner = c.owner /\ a.id = c.id
        /\ a.got = IF ok /\ c.kind \in {"list", "delete"} THEN store ELSE {}
        /\ a \in CallType
    <2> HIDE DEF c
    <2>1. c \in CallType
      BY <1>3 DEF c
    <2>2. Answered(c, ok) \in CallType
      <3>1. CASE c \in CallOf({"trace"}, Ids)
        BY <1>4, <3>1 DEF Answered, CallType, CallOf
      <3>2. CASE c \in CallOf({"list", "routes", "delete"}, {None})
        BY <1>4, <3>2 DEF Answered, CallType, CallOf
      <3> QED
        BY <2>1, <3>1, <3>2 DEF CallType
    <2>3. /\ Answered(c, ok).kind = c.kind /\ Answered(c, ok).owner = c.owner
          /\ Answered(c, ok).id = c.id
          /\ Answered(c, ok).got = IF ok /\ c.kind \in {"list", "delete"} THEN store ELSE {}
      BY <2>1 DEF Answered, CallType, CallOf
    <2> QED
      BY <2>2, <2>3 DEF c
  <1> HIDE DEF a
  <1>6. calls' = [calls EXCEPT ![n] = a]
    BY <1>1 DEF a
  <1>7. calls' \in Seq(CallType) /\ Len(calls') = Len(calls) /\ DOMAIN calls' = DOMAIN calls
    BY <1>2, <1>5, <1>6, ExceptSeq, LenProperties
  <1>8. calls'[n] = a /\ \A i \in DOMAIN calls \ {n} : calls'[i] = calls[i]
    BY <1>2, <1>6
  <1> QED
    BY <1>1, <1>2, <1>5, <1>7, <1>8

\* A callback that does not confirm a clear: what it leaves under way.
ReloadedBy(n) ==
    \/ /\ Follows(calls', n, 0, {})
       /\ ~IsLastOf(n) \/ calls[n].owner = "page"
       /\ UNCHANGED <<selected, detail, refresh, clear, hasty>>
    \/ /\ Follows(calls', n, 0, {})
       /\ IsLastOf(n) /\ calls[n].owner = "clear"
       /\ detail' = Hint /\ clear' = "idle" /\ UNCHANGED <<selected, refresh, hasty>>
    \/ /\ Follows(calls', n, 1, {Call("trace", "refresh", selected)})
       /\ selected \in Ids /\ refresh' = "loading"
       /\ hasty' = (Crossing(selected) \/ clear = "reloading")
       /\ UNCHANGED <<selected, detail, clear>>
    \/ /\ Follows(calls', n, 0, {})
       /\ refresh' = "idle" /\ UNCHANGED <<selected, detail, clear, hasty>>

LEMMA ReloadedEffect ==
  ASSUME TypeOK, NEW n \in DOMAIN calls, Reloaded(n)
  PROVE  ReloadedBy(n)
  <1>1. calls \in Seq(CallType) /\ selected \in Ids \cup {None}
    BY DEF TypeOK
  <1>2. Follows(Handled(n), n, 0, {})
    BY <1>1, HandledOnly
  <1>3. CASE EmptiesPanel(n)
    BY <1>2, <1>3 DEF EmptiesPanel, ReloadedBy
  <1>4. CASE LoadsSelected(n)
    <2>1. selected \in Ids
      BY <1>1, <1>4 DEF LoadsSelected, Selection
    <2>2. Call("trace", "refresh", selected) \in CallType
      BY <2>1, CallTyped DEF Owners
    <2>3. calls' = Append(Handled(n), Call("trace", "refresh", selected))
      BY <1>4 DEF LoadsSelected
    <2>4. Follows(calls', n, 1, {Call("trace", "refresh", selected)})
      BY <1>1, <2>2, <2>3, HandledOne
    <2> QED
      BY <1>4, <2>1, <2>4 DEF LoadsSelected, ReloadedBy
  <1>5. CASE EndsRefresh(n)
    BY <1>2, <1>5 DEF EndsRefresh, Enabled, ReloadedBy
  <1>6. CASE /\ ~IsLastOf(n) \/ calls[n].owner = "page"
             /\ calls' = Handled(n)
             /\ UNCHANGED <<selected, detail, refresh, clear, hasty>>
    BY <1>2, <1>6 DEF ReloadedBy
  <1> QED
    BY <1>3, <1>4, <1>5, <1>6 DEF Reloaded

\* Rendering a table keeps the types.
LEMMA ReloadedTyped ==
  ASSUME PageInv, NEW n \in DOMAIN calls, calls[n].kind \in {"list", "routes"},
         Reloaded(n), rows' = rows \/ rows' = calls[n].got,
         UNCHANGED <<store, saved, cleared, crossed>>
  PROVE  PageInv'
  <1>1. ReloadedBy(n)
    BY ReloadedEffect DEF PageInv
  <1>2. rows' \subseteq saved
    BY DEF PageInv, TypeOK, Known
  <1>3. /\ clear \in {"idle", "deleting", "reloading"} /\ hasty \in BOOLEAN
        /\ Len(calls) \in Nat /\ MaxCalls \in Nat
    BY LenProperties, CallsAssumption DEF PageInv, TypeOK
  <1>4. calls[n].owner = "clear" => clear = "reloading"
    BY DEF PageInv, Reloading
  <1> DEFINE Kept == /\ calls' \in Seq(CallType) /\ Len(calls') <= MaxCalls
                     /\ Fits' /\ Known' /\ Deleting' /\ Reloading'
  <1>5. Kept /\ hasty' \in BOOLEAN /\ clear' \in {"idle", "deleting", "reloading"}
        /\ refresh' \in {"idle", "reloading", "loading"} /\ selected' = selected
        /\ detail' \in [shows : {"hint", "trace", "error"}, id : Ids \cup {None}]
    <2>0. detail \in [shows : {"hint", "trace", "error"}, id : Ids \cup {None}]
          /\ refresh \in {"idle", "reloading", "loading"}
      BY DEF PageInv, TypeOK
    <2>1. CASE Follows(calls', n, 0, {}) /\ clear' = clear
      <3>1. Kept
        BY <1>3, <2>1, CallsStay DEF PageInv, Fits
      <3>2. /\ hasty' \in BOOLEAN /\ selected' = selected
            /\ refresh' \in {"idle", "reloading", "loading"}
        BY <1>1, <1>3, <2>0 DEF ReloadedBy, Crossing
      <3>3. detail' \in {detail, Hint}
        BY <1>1 DEF ReloadedBy
      <3> QED
        BY <1>3, <2>0, <2>1, <3>1, <3>2, <3>3 DEF Hint
    <2>2. CASE /\ Follows(calls', n, 0, {})
               /\ IsLastOf(n) /\ calls[n].owner = "clear"
               /\ detail' = Hint /\ clear' = "idle" /\ UNCHANGED <<selected, refresh, hasty>>
      <3>1. \A j \in DOMAIN calls \ {n} : calls[j].owner # "clear"
        BY <2>2 DEF IsLastOf
      <3>2. Kept
        BY <1>3, <2>2, <3>1, CallsStay DEF PageInv, Fits
      <3> QED
        BY <1>3, <2>0, <2>2, <3>2 DEF Hint
    <2>3. CASE /\ Follows(calls', n, 1, {Call("trace", "refresh", selected)})
               /\ selected \in Ids /\ refresh' = "loading"
               /\ hasty' = (Crossing(selected) \/ clear = "reloading")
               /\ UNCHANGED <<selected, detail, clear>>
      <3>1. \A c \in {Call("trace", "refresh", selected)} :
              c.kind # "delete" /\ c.got = {} /\ c.owner # "clear"
        BY CallFacts
      <3>2. Kept
        <4> DEFINE N == {Call("trace", "refresh", selected)}
        <4>1. /\ Follows(calls', n, 1, N) /\ clear' = clear
              /\ \A c \in N : c.kind # "delete" /\ c.got = {}
              /\ \A c \in N : c.owner = "clear" => clear' = "reloading"
          BY <2>3, <3>1
        <4>2. /\ saved' = saved /\ 1 \in {0, 1, 2}
              /\ clear' = "deleting" => clear = "deleting"
              /\ \A j \in DOMAIN calls \ {n} : calls[j].owner = "clear" => clear' = clear
          BY <4>1
        <4>3. Len(calls) + 1 - (IF n \in DOMAIN calls THEN 1 ELSE 0)
                + (IF clear' = "deleting" THEN 1 ELSE 0) <= MaxCalls
          BY <1>3, <4>1 DEF PageInv, Fits
        <4> HIDE DEF N
        <4> QED
          BY <4>1, <4>2, <4>3, CallsStay, ZenonT(40)
      <3> QED
        BY <1>3, <2>0, <2>3, <3>2
    <2> QED
      BY <1>1, <2>1, <2>2, <2>3 DEF ReloadedBy
  <1> QED
    BY <1>2, <1>5 DEF PageInv, TypeOK

\* What the user does, and what a clear leaves under way.
LEMMA ClickEffects ==
  ASSUME TypeOK
  PROVE  /\ \A i \in Ids : Select(i) =>
              Follows(calls', 0, 1, {Call("trace", "page", i)})
         /\ ActivateRoutes => Follows(calls', 0, 1, {Call("routes", "page", None)})
         /\ ClickRefresh => Follows(calls', 0, 2, Reloads("refresh"))
         /\ ClickClear => Follows(calls', 0, 1, {Call("delete", "clear", None)})
         /\ \A n \in DOMAIN calls :
              /\ ConfirmClear(n) => Follows(calls', n, 2, Reloads("clear"))
              /\ FailClear(n) \/ ShowTrace(n) => Follows(calls', n, 0, {})
  <1>1. calls \in Seq(CallType)
    BY DEF TypeOK
  <1>2. \A i \in Ids : Call("trace", "page", i) \in CallType
    BY CallTyped DEF Owners
  <1>3. Call("routes", "page", None) \in CallType /\ Call("delete", "clear", None) \in CallType
    BY CallTyped DEF Owners
  <1>4. "refresh" \in Owners /\ "clear" \in Owners
    BY DEF Owners
  <1>5. \A i \in Ids : Select(i) => Follows(calls', 0, 1, {Call("trace", "page", i)})
    BY <1>1, <1>2, AddedOne DEF Select
  <1>6. ActivateRoutes => Follows(calls', 0, 1, {Call("routes", "page", None)})
    BY <1>1, <1>3, AddedOne DEF ActivateRoutes
  <1>7. ClickRefresh => Follows(calls', 0, 2, Reloads("refresh"))
    BY <1>1, <1>4, AddedReload DEF ClickRefresh
  <1>8. ClickClear => Follows(calls', 0, 1, {Call("delete", "clear", None)})
    BY <1>1, <1>3, AddedOne DEF ClickClear
  <1>9. \A n \in DOMAIN calls : ConfirmClear(n) => Follows(calls', n, 2, Reloads("clear"))
    BY <1>1, <1>4, HandledReload DEF ConfirmClear
  <1>10. \A n \in DOMAIN calls : FailClear(n) \/ ShowTrace(n) => Follows(calls', n, 0, {})
    BY <1>1, HandledOnly DEF FailClear, ShowTrace
  <1> QED
    BY <1>5, <1>6, <1>7, <1>8, <1>9, <1>10

\* The calls that load the tables.
LEMMA ReloadFacts ==
  ASSUME NEW o, NEW c \in Reloads(o)
  PROVE  c.kind \in {"list", "routes"} /\ c.owner = o /\ c.got = {}
  BY CallFacts DEF Reloads

\* A click of the user keeps the types.
LEMMA ClickTyped ==
  ASSUME PageInv, Click
  PROVE  PageInv'
  <1>1. /\ TypeOK /\ Fits /\ Len(calls) \in Nat /\ MaxCalls \in Nat
        /\ 0 \notin DOMAIN calls
    BY LenProperties, CallsAssumption DEF PageInv, TypeOK
  <1>2. ASSUME NEW i \in Ids, Select(i)
        PROVE  PageInv'
    <2> DEFINE N == {Call("trace", "page", i)}
    <2>1. Follows(calls', 0, 1, N) /\ \A c \in N : c.kind # "delete" /\ c.got = {}
                                                /\ c.owner # "clear"
      BY <1>1, <1>2, ClickEffects, CallFacts
    <2> HIDE DEF N
    <2>2. clear' = clear /\ saved' = saved
          /\ Len(calls) + (IF clear = "deleting" THEN 1 ELSE 0) + 1 <= MaxCalls
      BY <1>2 DEF Select, Room
    <2>3. /\ calls' \in Seq(CallType) /\ Len(calls') <= MaxCalls
          /\ Fits' /\ Known' /\ Deleting' /\ Reloading'
      BY <1>1, <2>1, <2>2, CallsStay
    <2> QED
      BY <1>1, <1>2, <2>3 DEF Select, PageInv, TypeOK, Crossing
  <1>3. CASE ActivateRoutes
    <2> DEFINE N == {Call("routes", "page", None)}
    <2>1. Follows(calls', 0, 1, N) /\ \A c \in N : c.kind # "delete" /\ c.got = {}
                                                /\ c.owner # "clear"
      BY <1>1, <1>3, ClickEffects, CallFacts
    <2> HIDE DEF N
    <2>2. clear' = clear /\ saved' = saved
          /\ Len(calls) + (IF clear = "deleting" THEN 1 ELSE 0) + 1 <= MaxCalls
      BY <1>3 DEF ActivateRoutes, Room
    <2>a. /\ Len(calls) + 1 - (IF 0 \in DOMAIN calls THEN 1 ELSE 0)
               + (IF clear' = "deleting" THEN 1 ELSE 0) <= MaxCalls
          /\ \A c \in N : c.owner = "clear" => clear' = "reloading"
      BY <1>1, <2>1, <2>2
    <2>3. /\ calls' \in Seq(CallType) /\ Len(calls') <= MaxCalls
          /\ Fits' /\ Known' /\ Deleting' /\ Reloading'
      BY <2>1, <2>2, <2>a, CallsStay
    <2> QED
      BY <1>1, <1>3, <2>3 DEF ActivateRoutes, PageInv, TypeOK
  <1>4. CASE ClickRefresh
    <2>1. Follows(calls', 0, 2, Reloads("refresh"))
          /\ \A c \in Reloads("refresh") : c.kind # "delete" /\ c.got = {} /\ c.owner # "clear"
      BY <1>1, <1>4, ClickEffects, ReloadFacts
    <2>2. clear' = clear /\ saved' = saved
          /\ Len(calls) + (IF clear = "deleting" THEN 1 ELSE 0) + 2 <= MaxCalls
      BY <1>4 DEF ClickRefresh, Room
    <2>a. /\ Len(calls) + 2 - (IF 0 \in DOMAIN calls THEN 1 ELSE 0)
               + (IF clear' = "deleting" THEN 1 ELSE 0) <= MaxCalls
          /\ \A c \in Reloads("refresh") : c.owner = "clear" => clear' = "reloading"
      BY <1>1, <2>1, <2>2
    <2>3. /\ calls' \in Seq(CallType) /\ Len(calls') <= MaxCalls
          /\ Fits' /\ Known' /\ Deleting' /\ Reloading'
      BY <2>1, <2>2, <2>a, CallsStay
    <2> QED
      BY <1>1, <1>4, <2>3 DEF ClickRefresh, PageInv, TypeOK
  <1>5. CASE ClickClear
    <2> DEFINE d == Call("delete", "clear", None)
    <2>1. Follows(calls', 0, 1, {d}) /\ d.kind = "delete" /\ d.got = {} /\ d.owner = "clear"
          /\ calls' = Append(calls, d)
      BY <1>1, <1>5, ClickEffects, CallFacts DEF ClickClear
    <2> HIDE DEF d
    <2>2. clear = "idle" /\ clear' = "deleting" /\ saved' = saved /\ Len(calls) + 2 <= MaxCalls
      BY <1>5 DEF ClickClear, Room
    <2>3. /\ calls' \in Seq(CallType) /\ Len(calls') = Len(calls) + 1
          /\ \A i \in DOMAIN calls' :
               \/ i \in DOMAIN calls /\ calls'[i] = calls[i]
               \/ i = Len(calls) + 1 /\ calls'[i] = d
      <3>1. calls \in Seq(CallType) /\ calls' \in Seq(CallType)
        BY <1>1, <2>1 DEF TypeOK, Follows
      <3>2. d \in CallType
        BY CallTyped DEF Owners, d
      <3>3. /\ Len(Append(calls, d)) = Len(calls) + 1
            /\ \A i \in 1 .. Len(calls) : Append(calls, d)[i] = calls[i]
            /\ Append(calls, d)[Len(calls) + 1] = d
        BY <3>1, <3>2, AppendProperties
      <3>4. DOMAIN calls = 1 .. Len(calls) /\ DOMAIN calls' = 1 .. Len(calls')
        BY <3>1, LenProperties
      <3>5. \A i \in 1 .. (Len(calls) + 1) : i \in 1 .. Len(calls) \/ i = Len(calls) + 1
        BY <1>1
      <3>6. Len(calls') = Len(calls) + 1
        BY <2>1, <3>3
      <3>7. DOMAIN calls' = 1 .. (Len(calls) + 1)
        BY <3>4, <3>6
      <3>8. ASSUME NEW i \in DOMAIN calls'
            PROVE  \/ i \in DOMAIN calls /\ calls'[i] = calls[i]
                   \/ i = Len(calls) + 1 /\ calls'[i] = d
        BY <2>1, <3>3, <3>4, <3>5, <3>7
      <3> QED
        BY <3>1, <3>6, <3>8
    <2>4. \A i \in DOMAIN calls : calls[i].kind # "delete" /\ calls[i].owner # "clear"
      BY <2>2 DEF PageInv, Deleting, Reloading
    <2>5. Known' /\ Deleting' /\ Reloading'
      BY <2>1, <2>2, <2>3, <2>4 DEF PageInv, Known, Deleting, Reloading, OneDelete
    <2>6. Fits' /\ Len(calls') <= MaxCalls
      BY <1>1, <2>2, <2>3 DEF Fits
    <2> QED
      BY <1>1, <1>5, <2>3, <2>5, <2>6 DEF ClickClear, PageInv, TypeOK
  <1> QED
    BY <1>2, <1>3, <1>4, <1>5 DEF Click

\* Every step keeps the types.
LEMMA PageStep ==
  ASSUME PageInv, [Next]_vars
  PROVE  PageInv'
  <1>1. /\ TypeOK /\ Fits /\ Len(calls) \in Nat /\ MaxCalls \in Nat
    BY LenProperties, CallsAssumption DEF PageInv, TypeOK
  <1>2. CASE UNCHANGED vars
    BY <1>2 DEF vars, PageInv, TypeOK, Fits, Known, Deleting, Reloading
  <1>3. ASSUME NEW i \in Ids, Save(i)
        PROVE  PageInv'
    <2>1. /\ store' \subseteq saved' /\ saved' \subseteq Ids
          /\ saved \subseteq saved'
          /\ UNCHANGED <<calls, selected, rows, detail, refresh, clear, cleared, hasty, crossed>>
      BY <1>1, <1>3 DEF Save, TypeOK
    <2>2. Fits' /\ Known' /\ Deleting' /\ Reloading'
      BY <2>1 DEF PageInv, Fits, Known, Deleting, Reloading
    <2> QED
      BY <1>1, <2>1, <2>2 DEF PageInv, TypeOK
  <1>4. ASSUME NEW n, Answer(n)
        PROVE  PageInv'
    <2>1. /\ calls' \in Seq(CallType) /\ DOMAIN calls' = DOMAIN calls
          /\ Len(calls') = Len(calls) /\ n \in DOMAIN calls
          /\ \A i \in DOMAIN calls :
               /\ calls'[i].kind = calls[i].kind /\ calls'[i].owner = calls[i].owner
               /\ calls'[i].id = calls[i].id
          /\ \A i \in DOMAIN calls \ {n} : calls'[i] = calls[i]
          /\ calls'[n].got = {} \/ calls'[n].got = store
          /\ store' = store \/ store' = {}
      BY <1>4, AnswerEffect
    <2>2. UNCHANGED <<saved, selected, rows, detail, refresh, clear, cleared, hasty, crossed>>
      BY <1>4 DEF Answer
    <2>3. Fits'
      BY <1>1, <2>1, <2>2 DEF Fits
    <2>4. Known'
      BY <1>1, <2>1, <2>2 DEF PageInv, Known, TypeOK
    <2>5. Deleting' /\ Reloading'
      BY <2>1, <2>2 DEF PageInv, Deleting, Reloading, OneDelete
    <2> QED
      BY <1>1, <2>1, <2>2, <2>3, <2>4, <2>5 DEF PageInv, TypeOK
  <1>5. ASSUME NEW n, ShowList(n) \/ ShowRoutes(n)
        PROVE  PageInv'
    <2>1. n \in DOMAIN calls /\ calls[n].kind \in {"list", "routes"} /\ Reloaded(n)
          /\ (rows' = rows \/ rows' = calls[n].got)
          /\ UNCHANGED <<store, saved, cleared, crossed>>
      BY <1>5 DEF ShowList, ShowRoutes, Arrives
    <2> QED
      BY <2>1, ReloadedTyped
  <1>6. ASSUME NEW n, ShowTrace(n)
        PROVE  PageInv'
    <2>1. n \in DOMAIN calls /\ Follows(calls', n, 0, {}) /\ calls[n] \in CallType
          /\ calls[n].kind = "trace"
      <3>1. n \in DOMAIN calls /\ calls[n].kind = "trace"
        BY <1>6 DEF ShowTrace, Arrives
      <3> QED
        BY <1>1, <1>6, <3>1, ClickEffects, ElementOfSeq, LenProperties DEF TypeOK
    <2>2. UNCHANGED <<store, saved, selected, rows, clear, cleared, hasty, crossed>>
      BY <1>6 DEF ShowTrace
    <2>3. /\ calls' \in Seq(CallType) /\ Len(calls') <= MaxCalls
          /\ Fits' /\ Known' /\ Deleting' /\ Reloading'
      BY <1>1, <2>1, <2>2, CallsStay DEF Fits
    <2>4. calls[n].id \in Ids
      BY <2>1 DEF CallType, CallOf
    <2>5. /\ detail' \in [shows : {"hint", "trace", "error"}, id : Ids \cup {None}]
          /\ refresh' \in {refresh, "idle"}
      BY <1>6, <2>4 DEF ShowTrace, Enabled
    <2> QED
      BY <1>1, <2>2, <2>3, <2>5 DEF PageInv, TypeOK
  <1>7. ASSUME NEW n, ConfirmClear(n)
        PROVE  PageInv'
    <2>1. n \in DOMAIN calls /\ calls[n].kind = "delete" /\ Follows(calls', n, 2, Reloads("clear"))
      BY <1>1, <1>7, ClickEffects DEF ConfirmClear, Arrives
    <2>2. /\ clear' = "reloading" /\ selected' = None /\ saved' = saved
          /\ cleared' = cleared \cup calls[n].got
          /\ hasty' \in BOOLEAN /\ crossed' \in BOOLEAN
          /\ UNCHANGED <<store, rows, detail, refresh>>
      BY <1>7 DEF ConfirmClear, Deselected
    <2>3. clear = "deleting" /\ \A j \in DOMAIN calls \ {n} :
                                  calls[j].kind # "delete" /\ calls[j].owner # "clear"
      BY <2>1 DEF PageInv, Deleting, Reloading, OneDelete
    <2>4. \A c \in Reloads("clear") : c.kind # "delete" /\ c.got = {}
      BY ReloadFacts
    <2>5. /\ calls' \in Seq(CallType) /\ Len(calls') <= MaxCalls
          /\ Fits' /\ Known' /\ Deleting' /\ Reloading'
      BY <1>1, <2>1, <2>2, <2>3, <2>4, CallsStay DEF Fits
    <2>6. cleared' \subseteq saved
      BY <1>1, <2>1, <2>2 DEF PageInv, Known, TypeOK
    <2> QED
      BY <1>1, <2>2, <2>5, <2>6 DEF PageInv, TypeOK
  <1>8. ASSUME NEW n, FailClear(n)
        PROVE  PageInv'
    <2>1. n \in DOMAIN calls /\ calls[n].kind = "delete" /\ Follows(calls', n, 0, {})
      BY <1>1, <1>8, ClickEffects DEF FailClear, Arrives
    <2>2. /\ clear' = "idle" /\ UNCHANGED <<store, saved, selected, rows, detail, refresh,
                                         cleared, hasty, crossed>>
      BY <1>8 DEF FailClear
    <2>3. clear = "deleting" /\ \A j \in DOMAIN calls \ {n} :
                                  calls[j].kind # "delete" /\ calls[j].owner # "clear"
      BY <2>1 DEF PageInv, Deleting, Reloading, OneDelete
    <2>4. /\ calls' \in Seq(CallType) /\ Len(calls') <= MaxCalls
          /\ Fits' /\ Known' /\ Deleting' /\ Reloading'
      BY <1>1, <2>1, <2>2, <2>3, CallsStay DEF Fits
    <2> QED
      BY <1>1, <2>2, <2>4 DEF PageInv, TypeOK
  <1>9. CASE Click
    BY <1>9, ClickTyped
  <1> QED
    BY <1>2, <1>3, <1>4, <1>5, <1>6, <1>7, <1>8, <1>9 DEF Next, Arrive

\* Every variable of the page has its type, and no more calls are under way
\* than the bound admits.
THEOREM PageTypes == Spec => []TypeOK
  <1>1. PageInv => TypeOK
    BY DEF PageInv
  <1>2. Spec => []PageInv
    <2>1. PageInv /\ [Next]_vars => PageInv'
      BY PageStep
    <2> QED
      BY <2>1, PageInit, PTL DEF Spec
  <1> QED
    BY <1>1, <1>2, PTL

-----------------------------------------------------------------------------
(***************************************************************************)
(* The panel.                                                              *)
(***************************************************************************)
\* Unless the user was hasty, every detail under way is that of the selection,
\* and while the tables of a cleared store load nothing is selected.
PanelInv ==
    ~hasty =>
        IF clear = "reloading"
          THEN selected = None /\ Pending("trace") = {}
          ELSE /\ ~Crossing(selected)
               /\ Pending("trace") = {} => detail.id = selected

\* A step that adds no call for a detail and takes none away.
LEMMA SamePending ==
  ASSUME NEW n, NEW k, NEW N, Follows(calls', n, k, N),
         n \in DOMAIN calls => calls[n].kind # "trace",
         \A c \in N : c.kind # "trace"
  PROVE  /\ Pending("trace")' = {} <=> Pending("trace") = {}
         /\ \A i : Crossing(i)' <=> Crossing(i)
  <1>1. ASSUME NEW i \in DOMAIN calls', calls'[i].kind = "trace"
        PROVE  \E j \in DOMAIN calls : calls[j] = calls'[i]
    BY <1>1 DEF Follows
  <1>2. ASSUME NEW j \in DOMAIN calls, calls[j].kind = "trace"
        PROVE  \E i \in DOMAIN calls' : calls'[i] = calls[j]
    BY <1>2 DEF Follows
  <1>3. Pending("trace")' = {} <=> Pending("trace") = {}
    BY <1>1, <1>2 DEF Pending
  <1>4. ASSUME NEW i PROVE Crossing(i)' <=> Crossing(i)
    BY <1>1, <1>2 DEF Crossing, Pending
  <1> QED
    BY <1>3, <1>4

\* A step after which only the new calls, if any, are for a detail of another
\* trace than i, when no call was.
LEMMA OnlyNew ==
  ASSUME NEW n, NEW k, NEW N, Follows(calls', n, k, N), NEW i,
         \A c \in N : c.kind = "trace" => c.id = i
  PROVE  ~Crossing(i) => ~Crossing(i)'
  BY DEF Follows, Crossing, Pending

\* Every step keeps the panel with the selection.
LEMMA PanelStep ==
  ASSUME PageInv, PanelInv, [Next]_vars
  PROVE  PanelInv'
  <1>0. TypeOK
    BY DEF PageInv
  <1>a. ASSUME NEW n, NEW k, NEW N, Follows(calls', n, k, N),
               n \in DOMAIN calls => calls[n].kind # "trace",
               \A c \in N : c.kind # "trace",
               UNCHANGED <<selected, detail, hasty>>,
               clear' = clear \/ {clear, clear'} = {"idle", "deleting"}
        PROVE  PanelInv'
    BY <1>a, SamePending DEF PanelInv
  <1>2. CASE UNCHANGED vars
    BY <1>2 DEF vars, PanelInv, Pending, Crossing
  <1>3. ASSUME NEW i \in Ids, Save(i)
        PROVE  PanelInv'
    BY <1>3 DEF Save, PanelInv, Pending, Crossing
  <1>4. ASSUME NEW n, Answer(n)
        PROVE  PanelInv'
    <2>1. /\ DOMAIN calls' = DOMAIN calls
          /\ \A i \in DOMAIN calls :
               calls'[i].kind = calls[i].kind /\ calls'[i].id = calls[i].id
      BY <1>4, AnswerEffect
    <2>2. UNCHANGED <<selected, detail, hasty, clear>>
      BY <1>4 DEF Answer
    <2> QED
      BY <2>1, <2>2 DEF PanelInv, Pending, Crossing
  <1>5. ASSUME NEW n, ShowList(n) \/ ShowRoutes(n)
        PROVE  PanelInv'
    <2>1. n \in DOMAIN calls /\ calls[n].kind # "trace" /\ Reloaded(n)
      BY <1>5 DEF ShowList, ShowRoutes, Arrives
    <2>2. ReloadedBy(n)
      BY <1>0, <2>1, ReloadedEffect
    <2>3. CASE Follows(calls', n, 0, {}) /\ UNCHANGED <<selected, detail, clear, hasty>>
      BY <1>a, <2>1, <2>3
    <2>4. CASE /\ Follows(calls', n, 0, {}) /\ calls[n].owner = "clear"
               /\ detail' = Hint /\ clear' = "idle" /\ UNCHANGED <<selected, hasty>>
      <3>1. clear = "reloading"
        BY <2>1, <2>4, <1>5 DEF PageInv, Reloading, ShowList, ShowRoutes, Arrives
      <3>2. /\ Pending("trace")' = {} <=> Pending("trace") = {}
            /\ \A i : Crossing(i)' <=> Crossing(i)
        BY <2>1, <2>4, SamePending
      <3>3. Pending("trace") = {} => ~Crossing(selected)
        BY DEF Crossing
      <3> QED
        BY <2>4, <3>1, <3>2, <3>3 DEF PanelInv, Hint
    <2>5. CASE /\ Follows(calls', n, 1, {Call("trace", "refresh", selected)})
               /\ hasty' = (Crossing(selected) \/ clear = "reloading")
               /\ UNCHANGED <<selected, detail, clear>>
      <3> DEFINE c == Call("trace", "refresh", selected)
      <3>1. c.kind = "trace" /\ c.id = selected /\ Follows(calls', n, 1, {c})
        BY <2>5, CallFacts
      <3> HIDE DEF c
      <3>2. ~Crossing(selected) => ~Crossing(selected)'
        <4>1. ASSUME NEW i, i = selected
              PROVE  ~Crossing(i) => ~Crossing(i)'
          BY <3>1, <4>1, OnlyNew
        <4>2. Crossing(selected)' <=> \E m \in Pending("trace")' : calls'[m].id # selected
          BY <2>5 DEF Crossing
        <4> QED
          BY <4>1, <4>2 DEF Crossing
      <3>3. Pending("trace")' # {}
        BY <3>1 DEF Follows, Pending
      <3> QED
        BY <2>5, <3>2, <3>3 DEF PanelInv
    <2> QED
      BY <2>2, <2>3, <2>4, <2>5 DEF ReloadedBy
  <1>6. ASSUME NEW n, ShowTrace(n)
        PROVE  PanelInv'
    <2>1. n \in DOMAIN calls /\ calls[n].kind = "trace"
      BY <1>6 DEF ShowTrace, Arrives
    <2>2. Follows(calls', n, 0, {})
      BY <1>0, <1>6, <2>1, ClickEffects
    <2>3. detail'.id = calls[n].id /\ UNCHANGED <<selected, clear, hasty>>
      BY <1>6 DEF ShowTrace
    <2>4. ~Crossing(selected) => ~Crossing(selected)' /\ calls[n].id = selected
      <3>1. ASSUME NEW i, i = selected
            PROVE  ~Crossing(i) => ~Crossing(i)'
        BY <2>2, <3>1, OnlyNew
      <3>2. ~Crossing(selected) => calls[n].id = selected
        BY <2>1 DEF Crossing, Pending
      <3> QED
        BY <2>3, <3>1, <3>2 DEF Crossing
    <2>5. Pending("trace") # {}
      BY <2>1 DEF Pending
    <2> QED
      BY <2>3, <2>4, <2>5 DEF PanelInv
  <1>7. ASSUME NEW n, ConfirmClear(n)
        PROVE  PanelInv'
    <2>1. n \in DOMAIN calls /\ calls[n].kind = "delete" /\ Follows(calls', n, 2, Reloads("clear"))
      BY <1>0, <1>7, ClickEffects DEF ConfirmClear, Arrives
    <2>2. clear' = "reloading" /\ selected' = None /\ hasty' = (Pending("trace") # {})
      BY <1>7 DEF ConfirmClear, Deselected
    <2>3. Pending("trace")' = {} <=> Pending("trace") = {}
      BY <2>1, SamePending, ReloadFacts
    <2> QED
      BY <2>2, <2>3 DEF PanelInv
  <1>8. ASSUME NEW n, FailClear(n)
        PROVE  PanelInv'
    <2>1. n \in DOMAIN calls /\ calls[n].kind = "delete" /\ Follows(calls', n, 0, {})
      BY <1>0, <1>8, ClickEffects DEF FailClear, Arrives
    <2>2. clear = "deleting" /\ clear' = "idle" /\ UNCHANGED <<selected, detail, hasty>>
      BY <1>8, <2>1 DEF FailClear, PageInv, Deleting
    <2> QED
      BY <1>a, <2>1, <2>2
  <1>9. ASSUME NEW i \in Ids, Select(i)
        PROVE  PanelInv'
    <2> DEFINE c == Call("trace", "page", i)
    <2>1. Follows(calls', 0, 1, {c}) /\ c.kind = "trace" /\ c.id = i
      BY <1>0, <1>9, ClickEffects, CallFacts
    <2> HIDE DEF c
    <2>2. selected' = i /\ clear' = clear /\ hasty' = (Crossing(i) \/ clear = "reloading")
      BY <1>9 DEF Select
    <2>3. ~Crossing(i) => ~Crossing(i)'
      BY <2>1, OnlyNew
    <2>4. Pending("trace")' # {}
      BY <2>1 DEF Follows, Pending
    <2>5. Crossing(selected)' <=> Crossing(i)'
      BY <2>2 DEF Crossing
    <2> QED
      BY <2>2, <2>3, <2>4, <2>5 DEF PanelInv
  <1>10. CASE ActivateRoutes
    <2>1. Follows(calls', 0, 1, {Call("routes", "page", None)})
          /\ Call("routes", "page", None).kind # "trace"
      BY <1>0, <1>10, ClickEffects, CallFacts
    <2>2. 0 \notin DOMAIN calls
      BY <1>0, LenProperties DEF TypeOK
    <2> QED
      BY <1>a, <1>10, <2>1, <2>2 DEF ActivateRoutes
  <1>11. CASE ClickRefresh
    <2>1. Follows(calls', 0, 2, Reloads("refresh"))
      BY <1>0, <1>11, ClickEffects
    <2>2. 0 \notin DOMAIN calls /\ \A c \in Reloads("refresh") : c.kind # "trace"
      BY <1>0, LenProperties, ReloadFacts DEF TypeOK
    <2> QED
      BY <1>a, <1>11, <2>1, <2>2 DEF ClickRefresh
  <1>12. CASE ClickClear
    <2>1. Follows(calls', 0, 1, {Call("delete", "clear", None)})
          /\ Call("delete", "clear", None).kind # "trace"
      BY <1>0, <1>12, ClickEffects, CallFacts
    <2>2. 0 \notin DOMAIN calls
      BY <1>0, LenProperties DEF TypeOK
    <2> QED
      BY <1>a, <1>12, <2>1, <2>2 DEF ClickClear
  <1> QED
    BY <1>2, <1>3, <1>4, <1>5, <1>6, <1>7, <1>8, <1>9, <1>10, <1>11, <1>12
       DEF Next, Arrive, Click

\* The panel shows the selected trace, whatever answers overlap or fail, unless
\* the user was hasty in one of the ways that hasty names.
THEOREM PanelFollows == Spec => []ShowsSelection
  <1>1. Init => PanelInv
    BY CallFacts DEF Init, PanelInv, Pending, Crossing, Hint
  <1>2. PanelInv => ShowsSelection
    BY DEF PanelInv, ShowsSelection
  <1>3. PageInv /\ PanelInv /\ [Next]_vars => (PageInv /\ PanelInv)'
    BY PageStep, PanelStep
  <1> QED
    BY <1>1, <1>2, <1>3, PageInit, PTL DEF Spec

-----------------------------------------------------------------------------
(***************************************************************************)
(* Cleared traces.                                                         *)
(***************************************************************************)
\* The server holds none of the traces it reported as cleared, and will not
\* see them again.  A list under way holds none of them either, unless it
\* crossed the clear.
GoneInv ==
    /\ store \cap cleared = {}
    /\ \A n \in DOMAIN calls : calls[n].kind = "delete" => calls[n].got \cap store = {}
    /\ ~crossed =>
         /\ \A n \in Pending("list") : calls[n].got \cap cleared = {}
         /\ Pending("list") = {} => rows \cap cleared = {}

\* A step that makes and handles calls, and clears nothing.
LEMMA GoneStays ==
  ASSUME PageInv, GoneInv, NEW n, NEW k, NEW N, Follows(calls', n, k, N),
         \A c \in N : c.got = {},
         n \in DOMAIN calls => calls[n].kind # "list" \/ rows' = calls[n].got,
         n \notin DOMAIN calls \/ calls[n].kind # "list" => rows' = rows,
         UNCHANGED <<store, cleared, crossed>>
  PROVE  GoneInv'
  <1>1. \A i \in DOMAIN calls' :
          (\E j \in DOMAIN calls \ {n} : calls'[i] = calls[j]) \/ calls'[i] \in N
    BY DEF Follows
  <1>2. \A j \in DOMAIN calls \ {n} : \E i \in DOMAIN calls' : calls'[i] = calls[j]
    BY DEF Follows
  <1>3. \A i \in DOMAIN calls' : calls'[i].kind = "delete" => calls'[i].got \cap store = {}
    BY <1>1 DEF GoneInv
  <1>4. ASSUME ~crossed
        PROVE  /\ \A i \in Pending("list")' : calls'[i].got \cap cleared = {}
               /\ Pending("list")' = {} => rows' \cap cleared = {}
    <2>1. \A i \in Pending("list")' : calls'[i].got \cap cleared = {}
      BY <1>1, <1>4 DEF GoneInv, Pending
    <2>2. ASSUME Pending("list")' = {}
          PROVE  rows' \cap cleared = {}
      <3>1. \A j \in DOMAIN calls \ {n} : calls[j].kind # "list"
        BY <1>2, <2>2 DEF Pending
      <3>2. CASE n \in DOMAIN calls /\ calls[n].kind = "list"
        BY <1>4, <3>2 DEF GoneInv, Pending
      <3>3. CASE ~(n \in DOMAIN calls /\ calls[n].kind = "list")
        BY <1>4, <3>1, <3>3 DEF GoneInv, Pending
      <3> QED
        BY <3>2, <3>3
    <2> QED
      BY <2>1, <2>2
  <1> QED
    BY <1>3, <1>4 DEF GoneInv

\* Every step keeps the cleared traces away.
LEMMA GoneStep ==
  ASSUME PageInv, GoneInv, [Next]_vars
  PROVE  GoneInv'
  <1>0. TypeOK /\ 0 \notin DOMAIN calls
    BY LenProperties DEF PageInv, TypeOK
  <1>2. CASE UNCHANGED vars
    BY <1>2 DEF vars, GoneInv, Pending
  <1>3. ASSUME NEW i \in Ids, Save(i)
        PROVE  GoneInv'
    <2>1. /\ i \notin saved /\ store' \subseteq store \cup {i}
          /\ UNCHANGED <<calls, rows, cleared, crossed>>
      BY <1>3 DEF Save
    <2>2. i \notin cleared /\ \A n \in DOMAIN calls : i \notin calls[n].got
      BY <2>1 DEF PageInv, TypeOK, Known
    <2>3. store' \cap cleared' = {}
      BY <2>1, <2>2 DEF GoneInv
    <2>4. \A n \in DOMAIN calls : calls[n].kind = "delete" => calls[n].got \cap store' = {}
      BY <2>1, <2>2 DEF GoneInv
    <2> QED
      BY <2>1, <2>3, <2>4 DEF GoneInv, Pending
  <1>4. ASSUME NEW n, Answer(n)
        PROVE  GoneInv'
    <2>1. /\ DOMAIN calls' = DOMAIN calls /\ n \in DOMAIN calls
          /\ \A i \in DOMAIN calls : calls'[i].kind = calls[i].kind
          /\ \A i \in DOMAIN calls \ {n} : calls'[i] = calls[i]
          /\ calls'[n].got = {} \/ calls'[n].got = store
          /\ calls'[n].got # {} =>
               (calls[n].kind = "list" /\ store' = store)
                 \/ (calls[n].kind = "delete" /\ store' = {})
          /\ store' = store \/ store' = {}
      BY <1>4, AnswerEffect
    <2>2. UNCHANGED <<rows, cleared, crossed>>
      BY <1>4 DEF Answer
    <2>3. Pending("list")' = Pending("list")
      BY <2>1 DEF Pending
    <2>4. store' \cap cleared = {}
      BY <2>1 DEF GoneInv
    <2>5. \A i \in DOMAIN calls' : calls'[i].kind = "delete" => calls'[i].got \cap store' = {}
      BY <2>1 DEF GoneInv
    <2>6. ~crossed => \A i \in Pending("list") : calls'[i].got \cap cleared = {}
      BY <2>1 DEF GoneInv, Pending
    <2> QED
      BY <2>2, <2>3, <2>4, <2>5, <2>6 DEF GoneInv
  <1>5. ASSUME NEW n, ShowList(n) \/ ShowRoutes(n)
        PROVE  GoneInv'
    <2>1. /\ n \in DOMAIN calls /\ Reloaded(n)
          /\ \/ calls[n].kind = "list" /\ rows' = calls[n].got
             \/ calls[n].kind = "routes" /\ rows' = rows
          /\ UNCHANGED <<store, cleared, crossed>>
      BY <1>5 DEF ShowList, ShowRoutes, Arrives
    <2>2. ReloadedBy(n)
      BY <1>0, <2>1, ReloadedEffect
    <2>3. CASE Follows(calls', n, 0, {})
      BY <2>1, <2>3, GoneStays
    <2>4. CASE Follows(calls', n, 1, {Call("trace", "refresh", selected)})
      <3> DEFINE N == {Call("trace", "refresh", selected)}
      <3>1. Follows(calls', n, 1, N) /\ \A c \in N : c.got = {}
        BY <2>4, CallFacts
      <3> HIDE DEF N
      <3> QED
        BY <2>1, <3>1, GoneStays
    <2> QED
      BY <2>2, <2>3, <2>4 DEF ReloadedBy
  <1>6. ASSUME NEW n, ShowTrace(n) \/ FailClear(n)
        PROVE  GoneInv'
    <2>1. n \in DOMAIN calls /\ calls[n].kind \in {"trace", "delete"}
          /\ UNCHANGED <<store, rows, cleared, crossed>>
      BY <1>6 DEF ShowTrace, FailClear, Arrives
    <2>2. Follows(calls', n, 0, {})
      BY <1>0, <1>6, <2>1, ClickEffects
    <2> QED
      BY <2>1, <2>2, GoneStays
  <1>7. ASSUME NEW n, ConfirmClear(n)
        PROVE  GoneInv'
    <2>1. n \in DOMAIN calls /\ calls[n].kind = "delete" /\ Follows(calls', n, 2, Reloads("clear"))
      BY <1>0, <1>7, ClickEffects DEF ConfirmClear, Arrives
    <2>2. /\ cleared' = cleared \cup calls[n].got /\ crossed' = (Pending("list") # {})
          /\ UNCHANGED <<store, rows>>
      BY <1>7 DEF ConfirmClear
    <2>3. \A i \in DOMAIN calls' :
            (\E j \in DOMAIN calls \ {n} : calls'[i] = calls[j]) \/ calls'[i] \in Reloads("clear")
      BY <2>1 DEF Follows
    <2>4. \A c \in Reloads("clear") : c.got = {} /\ c.kind # "delete"
      BY ReloadFacts
    <2>5. store' \cap cleared' = {}
      BY <2>1, <2>2 DEF GoneInv
    <2>6. \A i \in DOMAIN calls' : calls'[i].kind = "delete" => calls'[i].got \cap store' = {}
      BY <2>2, <2>3, <2>4 DEF GoneInv
    <2>7. Pending("list")' # {}
      <3>1. Call("list", "clear", None) \in Reloads("clear")
            /\ Call("list", "clear", None).kind = "list"
        BY CallFacts DEF Reloads
      <3> QED
        BY <2>1, <3>1 DEF Follows, Pending
    <2>8. ~crossed' => \A i \in Pending("list")' : calls'[i].got = {}
      BY <2>2, <2>3, <2>4 DEF Pending
    <2> QED
      BY <2>5, <2>6, <2>7, <2>8 DEF GoneInv
  <1>8. ASSUME NEW k, NEW N, Follows(calls', 0, k, N), \A c \in N : c.got = {},
               UNCHANGED <<store, rows, cleared, crossed>>
        PROVE  GoneInv'
    BY <1>0, <1>8, GoneStays
  <1>9. ASSUME NEW i \in Ids, Select(i)
        PROVE  GoneInv'
    <2> DEFINE N == {Call("trace", "page", i)}
    <2>1. Follows(calls', 0, 1, N) /\ \A c \in N : c.got = {}
      BY <1>0, <1>9, ClickEffects, CallFacts
    <2> HIDE DEF N
    <2> QED
      BY <1>8, <1>9, <2>1 DEF Select
  <1>10. CASE ActivateRoutes
    <2> DEFINE N == {Call("routes", "page", None)}
    <2>1. Follows(calls', 0, 1, N) /\ \A c \in N : c.got = {}
      BY <1>0, <1>10, ClickEffects, CallFacts
    <2> HIDE DEF N
    <2> QED
      BY <1>8, <1>10, <2>1 DEF ActivateRoutes
  <1>11. CASE ClickRefresh
    <2>1. Follows(calls', 0, 2, Reloads("refresh")) /\ \A c \in Reloads("refresh") : c.got = {}
      BY <1>0, <1>11, ClickEffects, ReloadFacts
    <2> QED
      BY <1>8, <1>11, <2>1 DEF ClickRefresh
  <1>12. CASE ClickClear
    <2> DEFINE N == {Call("delete", "clear", None)}
    <2>1. Follows(calls', 0, 1, N) /\ \A c \in N : c.got = {}
      BY <1>0, <1>12, ClickEffects, CallFacts
    <2> HIDE DEF N
    <2> QED
      BY <1>8, <1>12, <2>1 DEF ClickClear
  <1> QED
    BY <1>2, <1>3, <1>4, <1>5, <1>6, <1>7, <1>9, <1>10, <1>11, <1>12
       DEF Next, Arrive, Click

\* The traces the page was told were cleared are not in its table, unless a
\* list was under way when the clear was confirmed.
THEOREM ClearedStayGone == Spec => []ClearedIsGone
  <1>1. Init => GoneInv
    <2> SUFFICES ASSUME Init PROVE GoneInv
      OBVIOUS
    <2>1. calls = <<Call("list", "page", None), Call("routes", "page", None)>>
          /\ store = {} /\ cleared = {} /\ rows = {}
      BY DEF Init
    <2> QED
      BY <2>1 DEF GoneInv
  <1>2. GoneInv => ClearedIsGone
    BY DEF GoneInv, ClearedIsGone
  <1>3. PageInv /\ GoneInv /\ [Next]_vars => (PageInv /\ GoneInv)'
    BY PageStep, GoneStep
  <1> QED
    BY <1>1, <1>2, <1>3, PageInit, PTL DEF Spec
=============================================================================
