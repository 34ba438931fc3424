----------------------------- MODULE StoreProofs -----------------------------
(***************************************************************************)
(* Proofs about TraceStore, for any traces, times of completion, readers,  *)
(* capacity and page size.                                                 *)
(*                                                                         *)
(*   StoreTypes      every variable has its type;                          *)
(*   NewestKept      the store holds the newest traces;                    *)
(*   NothingMissed   a paged read misses no trace that stayed;             *)
(*   ReadsEnd        a paged read stays within the capacity;               *)
(*   PagesStable     it repeats at most one trace for each one saved.      *)
(*                                                                         *)
(* All of them rest on RankCounts: the ranks of the traces in a set are    *)
(* the numbers below its cardinality, one each.                            *)
(***************************************************************************)
EXTENDS TraceStore, FiniteSetTheorems, TLAPS

-----------------------------------------------------------------------------
(***************************************************************************)
(* Ranks.                                                                  *)
(***************************************************************************)
LEMMA Finite ==
  ASSUME NEW S \in SUBSET Ids
  PROVE  IsFiniteSet(S) /\ Cardinality(S) \in Nat
  BY IdAssumption, FS_Subset, FS_CardinalityType

\* The order of the traces.
LEMMA NewerOrders ==
  ASSUME completed \in Completions
  PROVE  /\ \A x \in Ids : ~Newer(x, x)
         /\ \A x, y \in Ids : x # y => Newer(x, y) \/ Newer(y, x)
         /\ \A x, y \in Ids : ~(Newer(x, y) /\ Newer(y, x))
         /\ \A x, y, z \in Ids : Newer(x, y) /\ Newer(y, z) => Newer(x, z)
  <1>1. completed \in [Ids -> Int] /\ Ids \subseteq Int
    BY IdAssumption, TimeAssumption
  <1> QED
    BY <1>1 DEF Newer

LEMMA RankType ==
  ASSUME NEW S \in SUBSET Ids, NEW x
  PROVE  Rank(x, S) \in Nat
  <1>1. {y \in S : Newer(y, x)} \in SUBSET Ids
    OBVIOUS
  <1> QED
    BY <1>1, Finite DEF Rank

\* A set of more traces gives no smaller rank.
LEMMA RankGrows ==
  ASSUME NEW T \in SUBSET Ids, NEW S \in SUBSET T, NEW x
  PROVE  Rank(x, S) <= Rank(x, T)
  <1>1. {y \in S : Newer(y, x)} \in SUBSET {y \in T : Newer(y, x)}
    OBVIOUS
  <1>2. IsFiniteSet({y \in T : Newer(y, x)})
    <2>1. {y \in T : Newer(y, x)} \in SUBSET Ids
      OBVIOUS
    <2> QED
      BY <2>1, Finite
  <1> QED
    BY <1>1, <1>2, FS_Subset DEF Rank

\* One trace more gives a rank larger by at most one.
LEMMA RankOfOneMore ==
  ASSUME NEW S \in SUBSET Ids, NEW i \in Ids, NEW x
  PROVE  Rank(x, S \cup {i}) <= Rank(x, S) + 1
  <1> DEFINE A == {y \in S : Newer(y, x)}
             B == {y \in S \cup {i} : Newer(y, x)}
  <1>1. A \in SUBSET Ids /\ B \in SUBSET (A \cup {i})
    OBVIOUS
  <1>2. IsFiniteSet(A) /\ Cardinality(A) \in Nat
    BY <1>1, Finite
  <1>3. IsFiniteSet(A \cup {i}) /\ Cardinality(A \cup {i}) <= Cardinality(A) + 1
    <2>1. /\ IsFiniteSet(A \cup {i})
          /\ Cardinality(A \cup {i}) =
               IF i \in A THEN Cardinality(A) ELSE Cardinality(A) + 1
      <3> HIDE DEF A
      <3> QED
        BY <1>2, FS_AddElement
    <2> HIDE DEF A
    <2> QED
      BY <1>2, <2>1
  <1>4. A \cup {i} \in SUBSET Ids
    BY <1>1
  <1>5. Cardinality(A \cup {i}) \in Nat /\ Cardinality(B) \in Nat
    <2>1. B \in SUBSET Ids
      OBVIOUS
    <2> QED
      BY <1>4, <2>1, Finite
  <1>6. Cardinality(B) <= Cardinality(A \cup {i})
    BY <1>1, <1>3, FS_Subset
  <1>7. Rank(x, S \cup {i}) = Cardinality(B) /\ Rank(x, S) = Cardinality(A)
    BY DEF Rank
  <1> QED
    BY <1>2, <1>3, <1>5, <1>6, <1>7

\* A newer trace has a smaller rank, and every rank is below the cardinality.
LEMMA RankOrders ==
  ASSUME completed \in Completions, NEW S \in SUBSET Ids
  PROVE  /\ \A x, y \in S : Newer(x, y) => Rank(x, S) < Rank(y, S)
         /\ \A x \in S : Rank(x, S) \in 0 .. (Cardinality(S) - 1)
  <1> DEFINE Front(x) == {z \in S : Newer(z, x)}
  <1>1. \A x : IsFiniteSet(Front(x)) /\ Cardinality(Front(x)) \in Nat
               /\ Rank(x, S) = Cardinality(Front(x))
    <2> TAKE x
    <2>1. Front(x) \in SUBSET Ids
      OBVIOUS
    <2> QED
      BY <2>1, Finite DEF Rank
  <1>2. ASSUME NEW x \in S, NEW y \in S, Newer(x, y)
        PROVE  Rank(x, S) < Rank(y, S)
    <2>1. Front(x) \in SUBSET Front(y) /\ x \in Front(y) /\ x \notin Front(x)
      BY <1>2, NewerOrders
    <2>2. Front(x) # Front(y)
      BY <2>1
    <2> HIDE DEF Front
    <2>3. Cardinality(Front(x)) <= Cardinality(Front(y))
          /\ Cardinality(Front(x)) # Cardinality(Front(y))
      BY <1>1, <2>1, <2>2, FS_Subset
    <2> QED
      BY <1>1, <2>3
  <1>3. ASSUME NEW x \in S
        PROVE  Rank(x, S) \in 0 .. (Cardinality(S) - 1)
    <2>1. Front(x) \in SUBSET S /\ x \notin Front(x)
      BY NewerOrders
    <2>2. Front(x) # S
      BY <2>1
    <2>3. IsFiniteSet(S) /\ Cardinality(S) \in Nat
      BY Finite
    <2> HIDE DEF Front
    <2>4. Cardinality(Front(x)) <= Cardinality(S)
          /\ Cardinality(Front(x)) # Cardinality(S)
      BY <2>1, <2>2, <2>3, FS_Subset
    <2> QED
      BY <1>1, <2>3, <2>4
  <1> QED
    BY <1>2, <1>3

\* The ranks of the traces in S are the numbers below its cardinality.
LEMMA RankCounts ==
  ASSUME completed \in Completions, NEW S \in SUBSET Ids,
         NEW T \in SUBSET (0 .. (Cardinality(S) - 1))
  PROVE  Cardinality({x \in S : Rank(x, S) \in T}) = Cardinality(T)
  <1> DEFINE N == 0 .. (Cardinality(S) - 1)
             f == [x \in S |-> Rank(x, S)]
             R == {x \in S : Rank(x, S) \in T}
             g == [x \in R |-> Rank(x, S)]
  <1>1. IsFiniteSet(S) /\ Cardinality(S) \in Nat
    BY Finite
  <1>2. \A x, y \in S : Rank(x, S) = Rank(y, S) => x = y
    <2> SUFFICES ASSUME NEW x \in S, NEW y \in S, Rank(x, S) = Rank(y, S), x # y
                 PROVE  FALSE
      OBVIOUS
    <2>1. Newer(x, y) \/ Newer(y, x)
      BY NewerOrders
    <2>2. Rank(x, S) < Rank(y, S) \/ Rank(y, S) < Rank(x, S)
      BY <2>1, RankOrders
    <2> QED
      BY <2>2, RankType
  <1>3. f \in Injection(S, N)
    BY <1>2, RankOrders DEF Injection, IsInjective
  <1>4. IsFiniteSet(N) /\ Cardinality(N) = Cardinality(S)
    <2>1. 0 \in Int /\ Cardinality(S) - 1 \in Int
      BY <1>1
    <2>2. /\ IsFiniteSet(0 .. (Cardinality(S) - 1))
          /\ Cardinality(0 .. (Cardinality(S) - 1)) =
               IF 0 > Cardinality(S) - 1 THEN 0 ELSE Cardinality(S) - 1 - 0 + 1
      BY <2>1, FS_Interval
    <2> QED
      BY <1>1, <2>2
  <1>5. f \in Surjection(S, N)
    <2> HIDE DEF f, N
    <2> QED
      BY <1>3, <1>4, FS_Injection
  <1>6. \A k \in N : \E x \in S : Rank(x, S) = k
    BY <1>5 DEF Surjection
  <1>7. g \in Injection(R, T)
    BY <1>2 DEF Injection, IsInjective
  <1>8. g \in Surjection(R, T)
    BY <1>6 DEF Surjection
  <1>9. g \in Bijection(R, T)
    BY <1>7, <1>8 DEF Bijection
  <1>10. ExistsBijection(R, T)
    BY <1>9 DEF ExistsBijection
  <1>11. IsFiniteSet(R)
    <2>1. R \in SUBSET Ids
      OBVIOUS
    <2> QED
      BY <2>1, Finite
  <1> HIDE DEF R
  <1>12. Cardinality(R) = Cardinality(T)
    BY <1>10, <1>11, FS_Bijection
  <1> QED
    BY <1>12 DEF R

\* A list of S that is cut keeps as many traces as fit, and their ranks.
LEMMA BoundedKeeps ==
  ASSUME completed \in Completions, NEW S \in SUBSET Ids
  PROVE  /\ Cardinality(Bounded(S)) =
              IF Cardinality(S) <= MaxTraces THEN Cardinality(S) ELSE MaxTraces
         /\ \A x \in Bounded(S) : Rank(x, Bounded(S)) = Rank(x, S)
  <1> DEFINE n == Cardinality(S)
             k == IF n <= MaxTraces THEN n ELSE MaxTraces
  <1>1. n \in Nat /\ MaxTraces \in Nat /\ k \in Nat /\ k <= n /\ k <= MaxTraces
    BY Finite, LimitAssumption
  <1>2. Bounded(S) = {x \in S : Rank(x, S) \in 0 .. (k - 1)}
    BY <1>1, RankOrders, RankType DEF Bounded
  <1>3. 0 .. (k - 1) \in SUBSET (0 .. (n - 1))
    BY <1>1
  <1>4. Cardinality(0 .. (k - 1)) = k
    <2> HIDE DEF k
    <2> QED
      BY <1>1, FS_Interval
  <1>5. Cardinality(Bounded(S)) = k
    <2> HIDE DEF k
    <2> QED
      BY <1>2, <1>3, <1>4, RankCounts
  <1>6. ASSUME NEW x \in Bounded(S)
        PROVE  Rank(x, Bounded(S)) = Rank(x, S)
    <2>1. \A y \in S : Newer(y, x) => y \in Bounded(S)
      <3> TAKE y \in S
      <3>1. Newer(y, x) => Rank(y, S) < Rank(x, S)
        BY RankOrders DEF Bounded
      <3>2. Rank(x, S) < MaxTraces /\ Rank(x, S) \in Nat /\ Rank(y, S) \in Nat
        BY RankType DEF Bounded
      <3> QED
        BY <1>1, <3>1, <3>2 DEF Bounded
    <2>2. {y \in Bounded(S) : Newer(y, x)} = {y \in S : Newer(y, x)}
      BY <2>1 DEF Bounded
    <2> QED
      BY <2>2 DEF Rank
  <1> QED
    BY <1>5, <1>6

\* How many traces a page has.
LEMMA PageCounts ==
  ASSUME completed \in Completions, traces \in SUBSET Ids, NEW o \in Nat
  PROVE  Cardinality(Page(o)) =
           IF Cardinality(traces) <= o THEN 0
           ELSE IF o + PageSize <= Cardinality(traces) THEN PageSize
           ELSE Cardinality(traces) - o
  <1> DEFINE n == Cardinality(traces)
             e == IF o + PageSize <= n THEN o + PageSize - 1 ELSE n - 1
  <1>1. n \in Nat /\ PageSize \in Nat \ {0} /\ e \in Int
    BY Finite, LimitAssumption
  <1>2. Page(o) = {x \in traces : Rank(x, traces) \in o .. e}
    BY <1>1, RankOrders, RankType DEF Page
  <1>3. o .. e \in SUBSET (0 .. (n - 1))
    BY <1>1
  <1>4. Cardinality(o .. e) = IF o > e THEN 0 ELSE e - o + 1
    <2> HIDE DEF e
    <2> QED
      BY <1>1, FS_Interval
  <1>5. Cardinality(Page(o)) = Cardinality(o .. e)
    <2> HIDE DEF e
    <2> QED
      BY <1>2, <1>3, RankCounts
  <1> QED
    BY <1>1, <1>4, <1>5

\* No more traces have a rank from a to b - 1 than there are such numbers.
LEMMA RanksBetween ==
  ASSUME completed \in Completions, NEW S \in SUBSET Ids,
         NEW a \in Nat, NEW b \in Nat, a <= b
  PROVE  Cardinality({x \in S : Rank(x, S) >= a /\ Rank(x, S) < b}) <= b - a
  <1> DEFINE T == {k \in 0 .. (Cardinality(S) - 1) : a <= k /\ k < b}
  <1>1. {x \in S : Rank(x, S) >= a /\ Rank(x, S) < b}
          = {x \in S : Rank(x, S) \in T}
    BY RankOrders, RankType
  <1>2. Cardinality({x \in S : Rank(x, S) \in T}) = Cardinality(T)
    <2>1. T \in SUBSET (0 .. (Cardinality(S) - 1))
      OBVIOUS
    <2> HIDE DEF T
    <2> QED
      BY <2>1, RankCounts
  <1>3. T \in SUBSET (a .. (b - 1))
    BY Finite
  <1>4. IsFiniteSet(a .. (b - 1)) /\ Cardinality(a .. (b - 1)) = b - a
    <2>1. /\ IsFiniteSet(a .. (b - 1))
          /\ Cardinality(a .. (b - 1)) = IF a > b - 1 THEN 0 ELSE b - 1 - a + 1
      <3>1. b - 1 \in Int
        OBVIOUS
      <3> QED
        BY <3>1, FS_Interval
    <2> QED
      BY <2>1
  <1> HIDE DEF T
  <1>5. Cardinality(T) <= Cardinality(a .. (b - 1))
    BY <1>3, <1>4, FS_Subset
  <1> QED
    BY <1>1, <1>2, <1>4, <1>5

-----------------------------------------------------------------------------
(***************************************************************************)
(* The invariant.                                                          *)
(***************************************************************************)
\* Whatever was read or saved since the last clear, was saved.
KnownIds ==
    /\ history \subseteq spent
    /\ \A c \in Readers : reader[c].got \subseteq spent

\* A read is at the offset that the traces it received add up to.
Counted ==
    \A c \in Readers :
        reader[c].at = "reading" => reader[c].count = reader[c].offset

\* A trace that stayed was received or is still ahead.
Ahead ==
    \A c \in Readers : reader[c].at = "reading" =>
        /\ reader[c].since \subseteq traces
        /\ \A x \in reader[c].since :
             x \in reader[c].got \/ Rank(x, traces) >= reader[c].offset

\* What was received and is still stored lies within the offset, but for the
\* places by which the saves that did not repeat a trace yet moved it.
Moved ==
    \A c \in Readers : reader[c].at = "reading" =>
        \A x \in reader[c].got \cap traces :
            Rank(x, traces) < Cardinality(reader[c].got) + reader[c].saves

\* Nothing changes under a reader that keeps the event loop.
Undisturbed ==
    \A c \in Readers :
        /\ reader[c].at = "clearing" => reader[c].kind = "clear"
        /\ ~suspends /\ reader[c].kind # "client" /\ reader[c].at = "reading" =>
             reader[c].offset <= Cardinality(traces)

IInv ==
    /\ TypeOK /\ HoldsNewest /\ NoMiss /\ ReadIsBounded /\ PagesAreStable
    /\ KnownIds /\ Counted /\ Ahead /\ Moved /\ Undisturbed

-----------------------------------------------------------------------------
LEMMA InitHolds == Init => IInv
  <1> SUFFICES ASSUME Init PROVE IInv
    OBVIOUS
  <1>1. \A c \in Readers : reader[c] = Idle
    BY DEF Init
  <1>2. Cardinality({}) = 0
    BY FS_EmptySet
  <1>3. TypeOK
    BY DEF Init, TypeOK, Idle, ReaderType
  <1>4. HoldsNewest
    BY <1>2, LimitAssumption DEF Init, HoldsNewest
  <1>5. NoMiss /\ ReadIsBounded /\ PagesAreStable
    BY <1>1, <1>2, LimitAssumption DEF NoMiss, ReadIsBounded, PagesAreStable, Idle
  <1>6. KnownIds /\ Counted /\ Ahead /\ Moved /\ Undisturbed
    BY <1>1 DEF Init, KnownIds, Counted, Ahead, Moved, Undisturbed, Idle
  <1> QED
    BY <1>3, <1>4, <1>5, <1>6 DEF IInv

\* HoldsNewest in terms of the order of the store.
LEMMA NewestOrder ==
  ASSUME TypeOK, HoldsNewest, NEW x \in traces, NEW y \in history \ traces
  PROVE  Newer(x, y)
  BY TimeAssumption, IdAssumption DEF TypeOK, HoldsNewest, Newer

\* What is left of a store that is given one trace more.
LEMMA SaveFacts ==
  ASSUME IInv, NEW i \in Ids, Save(i)
  PROVE  /\ i \notin traces /\ i \notin history /\ i \notin spent
         /\ traces \in SUBSET Ids /\ traces' = Bounded(traces \cup {i})
         /\ completed' = completed /\ suspends' = suspends
         /\ Cardinality(traces) \in Nat
         /\ Cardinality(traces \cup {i}) = Cardinality(traces) + 1
         /\ Cardinality(traces') =
              IF Cardinality(traces) < MaxTraces
              THEN Cardinality(traces) + 1 ELSE MaxTraces
         /\ \A x \in traces' : Rank(x, traces)' = Rank(x, traces \cup {i})
  <1> DEFINE S == traces \cup {i}
  <1>1. /\ i \notin spent /\ traces \subseteq history /\ history \subseteq spent
        /\ traces' = Bounded(S) /\ completed' = completed /\ suspends' = suspends
        /\ traces \in SUBSET Ids /\ completed \in Completions
    BY DEF IInv, TypeOK, HoldsNewest, KnownIds, Save
  <1>2. S \in SUBSET Ids /\ IsFiniteSet(traces) /\ Cardinality(traces) \in Nat
    BY <1>1, Finite
  <1>3. Cardinality(S) = Cardinality(traces) + 1
    BY <1>1, <1>2, FS_AddElement
  <1>4. Cardinality(Bounded(S)) =
          IF Cardinality(S) <= MaxTraces THEN Cardinality(S) ELSE MaxTraces
    BY <1>1, <1>2, BoundedKeeps
  <1>5. Cardinality(traces') =
          IF Cardinality(traces) < MaxTraces
          THEN Cardinality(traces) + 1 ELSE MaxTraces
    <2>1. Cardinality(traces) \in Nat /\ MaxTraces \in Nat /\ Cardinality(traces) <= MaxTraces
      BY <1>2, LimitAssumption DEF IInv, HoldsNewest
    <2> QED
      BY <1>1, <1>3, <1>4, <2>1
  <1>6. ASSUME NEW x \in traces'
        PROVE  Rank(x, traces)' = Rank(x, S)
    <2>1. Rank(x, Bounded(S)) = Rank(x, S)
      BY <1>1, <1>2, BoundedKeeps
    <2>2. {y \in traces : Newer(y, x)}' = {y \in Bounded(S) : Newer(y, x)}
      BY <1>1 DEF Newer
    <2>3. Rank(x, traces)' = Rank(x, Bounded(S))
      BY <2>2 DEF Rank
    <2> QED
      BY <2>1, <2>3
  <1> QED
    BY <1>1, <1>2, <1>3, <1>5, <1>6

\* A save changes the ghosts of the readers only.
LEMMA SaveReaders ==
  ASSUME IInv, NEW i \in Ids, Save(i), NEW c \in Readers
  PROVE  /\ reader'[c].kind = reader[c].kind /\ reader'[c].at = reader[c].at
         /\ reader'[c].offset = reader[c].offset /\ reader'[c].got = reader[c].got
         /\ reader'[c].count = reader[c].count
         /\ reader'[c].since = reader[c].since \cap traces'
         /\ reader'[c].saves =
              IF reader[c].at = "reading" THEN reader[c].saves + 1 ELSE reader[c].saves
         /\ reader'[c] \in ReaderType
         /\ ~suspends => reader[c].kind = "client"
                          \/ reader[c].at \notin {"reading", "clearing"}
  <1>1. reader[c] \in ReaderType
    BY DEF IInv, TypeOK
  <1>2. reader'[c] = [[reader[c] EXCEPT !.since = @ \cap traces'] EXCEPT
            !.saves = IF reader[c].at = "reading" THEN @ + 1 ELSE @]
    BY DEF Save, Changed
  <1>3. ~suspends => ~Busy(c)
    BY DEF Save
  <1>4. /\ reader'[c].kind = reader[c].kind /\ reader'[c].at = reader[c].at
        /\ reader'[c].offset = reader[c].offset /\ reader'[c].got = reader[c].got
        /\ reader'[c].count = reader[c].count
        /\ reader'[c].since = reader[c].since \cap traces'
    BY <1>1, <1>2 DEF ReaderType
  <1>5. reader'[c].saves =
          IF reader[c].at = "reading" THEN reader[c].saves + 1 ELSE reader[c].saves
    BY <1>1, <1>2 DEF ReaderType
  <1>6. reader'[c] \in ReaderType
    <2> DEFINE since == reader[c].since \cap traces'
               saves == IF reader[c].at = "reading" THEN reader[c].saves + 1
                        ELSE reader[c].saves
    <2>1. since \in SUBSET Ids /\ saves \in Nat
      BY <1>1 DEF ReaderType
    <2>2. reader'[c] = [[reader[c] EXCEPT !.since = since] EXCEPT !.saves = saves]
      BY <1>1, <1>2 DEF ReaderType
    <2> HIDE DEF since, saves
    <2> QED
      BY <1>1, <2>1, <2>2 DEF ReaderType
  <1>7. ~suspends => reader[c].kind = "client"
                     \/ reader[c].at \notin {"reading", "clearing"}
    BY <1>3 DEF Busy
  <1> QED
    BY <1>4, <1>5, <1>6, <1>7

LEMMA SaveKeepsNewest ==
  ASSUME IInv, NEW i \in Ids, Save(i)
  PROVE  HoldsNewest'
  <1> DEFINE S == traces \cup {i}
  <1>1. /\ history' = history \cup {i} /\ traces \subseteq history
        /\ Cardinality(traces) <= MaxTraces
        /\ traces # history => Cardinality(traces) = MaxTraces
        /\ MaxTraces \in Nat /\ history \in SUBSET Ids
        /\ completed \in Completions /\ S \in SUBSET Ids
    BY LimitAssumption DEF IInv, TypeOK, HoldsNewest, Save
  <1> DEFINE n == Cardinality(traces)
  <1>7. /\ n \in Nat /\ Cardinality(S) = n + 1 /\ i \notin traces
        /\ Cardinality(traces') = IF n < MaxTraces THEN n + 1 ELSE MaxTraces
    BY SaveFacts
  <1>2. traces' \subseteq S
    BY SaveFacts DEF Bounded
  <1>3. Cardinality(traces') <= MaxTraces
    BY <1>1, <1>7
  <1>4. traces' # history' => Cardinality(traces') = MaxTraces
    <2>1. CASE Cardinality(traces) = MaxTraces
      BY <1>1, <1>7, <2>1
    <2>2. CASE Cardinality(traces) < MaxTraces
      <3>1. history' = S
        BY <1>1, <2>2
      <3>2. Cardinality(traces') = Cardinality(S) /\ IsFiniteSet(S)
        BY <1>1, <1>7, <2>2, Finite
      <3>3. traces' = S
        BY <1>2, <3>2, FS_Subset
      <3> QED
        BY <3>1, <3>3
    <2> QED
      BY <1>1, <1>7, <2>1, <2>2
  <1>5. ASSUME NEW x \in traces', NEW y \in history' \ traces'
        PROVE  Newer(x, y)
    <2>1. x \in S /\ Rank(x, S) < MaxTraces
      BY SaveFacts DEF Bounded
    <2>2. CASE y \in S
      <3>1. Rank(y, S) >= MaxTraces
        BY <1>1, <2>2, SaveFacts, RankType DEF Bounded
      <3>2. ~Newer(y, x) /\ x # y
        <4>1. Rank(x, S) \in Nat /\ Rank(y, S) \in Nat /\ Rank(x, S) < Rank(y, S)
          BY <1>1, <2>1, <3>1, RankType
        <4>2. Newer(y, x) => Rank(y, S) < Rank(x, S)
          BY <1>1, <2>1, <2>2, RankOrders
        <4> QED
          BY <4>1, <4>2
      <3> QED
        BY <1>1, <2>1, <2>2, <3>2, NewerOrders
    <2>3. CASE y \notin S
      <3>1. y \in history \ traces
        BY <1>1, <2>3
      <3>2. CASE x \in traces
        BY <3>1, <3>2, NewestOrder DEF IInv
      <3>3. CASE x = i
        <4>1. Cardinality(traces) = MaxTraces
          BY <1>1, <3>1
        <4>2. PICK z \in traces : ~Newer(z, i)
          <5> SUFFICES ASSUME \A z \in traces : Newer(z, i) PROVE FALSE
            OBVIOUS
          <5>1. ~Newer(i, i)
            BY <1>1, NewerOrders
          <5>2. {z \in S : Newer(z, i)} = traces
            BY <5>1, SaveFacts
          <5>3. Rank(i, S) = Cardinality(traces)
            BY <5>2 DEF Rank
          <5> QED
            BY <1>1, <2>1, <3>3, <4>1, <5>3
        <4>3. Newer(i, z)
          <5>1. z \in Ids /\ z # i
            BY <4>2, SaveFacts
          <5> QED
            BY <1>1, <4>2, <5>1, NewerOrders
        <4>4. Newer(z, y)
          BY <3>1, <4>2, NewestOrder DEF IInv
        <4>5. z \in Ids /\ y \in Ids
          BY <1>1, <3>1, <4>2
        <4> QED
          BY <1>1, <3>3, <4>3, <4>4, <4>5, NewerOrders
      <3> QED
        BY <2>1, <3>2, <3>3
    <2> QED
      BY <2>2, <2>3
  <1>6. \A x \in traces', y \in history' \ traces' :
          completed'[y] < completed'[x] \/ (completed'[y] = completed'[x] /\ y < x)
    <2>1. completed \in [Ids -> Int] /\ Ids \subseteq Int
      BY <1>1, TimeAssumption, IdAssumption
    <2>2. traces' \subseteq Ids /\ history' \subseteq Ids /\ completed' = completed
      BY <1>1, <1>2, SaveFacts
    <2> QED
      BY <1>5, <2>1, <2>2 DEF Newer
  <1> QED
    BY <1>1, <1>2, <1>3, <1>4, <1>6 DEF HoldsNewest

LEMMA SaveKeepsReads ==
  ASSUME IInv, NEW i \in Ids, Save(i)
  PROVE  Ahead' /\ Moved' /\ Undisturbed' /\ NoMiss' /\ PagesAreStable'
  <1> DEFINE S == traces \cup {i}
  <1>1. /\ completed \in Completions /\ traces \in SUBSET Ids /\ S \in SUBSET Ids
        /\ traces' \subseteq S /\ \A x \in traces' : Rank(x, traces)' = Rank(x, S)
    BY SaveFacts DEF IInv, TypeOK, Bounded
  <1>2. ASSUME NEW c \in Readers, reader'[c].at = "reading"
        PROVE  /\ reader'[c].since \subseteq traces'
               /\ \A x \in reader'[c].since :
                    x \in reader'[c].got \/ Rank(x, traces)' >= reader'[c].offset
    <2>1. reader[c].at = "reading" /\ reader'[c].since = reader[c].since \cap traces'
          /\ reader'[c].got = reader[c].got /\ reader'[c].offset = reader[c].offset
          /\ reader[c].offset \in Nat
      BY <1>2, SaveReaders DEF IInv, TypeOK, ReaderType
    <2>2. ASSUME NEW x \in reader'[c].since
          PROVE  x \in reader[c].got \/ Rank(x, S) >= reader[c].offset
      <3>1. x \in reader[c].got \/ Rank(x, traces) >= reader[c].offset
        BY <2>1, <2>2 DEF IInv, Ahead
      <3>2. Rank(x, traces) <= Rank(x, S)
        BY <1>1, RankGrows
      <3>3. Rank(x, traces) \in Nat /\ Rank(x, S) \in Nat
        BY <1>1, RankType
      <3> QED
        BY <2>1, <3>1, <3>2, <3>3
    <2> QED
      BY <1>1, <2>1, <2>2
  <1>3. ASSUME NEW c \in Readers, reader'[c].at = "reading",
               NEW x \in reader'[c].got \cap traces'
        PROVE  Rank(x, traces)' < Cardinality(reader'[c].got) + reader'[c].saves
    <2>1. reader[c].at = "reading" /\ reader'[c].got = reader[c].got
          /\ reader'[c].saves = reader[c].saves + 1
      BY <1>3, SaveReaders
    <2>2. x \in traces
      BY <1>1, <2>1, SaveFacts DEF IInv, KnownIds
    <2>3. Rank(x, traces) < Cardinality(reader[c].got) + reader[c].saves
      BY <2>1, <2>2 DEF IInv, Moved
    <2>4. Rank(x, S) <= Rank(x, traces) + 1
      BY <1>1, RankOfOneMore
    <2>5. Rank(x, traces) \in Nat /\ Rank(x, S) \in Nat
      BY <1>1, RankType
    <2>6. reader[c].got \in SUBSET Ids /\ reader[c].saves \in Nat
      BY DEF IInv, TypeOK, ReaderType
    <2>7. Cardinality(reader[c].got) \in Nat
      BY <2>6, Finite
    <2> QED
      BY <1>1, <2>1, <2>3, <2>4, <2>5, <2>6, <2>7
  <1>4. Undisturbed'
    <2>1. ASSUME NEW c \in Readers
          PROVE  /\ reader'[c].at = "clearing" => reader'[c].kind = "clear"
                 /\ ~suspends' /\ reader'[c].kind # "client" => reader'[c].at # "reading"
      <3>1. suspends' = suspends
        BY SaveFacts
      <3>2. reader[c].at = "clearing" => reader[c].kind = "clear"
        BY DEF IInv, Undisturbed
      <3> QED
        BY <3>1, <3>2, SaveReaders
    <2> QED
      BY <2>1 DEF Undisturbed
  <1>5. NoMiss'
    BY SaveReaders DEF IInv, NoMiss
  <1>6. ASSUME NEW c \in Readers
        PROVE  /\ reader'[c].count <= Cardinality(reader'[c].got) + reader'[c].saves
               /\ ~suspends' /\ reader'[c].kind # "client" => reader'[c].saves = 0
               /\ ~suspends' /\ reader'[c].at = "clearing" =>
                    reader'[c].count = Cardinality(traces')
    <2>1. /\ reader[c].count <= Cardinality(reader[c].got) + reader[c].saves
          /\ ~suspends /\ reader[c].kind # "client" => reader[c].saves = 0
          /\ reader[c].at = "clearing" => reader[c].kind = "clear"
      BY DEF IInv, PagesAreStable, Undisturbed
    <2>2. reader[c].got \in SUBSET Ids /\ reader[c].saves \in Nat
          /\ reader[c].count \in Nat
      BY DEF IInv, TypeOK, ReaderType
    <2>3. Cardinality(reader[c].got) \in Nat
      BY <2>2, Finite
    <2>4. suspends' = suspends
      BY SaveFacts
    <2> QED
      BY <2>1, <2>2, <2>3, <2>4, SaveReaders
  <1> QED
    BY <1>2, <1>3, <1>4, <1>5, <1>6 DEF Ahead, Moved, PagesAreStable

LEMMA SaveKeeps ==
  ASSUME IInv, NEW i \in Ids, Save(i)
  PROVE  IInv'
  <1>1. TypeOK'
    <2>1. DOMAIN reader' = Readers /\ reader' = [c \in Readers |-> reader'[c]]
      BY DEF Save
    <2>2. \A c \in Readers : reader'[c] \in ReaderType
      BY SaveReaders
    <2>3. reader' \in [Readers -> ReaderType]
      BY <2>1, <2>2
    <2>4. /\ suspends' \in BOOLEAN /\ completed' \in Completions /\ traces' \subseteq Ids
          /\ history' \subseteq Ids /\ spent' \subseteq Ids
      BY DEF IInv, TypeOK, Save, Bounded
    <2> QED
      BY <2>3, <2>4 DEF TypeOK
  <1>2. HoldsNewest'
    BY SaveKeepsNewest
  <1>3. KnownIds'
    BY SaveReaders DEF IInv, KnownIds, Save
  <1>4. Counted' /\ ReadIsBounded'
    BY SaveReaders DEF IInv, Counted, ReadIsBounded
  <1> QED
    BY <1>1, <1>2, <1>3, <1>4, SaveKeepsReads DEF IInv

-----------------------------------------------------------------------------
\* A step of a reader that leaves the store alone.
LEMMA StoreUnchanged ==
  ASSUME IInv, UNCHANGED <<suspends, completed, traces, history, spent>>
  PROVE  /\ HoldsNewest' /\ \A x : Rank(x, traces)' = Rank(x, traces)
  <1>1. HoldsNewest'
    BY DEF IInv, HoldsNewest
  <1>2. \A x : Rank(x, traces)' = Rank(x, traces)
    BY DEF Rank, Newer
  <1> QED
    BY <1>1, <1>2

LEMMA BeginKeeps ==
  ASSUME IInv, NEW c \in Readers, NEW k \in {"routes", "clear", "client"}, Begin(c, k)
  PROVE  IInv'
  <1>1. /\ UNCHANGED <<suspends, completed, traces, history, spent>>
        /\ reader' = [reader EXCEPT ![c] = Beginning(k)]
        /\ reader \in [Readers -> ReaderType] /\ traces \in SUBSET Ids
    BY DEF Begin, IInv, TypeOK
  <1>2. reader'[c] = Beginning(k) /\ \A d \in Readers \ {c} : reader'[d] = reader[d]
    BY <1>1
  <1>3. Cardinality({}) = 0 /\ Cardinality(traces) \in Nat
    BY <1>1, FS_EmptySet, Finite
  <1>4. HoldsNewest' /\ \A x : Rank(x, traces)' = Rank(x, traces)
    BY <1>1, StoreUnchanged
  <1>5. TypeOK'
    <2>1. Beginning(k) \in ReaderType
      BY <1>1 DEF Beginning, ReaderType
    <2> QED
      BY <1>1, <2>1 DEF IInv, TypeOK
  <1>6. KnownIds' /\ Counted' /\ ReadIsBounded' /\ NoMiss'
    BY <1>1, <1>2, LimitAssumption
       DEF IInv, KnownIds, Counted, ReadIsBounded, NoMiss, Beginning
  <1>7. Ahead'
    <2>1. \A x : Rank(x, traces) \in Nat
      BY <1>1, RankType
    <2> QED
      BY <1>1, <1>2, <1>4, <2>1 DEF IInv, Ahead, Beginning
  <1>8. Moved' /\ Undisturbed'
    BY <1>1, <1>2, <1>3, <1>4 DEF IInv, Moved, Undisturbed, Beginning
  <1>9. PagesAreStable'
    BY <1>1, <1>2, <1>3 DEF IInv, PagesAreStable, Beginning
  <1> QED
    BY <1>4, <1>5, <1>6, <1>7, <1>8, <1>9 DEF IInv

LEMMA ClearKeeps ==
  ASSUME IInv, NEW c \in Readers, Clear(c)
  PROVE  IInv'
  <1>1. /\ traces' = {} /\ history' = {} /\ reader[c].at = "clearing"
        /\ UNCHANGED <<suspends, completed, spent>>
        /\ reader \in [Readers -> ReaderType]
        /\ reader' = [Changed({}) EXCEPT ![c].at = "done"]
    BY DEF Clear, IInv, TypeOK
  <1>2. ASSUME NEW d \in Readers
        PROVE  /\ reader'[d].kind = reader[d].kind
               /\ reader'[d].offset = reader[d].offset
               /\ reader'[d].got = reader[d].got /\ reader'[d].count = reader[d].count
               /\ reader'[d].saves = reader[d].saves /\ reader'[d].since = {}
               /\ reader'[d].at = IF d = c THEN "done" ELSE reader[d].at
               /\ reader'[d] \in ReaderType
    <2>1. reader[d] \in ReaderType
      BY <1>1
    <2>2. reader'[d] = IF d = c THEN [[reader[d] EXCEPT !.since = {}] EXCEPT !.at = "done"]
                       ELSE [reader[d] EXCEPT !.since = {}]
      BY <1>1, <2>1 DEF Changed
    <2>3. CASE d = c
      BY <2>1, <2>2, <2>3 DEF ReaderType
    <2>4. CASE d # c
      BY <2>1, <2>2, <2>4 DEF ReaderType
    <2> QED
      BY <2>3, <2>4
  <1>3. ASSUME NEW d \in Readers \ {c}, ~suspends, reader[d].kind # "client"
        PROVE  reader[d].at \notin {"reading", "clearing"}
    BY <1>3 DEF Clear, Turn, Busy
  <1>4. reader' \in [Readers -> ReaderType]
    <2>1. reader' = [d \in Readers |-> reader'[d]]
      BY <1>1 DEF Changed
    <2> QED
      BY <1>2, <2>1
  <1>5. TypeOK' /\ KnownIds'
    BY <1>1, <1>2, <1>4 DEF IInv, TypeOK, KnownIds
  <1>6. HoldsNewest'
    BY <1>1, FS_EmptySet, LimitAssumption DEF HoldsNewest
  <1>7. Counted' /\ ReadIsBounded' /\ NoMiss' /\ Ahead' /\ Moved'
    BY <1>1, <1>2 DEF IInv, Counted, ReadIsBounded, NoMiss, Ahead, Moved
  <1>8. Undisturbed'
    BY <1>1, <1>2, <1>3 DEF IInv, Undisturbed
  <1>9. ASSUME NEW d \in Readers
        PROVE  /\ reader'[d].count <= Cardinality(reader'[d].got) + reader'[d].saves
               /\ ~suspends' /\ reader'[d].kind # "client" => reader'[d].saves = 0
               /\ ~suspends' /\ reader'[d].at = "clearing" =>
                    reader'[d].count = Cardinality(traces')
    <2>1. /\ reader[d].count <= Cardinality(reader[d].got) + reader[d].saves
          /\ ~suspends /\ reader[d].kind # "client" => reader[d].saves = 0
          /\ reader[d].at = "clearing" => reader[d].kind = "clear"
      BY DEF IInv, PagesAreStable, Undisturbed
    <2>2. ~suspends /\ reader'[d].at = "clearing" => FALSE
      BY <1>2, <1>3, <2>1
    <2> QED
      BY <1>1, <1>2, <2>1, <2>2
  <1> QED
    BY <1>5, <1>6, <1>7, <1>8, <1>9 DEF IInv, PagesAreStable

\* The facts about one page, in numbers.
LEMMA ReadFacts ==
  ASSUME IInv, NEW c \in Readers, ReadPage(c),
         NEW page, page = Page(reader[c].offset), NEW n, n = Cardinality(page)
  PROVE  /\ UNCHANGED <<suspends, completed, traces, history, spent>>
         /\ reader[c].at = "reading" /\ reader[c].count = reader[c].offset
         /\ reader[c].offset \in Nat /\ n \in Nat /\ PageSize \in Nat \ {0}
         /\ page \in SUBSET traces /\ traces \in SUBSET Ids
         /\ Cardinality(traces) \in Nat /\ Cardinality(traces) <= MaxTraces
         /\ n = IF Cardinality(traces) <= reader[c].offset THEN 0
                ELSE IF reader[c].offset + PageSize <= Cardinality(traces) THEN PageSize
                ELSE Cardinality(traces) - reader[c].offset
         /\ reader'[c].kind = reader[c].kind
         /\ reader'[c].got = reader[c].got \cup page
         /\ reader'[c].count = reader[c].count + n
         /\ reader'[c].offset =
              IF n < PageSize THEN reader[c].offset ELSE reader[c].offset + n
         /\ reader'[c].at = IF n >= PageSize THEN "reading"
                            ELSE IF reader[c].kind = "clear" THEN "clearing" ELSE "done"
         /\ reader'[c].since = reader[c].since /\ reader'[c].saves = reader[c].saves
         /\ reader'[c] \in ReaderType
         /\ \A d \in Readers \ {c} : reader'[d] = reader[d]
         /\ reader' \in [Readers -> ReaderType]
  <1>1. /\ UNCHANGED <<suspends, completed, traces, history, spent>>
        /\ reader \in [Readers -> ReaderType] /\ reader[c].at = "reading"
        /\ completed \in Completions /\ traces \in SUBSET Ids
        /\ reader[c] \in ReaderType
    BY DEF ReadPage, IInv, TypeOK
  <1>2. reader[c].count = reader[c].offset /\ reader[c].offset \in Nat
    BY <1>1 DEF IInv, Counted, ReaderType
  <1>3. page \in SUBSET traces /\ page \in SUBSET Ids
    BY <1>1 DEF Page
  <1>4. n \in Nat /\ Cardinality(traces) \in Nat /\ PageSize \in Nat \ {0}
    BY <1>1, <1>3, Finite, LimitAssumption
  <1>5. n = IF Cardinality(traces) <= reader[c].offset THEN 0
            ELSE IF reader[c].offset + PageSize <= Cardinality(traces) THEN PageSize
            ELSE Cardinality(traces) - reader[c].offset
    BY <1>1, <1>2, PageCounts
  <1> DEFINE new == [reader[c] EXCEPT
               !.got = @ \cup page,
               !.count = @ + n,
               !.offset = IF IsLast(n) THEN @ ELSE Advanced(@, n),
               !.at = IF ~IsLast(n) THEN @
                      ELSE IF reader[c].kind = "clear" THEN "clearing" ELSE "done"]
  <1>6. reader' = [reader EXCEPT ![c] = new]
    BY <1>1 DEF ReadPage
  <1>7. /\ new.kind = reader[c].kind /\ new.got = reader[c].got \cup page
        /\ new.count = reader[c].count + n
        /\ new.offset = IF n < PageSize THEN reader[c].offset ELSE reader[c].offset + n
        /\ new.at = IF n >= PageSize THEN "reading"
                    ELSE IF reader[c].kind = "clear" THEN "clearing" ELSE "done"
        /\ new.since = reader[c].since /\ new.saves = reader[c].saves
    BY <1>1, <1>4 DEF ReaderType, IsLast, Advanced
  <1>8. new \in ReaderType
    <2> DEFINE got    == reader[c].got \cup page
               count  == reader[c].count + n
               offset == IF IsLast(n) THEN reader[c].offset
                         ELSE Advanced(reader[c].offset, n)
               at     == IF ~IsLast(n) THEN reader[c].at
                         ELSE IF reader[c].kind = "clear" THEN "clearing" ELSE "done"
    <2>1. /\ got \in SUBSET Ids /\ count \in Nat /\ offset \in Nat
          /\ at \in {"idle", "reading", "clearing", "done"}
      BY <1>1, <1>2, <1>3, <1>4 DEF ReaderType, IsLast, Advanced
    <2>2. new = [reader[c] EXCEPT !.got = got, !.count = count,
                                  !.offset = offset, !.at = at]
      OBVIOUS
    <2> HIDE DEF new, got, count, offset, at
    <2> QED
      BY <1>1, <2>1, <2>2 DEF ReaderType
  <1>9. Cardinality(traces) <= MaxTraces
    BY DEF IInv, HoldsNewest
  <1> HIDE DEF new
  <1>10. /\ reader'[c] = new /\ \A d \in Readers \ {c} : reader'[d] = reader[d]
         /\ reader' \in [Readers -> ReaderType]
    BY <1>1, <1>6, <1>8
  <1> QED
    BY <1>1, <1>2, <1>3, <1>4, <1>5, <1>7, <1>8, <1>9, <1>10

LEMMA ReadKeeps ==
  ASSUME IInv, NEW c \in Readers, ReadPage(c)
  PROVE  IInv'
  <1> DEFINE page == Page(reader[c].offset)
             n    == Cardinality(page)
             o    == reader[c].offset
             got  == reader[c].got
             size == Cardinality(traces)
             g    == Cardinality(got)
             h    == Cardinality(got \cup page)
             s    == reader[c].saves
  \* The page, the traces received before and what both have in common.
  <1>1. /\ UNCHANGED <<suspends, completed, traces, history, spent>>
        /\ reader[c].at = "reading" /\ reader[c].count = o
        /\ o \in Nat /\ n \in Nat /\ PageSize \in Nat \ {0}
        /\ page \in SUBSET traces /\ traces \in SUBSET Ids
        /\ size \in Nat /\ size <= MaxTraces
    BY ReadFacts
  <1>2. n = IF size <= o THEN 0 ELSE IF o + PageSize <= size THEN PageSize ELSE size - o
    BY ReadFacts
  <1>3. /\ reader'[c].kind = reader[c].kind /\ reader'[c].got = got \cup page
        /\ reader'[c].count = o + n
        /\ reader'[c].offset = IF n < PageSize THEN o ELSE o + n
        /\ reader'[c].at = IF n >= PageSize THEN "reading"
                           ELSE IF reader[c].kind = "clear" THEN "clearing" ELSE "done"
        /\ reader'[c].since = reader[c].since /\ reader'[c].saves = s
        /\ \A d \in Readers \ {c} : reader'[d] = reader[d]
        /\ reader' \in [Readers -> ReaderType]
    BY ReadFacts
  <1>4. HoldsNewest' /\ \A x : Rank(x, traces)' = Rank(x, traces)
    BY <1>1, StoreUnchanged
  <1>5. /\ completed \in Completions /\ got \in SUBSET Ids /\ s \in Nat
        /\ reader[c].since \in SUBSET Ids /\ MaxTraces \in Nat
        /\ o <= MaxTraces
    BY LimitAssumption DEF IInv, TypeOK, ReaderType, ReadIsBounded
  <1>6. \A x \in traces : Rank(x, traces) \in Nat /\ Rank(x, traces) < size
    BY <1>1, <1>5, RankOrders
  <1>7. g \in Nat /\ h \in Nat /\ g <= h
    <2>1. got \cup page \in SUBSET Ids
      BY <1>1, <1>5
    <2>2. IsFiniteSet(got \cup page) /\ h \in Nat /\ g \in Nat
      BY <1>5, <2>1, Finite
    <2>3. got \in SUBSET (got \cup page)
      OBVIOUS
    <2> HIDE DEF page, got
    <2> QED
      BY <2>2, <2>3, FS_Subset
  <1>8. o <= g + s
    BY <1>1 DEF IInv, PagesAreStable
  \* The page repeats no more traces than saves moved beyond the offset.
  <1>9. o + n <= h + s
    <2> DEFINE both == page \cap got
               b    == g + s
               B    == {x \in traces : Rank(x, traces) >= o /\ Rank(x, traces) < b}
    <2>1. both \in SUBSET B
      <3>1. \A x \in both : Rank(x, traces) < g + s
        BY <1>1 DEF IInv, Moved
      <3>2. \A x \in both : Rank(x, traces) >= o
        BY <1>1, <1>6 DEF Page
      <3> QED
        BY <1>1, <3>1, <3>2
    <2>2. Cardinality(B) <= b - o
      <3>1. b \in Nat /\ o <= b
        BY <1>5, <1>7, <1>8
      <3> HIDE DEF o, b
      <3> QED
        BY <1>1, <1>5, <3>1, RanksBetween
    <2>3. /\ IsFiniteSet(page) /\ IsFiniteSet(got) /\ IsFiniteSet(B)
          /\ Cardinality(both) \in Nat /\ Cardinality(B) \in Nat
      <3>1. page \in SUBSET Ids /\ B \in SUBSET Ids /\ both \in SUBSET Ids
        BY <1>1
      <3> HIDE DEF page, B, both, got
      <3> QED
        BY <1>5, <3>1, Finite
    <2>4. Cardinality(both) <= Cardinality(B)
      <3> HIDE DEF both, B
      <3> QED
        BY <2>1, <2>3, FS_Subset
    <2>5. h = g + n - Cardinality(both)
      <3>1. Cardinality(got \cup page) =
              Cardinality(got) + Cardinality(page) - Cardinality(got \cap page)
        <4> HIDE DEF page, got
        <4> QED
          BY <2>3, FS_Union
      <3>2. got \cap page = both
        OBVIOUS
      <3> QED
        BY <3>1, <3>2
    <2> HIDE DEF both, B, n, o, g, h, s
    <2> QED
      BY <1>1, <1>5, <1>7, <2>2, <2>3, <2>4, <2>5
  \* Whatever is ahead of the offset and not beyond the page, is in it.
  <1>10. \A x \in traces :
           Rank(x, traces) >= o =>
             \/ x \in page
             \/ n = PageSize /\ Rank(x, traces) >= o + n
    <2> TAKE x \in traces
    <2> HAVE Rank(x, traces) >= o
    <2>1. CASE Rank(x, traces) < o + PageSize
      BY <1>1, <1>6, <2>1 DEF Page
    <2>2. CASE Rank(x, traces) >= o + PageSize
      <3> DEFINE r == Rank(x, traces)
      <3>1. r \in Nat /\ r < size /\ r >= o + PageSize
        BY <1>6, <2>2
      <3> HIDE DEF r, n, o, size
      <3>2. n = PageSize /\ r >= o + n
        BY <1>1, <1>2, <3>1
      <3> QED
        BY <3>2 DEF r
    <2> QED
      BY <1>1, <1>6, <2>1, <2>2
  <1>11. ASSUME NEW x \in reader[c].since
         PROVE  x \in traces /\ (x \in got \/ Rank(x, traces) >= o)
    BY <1>1 DEF IInv, Ahead
  \* The parts of the invariant.
  <1>12. TypeOK' /\ KnownIds'
    <2>1. page \subseteq spent
      BY <1>1 DEF IInv, KnownIds, HoldsNewest
    <2>2. KnownIds'
      BY <1>1, <1>3, <2>1 DEF IInv, KnownIds
    <2> QED
      BY <1>1, <1>3, <2>2 DEF IInv, TypeOK
  <1>13. Counted' /\ ReadIsBounded'
    <2>1. o + n <= MaxTraces
      <3> HIDE DEF o, n, size
      <3> QED
        BY <1>1, <1>2, <1>5
    <2>2. /\ reader'[c].at = "reading" => reader'[c].count = reader'[c].offset
          /\ reader'[c].offset <= MaxTraces /\ reader'[c].count <= MaxTraces
      <3> HIDE DEF o, n
      <3> QED
        BY <1>1, <1>3, <1>5, <2>1
    <2> QED
      BY <1>3, <2>2 DEF IInv, Counted, ReadIsBounded
  <1>14. NoMiss'
    <2>1. ASSUME reader'[c].at \in {"clearing", "done"}
          PROVE  reader'[c].since \subseteq reader'[c].got
      <3>1. n < PageSize
        BY <1>1, <1>3, <2>1
      <3> QED
        BY <1>1, <1>3, <1>10, <1>11, <3>1
    <2> QED
      BY <1>3, <2>1 DEF IInv, NoMiss
  <1>15. Ahead'
    <2>1. ASSUME reader'[c].at = "reading"
          PROVE  /\ reader'[c].since \subseteq traces'
                 /\ \A x \in reader'[c].since :
                      x \in reader'[c].got \/ Rank(x, traces)' >= reader'[c].offset
      <3>1. ~(n < PageSize)
        BY <1>1, <1>3, <2>1
      <3> QED
        BY <1>1, <1>3, <1>4, <1>10, <1>11, <3>1
    <2> QED
      BY <1>1, <1>3, <1>4, <2>1 DEF IInv, Ahead
  <1>16. Moved'
    <2>1. ASSUME reader'[c].at = "reading", NEW x \in reader'[c].got \cap traces'
          PROVE  Rank(x, traces)' < Cardinality(reader'[c].got) + reader'[c].saves
      <3> DEFINE r == Rank(x, traces)
      <3>1. x \in traces /\ r \in Nat
        BY <1>1, <1>6, <2>1
      <3>2. CASE x \in got
        <4>1. r < g + s
          BY <1>1, <3>1, <3>2 DEF IInv, Moved
        <4> HIDE DEF r, g, s, h
        <4>2. r < h + s
          BY <1>5, <1>7, <3>1, <4>1
        <4> QED
          BY <1>3, <1>4, <4>2 DEF r, h, s
      <3>3. CASE x \in page
        <4>1. n = PageSize
          <5>1. ~(n < PageSize)
            BY <1>1, <1>3, <2>1
          <5> HIDE DEF n, o, size
          <5> QED
            BY <1>1, <1>2, <5>1
        <4>2. r <= o + PageSize - 1
          BY <1>1, <3>1, <3>3 DEF Page
        <4> HIDE DEF r, s, h, o, n
        <4>3. r < h + s
          BY <1>1, <1>5, <1>7, <1>9, <3>1, <4>1, <4>2
        <4> QED
          BY <1>3, <1>4, <4>3 DEF r, h, s
      <3> QED
        BY <1>3, <2>1, <3>2, <3>3
    <2>2. ASSUME NEW d \in Readers \ {c}, reader'[d].at = "reading",
                 NEW x \in reader'[d].got \cap traces'
          PROVE  Rank(x, traces)' < Cardinality(reader'[d].got) + reader'[d].saves
      <3>1. reader'[d] = reader[d] /\ x \in reader[d].got \cap traces
        BY <1>1, <1>3, <2>2
      <3>2. Rank(x, traces) < Cardinality(reader[d].got) + reader[d].saves
        BY <2>2, <3>1 DEF IInv, Moved
      <3> QED
        BY <1>4, <3>1, <3>2
    <2> QED
      BY <2>1, <2>2 DEF Moved
  <1>17. Undisturbed'
    <2>1. reader'[c].at = "clearing" => reader'[c].kind = "clear"
      BY <1>3
    <2>2. reader'[c].at = "reading" => reader'[c].offset <= Cardinality(traces)
      <3> HIDE DEF o, n, size
      <3>1. reader'[c].at = "reading" => reader'[c].offset <= size
        BY <1>1, <1>2, <1>3
      <3> QED
        BY <3>1 DEF size
    <2> QED
      BY <1>1, <1>3, <2>1, <2>2 DEF IInv, Undisturbed
  <1>18. PagesAreStable'
    <2>1. reader'[c].count <= Cardinality(reader'[c].got) + reader'[c].saves
      BY <1>3, <1>9
    <2>2. ~suspends' /\ reader'[c].kind # "client" => reader'[c].saves = 0
      BY <1>1, <1>3 DEF IInv, PagesAreStable
    <2>3. ASSUME ~suspends', reader'[c].at = "clearing"
          PROVE  reader'[c].count = Cardinality(traces')
      <3>1. n < PageSize /\ reader[c].kind = "clear"
        BY <1>1, <1>3, <2>3
      <3>2. o <= size
        BY <1>1, <2>3, <3>1 DEF IInv, Undisturbed
      <3> HIDE DEF o, n, size
      <3>3. o + n = size
        BY <1>1, <1>2, <3>1, <3>2
      <3> QED
        BY <1>1, <1>3, <3>3 DEF size
    <2> QED
      <3>1. ASSUME NEW d \in Readers \ {c}
            PROVE  /\ reader'[d].count <= Cardinality(reader'[d].got) + reader'[d].saves
                   /\ ~suspends' /\ reader'[d].kind # "client" => reader'[d].saves = 0
                   /\ ~suspends' /\ reader'[d].at = "clearing" =>
                        reader'[d].count = Cardinality(traces')
        <4>1. reader'[d] = reader[d] /\ suspends' = suspends /\ traces' = traces
          BY <1>1, <1>3
        <4>2. PagesAreStable
          BY DEF IInv
        <4> QED
          BY <4>1, <4>2 DEF PagesAreStable
      <3> QED
        BY <2>1, <2>2, <2>3, <3>1 DEF PagesAreStable
  <1> QED
    BY <1>4, <1>12, <1>13, <1>14, <1>15, <1>16, <1>17, <1>18 DEF IInv

\* Every step of the store and of its readers, and a stutter.
LEMMA NextKeeps == IInv /\ [Next]_vars => IInv'
  <1> SUFFICES ASSUME IInv, [Next]_vars PROVE IInv'
    OBVIOUS
  <1>1. CASE UNCHANGED vars
    <2>1. /\ UNCHANGED <<suspends, completed, traces, history, spent>>
          /\ reader' = reader
      BY <1>1 DEF vars
    <2>2. HoldsNewest' /\ \A x : Rank(x, traces)' = Rank(x, traces)
      BY <2>1, StoreUnchanged
    <2> QED
      BY <2>1, <2>2 DEF IInv, TypeOK, NoMiss, ReadIsBounded, PagesAreStable,
                        KnownIds, Counted, Ahead, Moved, Undisturbed
  <1>2. ASSUME NEW i \in Ids, Save(i) PROVE IInv'
    BY <1>2, SaveKeeps
  <1>3. ASSUME NEW c \in Readers, Read(c) PROVE IInv'
    <2>1. ASSUME NEW k \in {"routes", "clear", "client"}, Begin(c, k) PROVE IInv'
      BY <2>1, BeginKeeps
    <2>2. CASE ReadPage(c)
      BY <2>2, ReadKeeps
    <2>3. CASE Clear(c)
      BY <2>3, ClearKeeps
    <2> QED
      BY <1>3, <2>1, <2>2, <2>3 DEF Read
  <1> QED
    BY <1>1, <1>2, <1>3 DEF Next

LEMMA Invariant == Spec => []IInv
  BY InitHolds, NextKeeps, PTL DEF Spec

-----------------------------------------------------------------------------
(***************************************************************************)
(* Every variable of the store and of its readers keeps its type.          *)
(***************************************************************************)
THEOREM StoreTypes == Spec => []TypeOK
  <1>1. IInv => TypeOK
    BY DEF IInv
  <1> QED
    BY <1>1, Invariant, PTL

(***************************************************************************)
(* MemoryTraceStore.save: in whatever order requests finish, the store     *)
(* holds the newest of the traces saved since it was cleared, as many as   *)
(* fit.                                                                    *)
(***************************************************************************)
THEOREM NewestKept == Spec => []HoldsNewest
  <1>1. IInv => HoldsNewest
    BY DEF IInv
  <1> QED
    BY <1>1, Invariant, PTL

(***************************************************************************)
(* _all_traces: a read of all pages receives every trace that was in the   *)
(* store all the time, whatever is saved or evicted between its pages.     *)
(***************************************************************************)
THEOREM NothingMissed == Spec => []NoMiss
  <1>1. IInv => NoMiss
    BY DEF IInv
  <1> QED
    BY <1>1, Invariant, PTL

(***************************************************************************)
(* _all_traces: a read never asks for more than the store can hold,        *)
(* however many traces are saved while it reads, and so it ends.           *)
(***************************************************************************)
THEOREM ReadsEnd == Spec => []ReadIsBounded
  <1>1. IInv => ReadIsBounded
    BY DEF IInv
  <1> QED
    BY <1>1, Invariant, PTL

(***************************************************************************)
(* "Stable pagination" (storage/memory.py): the pages repeat at most one   *)
(* trace for each one saved between them, and none on one event loop with  *)
(* a store that does not suspend.                                          *)
(***************************************************************************)
THEOREM PagesStable == Spec => []PagesAreStable
  <1>1. IInv => PagesAreStable
    BY DEF IInv
  <1> QED
    BY <1>1, Invariant, PTL
=============================================================================
