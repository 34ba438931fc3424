---------------------------- MODULE IntervalProofs ----------------------------
(***************************************************************************)
(* Proofs about IntervalMerge, for any lists of intervals, any bounds and  *)
(* any times: the loop computes the union of what it is given.             *)
(*                                                                         *)
(*   MergeComputesUnion  the merged intervals are apart, in order, and     *)
(*                       hold the moments that were measured;              *)
(*   SumIsMeasure        the sum of their spans is the number of these     *)
(*                       moments, and not more than the bounds.            *)
(***************************************************************************)
EXTENDS IntervalMerge, FiniteSetTheorems, TLAPS

Raw == [start : Int, end : Int \cup {None}]

Types ==
    /\ measured \in Seq(Raw)
    /\ bounds \in Interval \cup {None}
    /\ ordered \in Seq(Raw)
    /\ merged \in Seq(Interval)
    /\ next \in Nat \ {0}
    /\ next <= Len(ordered) + 1

Fresh == result = "none" => merged = <<>> /\ ordered = <<>> /\ next = 1

\* The intervals in order are the ones that are taken.
SameItems ==
    /\ \A k \in Taken : \E j \in DOMAIN ordered : ordered[j] = measured[k]
    /\ \A j \in DOMAIN ordered : \E k \in Taken : ordered[j] = measured[k]

Rising == \A j, k \in DOMAIN ordered : j < k => ordered[j].start <= ordered[k].start

\* The intervals that the loop has seen were valid.
SeenValid == \A j \in 1 .. (next - 1) : IsValid(ordered[j])

\* The merged intervals are valid, apart and in order, and none of them starts
\* after an interval that is still to come.
Apart ==
    /\ \A j \in DOMAIN merged : merged[j].start <= merged[j].end
    /\ \A j, k \in DOMAIN merged : j < k => merged[j].end < merged[k].start
    /\ \A j \in DOMAIN merged : \A k \in next .. Len(ordered) :
         merged[j].start <= ordered[k].start

NoneLost ==
    \A k \in 1 .. (next - 1) : \A m \in Int :
        Holds(ordered[k], m) => \E j \in DOMAIN merged : Holds(merged[j], m)

NoneAdded ==
    \A j \in DOMAIN merged : \A m \in Int :
        Holds(merged[j], m) => \E k \in 1 .. (next - 1) : Holds(ordered[k], m)

AtEnd == result \in {"adding", "done"} => next = Len(ordered) + 1

\* The loop has begun.
Running == result \in {"merging", "adding", "done"}

IInv ==
    /\ Types
    /\ Fresh
    /\ Running => SameItems /\ Rising /\ SeenValid /\ Apart /\ NoneLost /\ NoneAdded
    /\ AtEnd

-----------------------------------------------------------------------------
LEMMA InitHolds == Init => IInv
  <1> SUFFICES ASSUME Init PROVE IInv
    OBVIOUS
  <1>1. measured \in Seq(Raw) /\ bounds \in Interval \cup {None}
    BY ListsAssumption, BoundsAssumption DEF Init, Raw
  <1>2. ordered = <<>> /\ merged = <<>> /\ next = 1 /\ result = "none"
    BY DEF Init
  <1>3. Types
    BY <1>1, <1>2 DEF Types
  <1> QED
    BY <1>2, <1>3 DEF IInv, Fresh, AtEnd, Running

\* The elements of the sequences.
LEMMA Elements ==
    ASSUME Types
    PROVE  /\ \A j \in DOMAIN merged : /\ merged[j] \in Interval
                                     /\ merged[j].start \in Int
                                     /\ merged[j].end \in Int
           /\ \A k \in DOMAIN ordered : /\ ordered[k] \in Raw
                                      /\ ordered[k].start \in Int
                                      /\ ordered[k].end \in Int \cup {None}
  <1>1. \A j \in DOMAIN merged : merged[j] \in Interval
    BY DEF Types
  <1>2. \A x \in Interval : x.start \in Int /\ x.end \in Int
    BY DEF Interval
  <1>3. \A k \in DOMAIN ordered : ordered[k] \in Raw
    BY DEF Types
  <1>4. \A x \in Raw : x.start \in Int /\ x.end \in Int \cup {None}
    BY DEF Raw
  <1> QED
    BY <1>1, <1>2, <1>3, <1>4

\* What is taken is a finite set of indices.
LEMMA TakenIsFinite ==
    ASSUME Types
    PROVE  Taken \subseteq DOMAIN measured /\ Cardinality(Taken) \in Nat
  <1>1. DOMAIN measured = 1 .. Len(measured) /\ Len(measured) \in Nat
    BY DEF Types
  <1>2. IsFiniteSet(DOMAIN measured)
    BY <1>1, FS_Interval
  <1>3. Taken \in SUBSET DOMAIN measured
    BY DEF Taken
  <1> QED
    BY <1>2, <1>3, FS_Subset, FS_CardinalityType

\* sorted() gives the intervals that are taken, from the first start on.
LEMMA SortKeeps == ASSUME IInv, Sort PROVE IInv'
  <1> USE DEF IInv
  <1> DEFINE n == Cardinality(Taken)
  <1>1. Taken \subseteq DOMAIN measured /\ n \in Nat
    BY TakenIsFinite
  <1>2. PICK p \in Bijection(1 .. n, Taken) :
           ordered' = [k \in 1 .. n |-> measured[p[k]]] /\ IsSorted(ordered')
    BY DEF Sort
  <1>3. p \in [1 .. n -> Taken] /\ \A k \in Taken : \E j \in 1 .. n : p[j] = k
    BY <1>2 DEF Bijection, Injection, Surjection
  <1>4. \A k \in DOMAIN measured : measured[k] \in Raw
    BY DEF Types
  <1>5. ordered' \in Seq(Raw) /\ Len(ordered') = n /\ DOMAIN ordered' = 1 .. n
    <2>1. \A k \in 1 .. n : measured[p[k]] \in Raw
      BY <1>1, <1>3, <1>4
    <2>2. ordered' \in [1 .. n -> Raw]
      BY <1>2, <2>1
    <2> QED
      BY <1>1, <2>2
  <1>6. UNCHANGED <<where, measured, bounds, merged, next>> /\ result = "none"
        /\ result' = "merging" /\ merged = <<>> /\ next = 1
    BY DEF Sort, Fresh
  <1>7. Taken' = Taken
    BY <1>6 DEF Taken, IsValid
  <1>8. Types'
    BY <1>5, <1>6 DEF Types
  <1>9. SameItems'
    BY <1>2, <1>3, <1>5, <1>6, <1>7 DEF SameItems
  <1>10. Rising'
    <2> SUFFICES ASSUME NEW j \in 1 .. n, NEW k \in 1 .. n, j < k
                 PROVE  ordered'[j].start <= ordered'[k].start
      BY <1>5 DEF Rising
    <2>1. IsBefore(ordered'[j], ordered'[k])
      BY <1>2, <1>5 DEF IsSorted
    <2>2. ordered'[j] \in Raw /\ ordered'[k] \in Raw
      BY <1>5
    <2>3. ordered'[j].start \in Int /\ ordered'[k].start \in Int
      BY <2>2 DEF Raw
    <2> QED
      BY <2>1, <2>3 DEF IsBefore
  <1>11. SeenValid' /\ Apart' /\ NoneLost' /\ NoneAdded'
    BY <1>6 DEF SeenValid, Apart, NoneLost, NoneAdded
  <1> QED
    BY <1>6, <1>8, <1>9, <1>10, <1>11 DEF Fresh, AtEnd

-----------------------------------------------------------------------------
\* One turn of the loop: the next interval is opened or extends the last one.
LEMMA TakeKeeps == ASSUME IInv, Take PROVE IInv'
  <1> DEFINE x == ordered[next]
             last == Len(merged)
  <1> USE DEF IInv
  <1>1. /\ next \in 1 .. Len(ordered) /\ next' = next + 1 /\ result = "merging"
        /\ UNCHANGED <<where, measured, bounds, ordered, result>>
        /\ IsValid(x)
        /\ Open(x) \/ Extend(x)
    BY DEF Take, Types
  <1>2. x \in Interval /\ x.start \in Int /\ x.end \in Int /\ x.start <= x.end
    <2>1. x \in Raw
      BY <1>1 DEF Types
    <2>2. x.end # None /\ x.start <= x.end
      BY <1>1 DEF IsValid
    <2>3. x \in [start : Int, end : Int]
      BY <2>1, <2>2 DEF Raw
    <2> QED
      BY <2>2, <2>3 DEF Interval
  <1>3. SameItems /\ Rising /\ SeenValid /\ Apart /\ NoneLost /\ NoneAdded /\ Types
    BY <1>1 DEF Running
  <1>4. SameItems' /\ Rising' /\ AtEnd' /\ Fresh'
    BY <1>1, <1>3 DEF SameItems, Rising, AtEnd, Fresh, Taken, IsValid
  <1>5. SeenValid'
    BY <1>1, <1>3 DEF SeenValid, IsValid, Types
  <1>6. merged \in Seq(Interval) /\ last \in Nat /\ DOMAIN merged = 1 .. last
        /\ \A j \in DOMAIN merged : /\ merged[j] \in Interval
                                    /\ merged[j].start \in Int /\ merged[j].end \in Int
    BY <1>3, Elements DEF Types
  <1>7. \A k \in 1 .. Len(ordered) : k >= next => x.start <= ordered[k].start
    <2>1. DOMAIN ordered = 1 .. Len(ordered)
      BY <1>3 DEF Types
    <2> QED
      BY <1>1, <1>2, <1>3, <2>1 DEF Rising
  <1>9. /\ \A j \in 1 .. last : merged[j].start <= merged[j].end
        /\ \A j, k \in 1 .. last : j < k => merged[j].end < merged[k].start
        /\ \A j \in 1 .. last : \A k \in next .. Len(ordered) :
             merged[j].start <= ordered[k].start
    BY <1>3, <1>6 DEF Apart
  <1>10. /\ \A k \in 1 .. (next - 1) : \A m \in Int :
              Holds(ordered[k], m) => \E j \in 1 .. last : Holds(merged[j], m)
         /\ \A j \in 1 .. last : \A m \in Int :
              Holds(merged[j], m) => \E k \in 1 .. (next - 1) : Holds(ordered[k], m)
    BY <1>3, <1>6 DEF NoneLost, NoneAdded
  <1>11. Len(ordered) \in Nat /\ next \in Nat \ {0} /\ next \in 1 .. Len(ordered)
    BY <1>1, <1>3 DEF Types
  <1>12. next' - 1 = next /\ \A k \in 1 .. next : k # next => k \in 1 .. (next - 1)
    BY <1>1, <1>11
  <1>13. ordered' = ordered /\ next' = next + 1
    BY <1>1
  <1> HIDE DEF IInv, x, last
  <1>14. Types' /\ Apart' /\ NoneLost' /\ NoneAdded'
    <2>1. CASE Open(x)
      <3>1. merged' = Append(merged, x) /\ (merged # <<>> => x.start > merged[last].end)
        BY <2>1 DEF Open, IsApart, last
      <3>2. /\ merged' \in Seq(Interval) /\ Len(merged') = last + 1
            /\ DOMAIN merged' = 1 .. (last + 1)
            /\ \A j \in 1 .. last : merged'[j] = merged[j]
            /\ merged'[last + 1] = x
        BY <1>2, <1>6, <3>1 DEF last
      <3>3. Types'
        BY <1>1, <1>3, <3>2 DEF Types
      <3>4. \A j \in 1 .. last : merged[j].end < x.start
        <4> SUFFICES ASSUME NEW j \in 1 .. last PROVE merged[j].end < x.start
          OBVIOUS
        <4>1. merged # <<>> /\ last \in 1 .. last
          BY <1>6 DEF last
        <4>2. merged[last].end < x.start
          BY <1>2, <1>6, <3>1, <4>1
        <4>3. CASE j # last
          <5>1. j < last
            BY <1>6, <4>3
          <5>2. /\ merged[j].end < merged[last].start
                /\ merged[last].start <= merged[last].end
            BY <1>9, <4>1, <5>1
          <5>3. /\ merged[j].end \in Int /\ merged[last].start \in Int
                /\ merged[last].end \in Int
            BY <1>6, <4>1
          <5> QED
            BY <1>2, <4>2, <5>2, <5>3
        <4> QED
          BY <4>2, <4>3
      <3>5. Apart'
        <4>1. \A j \in DOMAIN merged' : merged'[j].start <= merged'[j].end
          BY <1>2, <1>6, <1>9, <3>2
        <4>2. \A j, k \in DOMAIN merged' : j < k => merged'[j].end < merged'[k].start
          <5> SUFFICES ASSUME NEW j \in 1 .. (last + 1), NEW k \in 1 .. (last + 1), j < k
                       PROVE  merged'[j].end < merged'[k].start
            BY <3>2
          <5>1. j \in 1 .. last /\ merged'[j] = merged[j]
            BY <1>6, <3>2
          <5>2. CASE k = last + 1
            BY <3>2, <3>4, <5>1, <5>2
          <5>3. CASE k # last + 1
            <6>1. k \in 1 .. last
              BY <1>6, <5>3
            <6> QED
              BY <1>9, <3>2, <5>1, <6>1
          <5> QED
            BY <5>2, <5>3
        <4>3. \A j \in DOMAIN merged' : \A k \in next' .. Len(ordered') :
                merged'[j].start <= ordered'[k].start
          <5> SUFFICES ASSUME NEW j \in 1 .. (last + 1),
                              NEW k \in next + 1 .. Len(ordered)
                       PROVE  merged'[j].start <= ordered[k].start
            BY <1>13, <3>2
          <5>1. k \in next .. Len(ordered) /\ k \in 1 .. Len(ordered) /\ k >= next
            BY <1>11
          <5>2. CASE j = last + 1
            BY <1>7, <3>2, <5>1, <5>2
          <5>3. CASE j # last + 1
            <6>1. j \in 1 .. last
              BY <1>6, <5>3
            <6> QED
              BY <1>9, <3>2, <5>1, <6>1
          <5> QED
            BY <5>2, <5>3
        <4> QED
          BY <4>1, <4>2, <4>3 DEF Apart
      <3>6. NoneLost'
        <4> SUFFICES ASSUME NEW k \in 1 .. next, NEW m \in Int, Holds(ordered[k], m)
                     PROVE  \E j \in 1 .. (last + 1) : Holds(merged'[j], m)
          BY <1>12, <1>13, <3>2 DEF NoneLost, Holds
        <4>1. CASE k = next
          BY <1>6, <3>2, <4>1 DEF x
        <4>2. CASE k # next
          <5>1. PICK j \in 1 .. last : Holds(merged[j], m)
            BY <1>10, <1>12, <4>2
          <5> QED
            BY <1>6, <3>2, <5>1
        <4> QED
          BY <4>1, <4>2
      <3>7. NoneAdded'
        <4> SUFFICES ASSUME NEW j \in 1 .. (last + 1), NEW m \in Int, Holds(merged'[j], m)
                     PROVE  \E k \in 1 .. next : Holds(ordered[k], m)
          BY <1>12, <1>13, <3>2 DEF NoneAdded, Holds
        <4>1. CASE j = last + 1
          BY <1>11, <3>2, <4>1 DEF x
        <4>2. CASE j # last + 1
          <5>1. j \in 1 .. last /\ merged'[j] = merged[j]
            BY <1>6, <3>2, <4>2
          <5>2. PICK k \in 1 .. (next - 1) : Holds(ordered[k], m)
            BY <1>10, <5>1
          <5> QED
            BY <1>11, <5>2
        <4> QED
          BY <4>1, <4>2
      <3> QED
        BY <3>3, <3>5, <3>6, <3>7
    <2>2. CASE Extend(x)
      <3> DEFINE e == FurtherEnd(x)
      <3>1. last \in 1 .. last /\ x.start <= merged[last].end
            /\ merged' = [merged EXCEPT ![last].end = e]
        <4>1. merged # <<>> /\ ~(x.start > merged[last].end)
          BY <2>2 DEF Extend, IsApart, last
        <4>2. last \in 1 .. last
          BY <1>6, <4>1 DEF last
        <4>3. merged' = [merged EXCEPT ![last].end = e]
          BY <2>2 DEF Extend, last
        <4> QED
          BY <1>2, <1>6, <4>1, <4>2, <4>3
      <3>2. e \in Int /\ e >= merged[last].end /\ e >= x.end
            /\ (e = merged[last].end \/ e = x.end)
        BY <1>2, <1>6, <3>1 DEF FurtherEnd, last
      <3> HIDE DEF e
      <3>3. /\ merged' \in Seq(Interval) /\ Len(merged') = last
            /\ DOMAIN merged' = 1 .. last
            /\ \A j \in 1 .. last : j # last => merged'[j] = merged[j]
            /\ merged'[last].start = merged[last].start /\ merged'[last].end = e
        <4>1. [merged[last] EXCEPT !.end = e] \in Interval
          BY <1>6, <3>1, <3>2 DEF Interval
        <4>2. merged' = [merged EXCEPT ![last] = [merged[last] EXCEPT !.end = e]]
          BY <3>1
        <4>3. merged' \in Seq(Interval) /\ Len(merged') = last
          BY <1>6, <3>1, <4>1, <4>2 DEF last
        <4>4. merged'[last] = [merged[last] EXCEPT !.end = e]
          BY <1>6, <3>1, <4>2
        <4>5. merged[last] \in Interval
          BY <1>6, <3>1
        <4>6. merged'[last].start = merged[last].start /\ merged'[last].end = e
          BY <4>4, <4>5 DEF Interval
        <4> QED
          BY <1>6, <3>1, <4>2, <4>3, <4>6
      <3>4. Types'
        BY <1>1, <1>3, <3>3 DEF Types
      <3>5. merged[last].start <= x.start
        BY <1>9, <1>11, <3>1 DEF x
      <3>6. Apart'
        <4>1. \A j \in DOMAIN merged' : merged'[j].start <= merged'[j].end
          <5> SUFFICES ASSUME NEW j \in 1 .. last
                       PROVE  merged'[j].start <= merged'[j].end
            BY <3>3
          <5>1. CASE j = last
            <6>1. merged[last].start <= merged[last].end
              BY <1>9, <3>1
            <6> QED
              BY <1>6, <3>1, <3>2, <3>3, <5>1, <6>1
          <5>2. CASE j # last
            BY <1>9, <3>3, <5>2
          <5> QED
            BY <5>1, <5>2
        <4>2. \A j, k \in DOMAIN merged' : j < k => merged'[j].end < merged'[k].start
          <5> SUFFICES ASSUME NEW j \in 1 .. last, NEW k \in 1 .. last, j < k
                       PROVE  merged'[j].end < merged'[k].start
            BY <3>3
          <5>1. j # last
            BY <1>6
          <5>2. merged'[j] = merged[j] /\ merged'[k].start = merged[k].start
            BY <3>3, <5>1
          <5> QED
            BY <1>9, <5>2
        <4>3. \A j \in DOMAIN merged' : \A k \in next' .. Len(ordered') :
                merged'[j].start <= ordered'[k].start
          <5> SUFFICES ASSUME NEW j \in 1 .. last, NEW k \in next + 1 .. Len(ordered)
                       PROVE  merged'[j].start <= ordered[k].start
            BY <1>13, <3>3
          <5>1. merged'[j].start = merged[j].start
            BY <3>3
          <5>2. k \in next .. Len(ordered)
            BY <1>11
          <5> QED
            BY <1>9, <5>1, <5>2
        <4> QED
          BY <4>1, <4>2, <4>3 DEF Apart
      <3>7. NoneLost'
        <4> SUFFICES ASSUME NEW k \in 1 .. next, NEW m \in Int, Holds(ordered[k], m)
                     PROVE  \E j \in 1 .. last : Holds(merged'[j], m)
          BY <1>12, <1>13, <3>3 DEF NoneLost, Holds
        <4>1. CASE k = next
          <5>1. x.start <= m /\ m < x.end
            BY <4>1 DEF Holds, x
          <5>2. merged'[last].start <= m /\ m < merged'[last].end
            BY <1>2, <1>6, <3>1, <3>2, <3>3, <3>5, <5>1
          <5> QED
            BY <3>1, <5>2 DEF Holds
        <4>2. CASE k # next
          <5>1. PICK j \in 1 .. last : Holds(merged[j], m)
            BY <1>10, <1>12, <4>2
          <5>2. CASE j = last
            <6>1. merged[last].start <= m /\ m < merged[last].end
              BY <5>1, <5>2 DEF Holds
            <6>2. merged'[last].start <= m /\ m < merged'[last].end
              BY <1>6, <3>1, <3>2, <3>3, <6>1
            <6> QED
              BY <3>1, <6>2 DEF Holds
          <5>3. CASE j # last
            BY <3>3, <5>1, <5>3
          <5> QED
            BY <5>2, <5>3
        <4> QED
          BY <4>1, <4>2
      <3>8. NoneAdded'
        <4> SUFFICES ASSUME NEW j \in 1 .. last, NEW m \in Int, Holds(merged'[j], m)
                     PROVE  \E k \in 1 .. next : Holds(ordered[k], m)
          BY <1>12, <1>13, <3>3 DEF NoneAdded, Holds
        <4>1. CASE Holds(merged[j], m)
          <5>1. PICK k \in 1 .. (next - 1) : Holds(ordered[k], m)
            BY <1>10, <4>1
          <5> QED
            BY <1>11, <5>1
        <4>2. CASE ~Holds(merged[j], m)
          <5>1. j = last
            BY <3>3, <4>2
          <5>2. m >= merged[last].end /\ m < e
            <6>1. merged[last].start <= m /\ m < e
              BY <3>3, <5>1 DEF Holds
            <6>2. ~(m < merged[last].end)
              BY <4>2, <5>1, <6>1 DEF Holds
            <6> QED
              BY <1>6, <3>1, <6>1, <6>2
          <5>3. x.start <= m /\ m < x.end
            BY <1>2, <1>6, <3>1, <3>2, <5>2
          <5> QED
            BY <1>11, <5>3 DEF Holds, x
        <4> QED
          BY <4>1, <4>2
      <3> QED
        BY <3>4, <3>6, <3>7, <3>8
    <2> QED
      BY <1>1, <2>1, <2>2
  <1> QED
    BY <1>1, <1>3, <1>4, <1>5, <1>14 DEF IInv

-----------------------------------------------------------------------------
LEMMA NextKeeps == IInv /\ [Next]_vars => IInv'
  <1> SUFFICES ASSUME IInv, [Next]_vars PROVE IInv'
    OBVIOUS
  <1> USE DEF IInv
  <1>1. CASE Refuse
    BY <1>1 DEF Refuse, Types, Fresh, Running, AtEnd
  <1>2. CASE Sort
    BY <1>2, SortKeeps
  <1>3. CASE Take
    BY <1>3, TakeKeeps
  <1>4. CASE Reject
    BY <1>4 DEF Reject, Types, Fresh, Running, AtEnd
  <1>5. CASE Merge \/ Add \/ Finish
    <2>1. /\ result \in {"merging", "adding"} /\ result' \in {"adding", "done"}
          /\ result = "merging" => next > Len(ordered)
          /\ UNCHANGED <<where, measured, bounds, ordered, merged, next>>
      BY <1>5 DEF Merge, Add, Finish
    <2>2. Types' /\ Fresh' /\ AtEnd'
      BY <2>1 DEF Types, Fresh, AtEnd
    <2>3. SameItems' /\ Rising' /\ SeenValid'
      BY <2>1 DEF Running, SameItems, Rising, SeenValid, Taken, IsValid
    <2>4. Apart' /\ NoneLost' /\ NoneAdded'
      BY <2>1 DEF Running, Apart, NoneLost, NoneAdded, Holds
    <2> QED
      BY <2>2, <2>3, <2>4
  <1>6. CASE UNCHANGED vars
    <2>1. Types' /\ Fresh' /\ AtEnd'
      BY <1>6 DEF vars, Types, Fresh, AtEnd
    <2>2. Running' => SameItems' /\ Rising' /\ SeenValid'
      BY <1>6 DEF vars, Running, SameItems, Rising, SeenValid, Taken, IsValid
    <2>3. Running' => Apart' /\ NoneLost' /\ NoneAdded'
      BY <1>6 DEF vars, Running, Apart, NoneLost, NoneAdded, Holds
    <2> QED
      BY <2>1, <2>2, <2>3
  <1> QED
    BY <1>1, <1>2, <1>3, <1>4, <1>5, <1>6 DEF Next

LEMMA InvariantSuffices == IInv => MergedIsUnion
  <1> SUFFICES ASSUME IInv, result = "done" PROVE MergedIsUnion
    BY DEF MergedIsUnion
  <1>1. /\ Types /\ SameItems /\ SeenValid /\ Apart /\ NoneLost /\ NoneAdded
        /\ next = Len(ordered) + 1
    BY DEF IInv, Running, AtEnd
  <1>2. DOMAIN ordered = 1 .. (next - 1)
    BY <1>1 DEF Types
  <1>3. \A j, k \in DOMAIN merged : j < k => merged[j].end < merged[k].start
    BY <1>1 DEF Apart
  <1>4. ASSUME NEW k \in Taken, NEW m \in measured[k].start .. (measured[k].end - 1)
        PROVE  \E j \in DOMAIN merged : Holds(merged[j], m)
    <2>1. PICK i \in 1 .. (next - 1) : ordered[i] = measured[k]
      BY <1>1, <1>2 DEF SameItems
    <2>2. measured[k].start \in Int /\ measured[k].end \in Int
      <3>1. ordered[i].start \in Int /\ ordered[i].end \in Int \cup {None}
        BY <1>1, <1>2, Elements
      <3>2. ordered[i].end # None
        BY <1>1 DEF SeenValid, IsValid
      <3> QED
        BY <2>1, <3>1, <3>2
    <2>3. m \in Int /\ Holds(ordered[i], m)
      BY <2>1, <2>2 DEF Holds
    <2> QED
      BY <1>1, <2>3 DEF NoneLost
  <1>5. ASSUME NEW j \in DOMAIN merged, NEW m \in merged[j].start .. (merged[j].end - 1)
        PROVE  \E k \in Taken : Holds(measured[k], m)
    <2>1. merged[j].start \in Int /\ merged[j].end \in Int
      BY <1>1, Elements
    <2>2. m \in Int /\ Holds(merged[j], m)
      BY <2>1 DEF Holds
    <2>3. PICK i \in 1 .. (next - 1) : Holds(ordered[i], m)
      BY <1>1, <2>2 DEF NoneAdded
    <2> QED
      BY <1>1, <1>2, <2>3 DEF SameItems
  <1> QED
    BY <1>3, <1>4, <1>5 DEF MergedIsUnion

(***************************************************************************)
(* Whatever intervals are measured, in whatever order they come, the merge *)
(* that ends has computed their union: no moment is lost, none is added    *)
(* and none is in two of the merged intervals.                             *)
(***************************************************************************)
THEOREM MergeComputesUnion == Spec => []MergedIsUnion
  BY InitHolds, NextKeeps, InvariantSuffices, PTL DEF Spec

-----------------------------------------------------------------------------
(***************************************************************************)
(* The sum.  The intervals that were added are apart, so each of them adds *)
(* as many moments as its span.                                            *)
(***************************************************************************)
Moments(x) == x.start .. (x.end - 1)

Counted(n) == UNION {Moments(merged[k]) : k \in 1 .. n}

\* The bounds that the loop is given are not reversed.
Fit == Running /\ bounds # None => bounds.start <= bounds.end

Summed ==
    /\ total \in Int /\ added \in 0 .. Len(merged)
    /\ result \notin {"adding", "done"} => added = 0
    /\ result = "done" => added = Len(merged)
    /\ IsFiniteSet(Counted(added)) /\ total = Cardinality(Counted(added))

SumInv == Fit /\ Summed

\* No moment is in nothing.
LEMMA NothingCounted == Counted(0) = {} /\ Cardinality(Counted(0)) = 0
                          /\ IsFiniteSet(Counted(0))
  <1>1. Counted(0) = {}
    BY DEF Counted
  <1> QED
    BY <1>1, FS_EmptySet

\* The moments of an interval.
LEMMA MomentsOf ==
    ASSUME NEW x \in Interval, x.start <= x.end
    PROVE  IsFiniteSet(Moments(x)) /\ Cardinality(Moments(x)) = x.end - x.start
  <1>1. x.start \in Int /\ x.end \in Int /\ x.end - 1 \in Int
    BY DEF Interval
  <1>2. /\ IsFiniteSet(Moments(x))
        /\ Cardinality(Moments(x)) =
             IF x.start > x.end - 1 THEN 0 ELSE (x.end - 1) - x.start + 1
    BY <1>1, FS_Interval DEF Moments
  <1> QED
    BY <1>1, <1>2

\* One more interval adds its span.
LEMMA CountOneMore ==
    ASSUME Types, Apart, NEW n \in Nat, n < Len(merged),
           IsFiniteSet(Counted(n))
    PROVE  /\ IsFiniteSet(Counted(n + 1))
           /\ Cardinality(Counted(n + 1)) = Cardinality(Counted(n)) + Span(n + 1)
           /\ Span(n + 1) \in Int
  <1> DEFINE x == merged[n + 1]
  <1>1. /\ DOMAIN merged = 1 .. Len(merged) /\ n + 1 \in 1 .. Len(merged)
        /\ \A k \in 1 .. n : k \in 1 .. Len(merged) /\ k < n + 1
        /\ \A k : k \in 1 .. (n + 1) <=> k \in 1 .. n \/ k = n + 1
    BY DEF Types
  <1>2. x \in Interval /\ x.start \in Int /\ x.end \in Int /\ x.start <= x.end
    BY <1>1, Elements DEF Apart
  <1>3. IsFiniteSet(Moments(x)) /\ Cardinality(Moments(x)) = x.end - x.start
    BY <1>2, MomentsOf
  <1>4. Counted(n + 1) = Counted(n) \cup Moments(x)
    BY <1>1 DEF Counted
  <1>5. Counted(n) \cap Moments(x) = {}
    <2> SUFFICES ASSUME NEW k \in 1 .. n, NEW m \in Moments(merged[k]), m \in Moments(x)
                 PROVE  FALSE
      BY DEF Counted
    <2>1. merged[k].end < x.start /\ merged[k].start \in Int /\ merged[k].end \in Int
      BY <1>1, Elements DEF Apart
    <2>2. m < merged[k].end /\ m >= x.start /\ m \in Int
      BY <1>2, <2>1 DEF Moments
    <2> QED
      BY <1>2, <2>1, <2>2
  <1>6. /\ IsFiniteSet(Counted(n + 1))
        /\ Cardinality(Counted(n + 1)) =
             Cardinality(Counted(n)) + Cardinality(Moments(x)) - Cardinality({})
    BY <1>3, <1>4, <1>5, FS_Union
  <1>7. Cardinality({}) = 0 /\ Cardinality(Counted(n)) \in Nat
    BY FS_EmptySet, FS_CardinalityType
  <1> HIDE DEF x
  <1>8. Cardinality(Counted(n + 1)) = Cardinality(Counted(n)) + (x.end - x.start)
    BY <1>2, <1>3, <1>6, <1>7
  <1>9. Span(n + 1) = x.end - x.start
    BY DEF Span, x
  <1> QED
    BY <1>2, <1>6, <1>8, <1>9

\* Nothing is counted before the sum, and then one interval after the other.
LEMMA SumStep ==
    ASSUME IInv, SumInv, [Next]_vars
    PROVE  SumInv'
  <1>t. Types /\ Len(merged) \in Nat
    BY DEF IInv, Types
  <1>s. /\ total \in Int /\ added \in 0 .. Len(merged) /\ added \in Nat
        /\ result \notin {"adding", "done"} => added = 0
        /\ result = "done" => added = Len(merged)
        /\ IsFiniteSet(Counted(added)) /\ total = Cardinality(Counted(added))
    BY DEF SumInv, Summed
  <1>0. ASSUME result' \notin {"adding", "done"}, added' = 0, total' = 0,
               Len(merged') \in Nat
        PROVE  Summed'
    <2>1. Counted(0)' = {}
      BY DEF Counted
    <2>2. IsFiniteSet(Counted(0)') /\ Cardinality(Counted(0)') = 0
      BY <2>1, FS_EmptySet
    <2>3. Counted(added)' = Counted(0)'
      BY <1>0 DEF Counted
    <2>4. total' = Cardinality(Counted(added)') /\ IsFiniteSet(Counted(added)')
      BY <1>0, <2>2, <2>3
    <2> QED
      BY <1>0, <2>4 DEF Summed
  <1>n. result \notin {"adding", "done"} => added = 0 /\ total = 0
    BY <1>s, NothingCounted
  <1>1. CASE Refuse \/ Reject
    <2>1. /\ UNCHANGED <<bounds, merged, total, added>> /\ result' = "invalid"
          /\ result \in {"none", "merging"}
      BY <1>1 DEF Refuse, Reject
    <2>2. Fit'
      BY <2>1 DEF Fit, Running
    <2> QED
      BY <1>0, <1>n, <1>t, <2>1, <2>2 DEF SumInv
  <1>2. CASE Sort
    <2>1. /\ UNCHANGED <<bounds, merged, total, added>> /\ result' = "merging"
          /\ result = "none" /\ ~Unfit
      BY <1>2 DEF Sort
    <2>2. Fit'
      <3>1. bounds # None => ~(bounds.end < bounds.start)
        BY <2>1 DEF Unfit
      <3>2. bounds # None => bounds.start \in Int /\ bounds.end \in Int
        BY <1>t DEF Types, Interval
      <3>3. bounds # None => bounds.start <= bounds.end
        BY <3>1, <3>2
      <3> QED
        BY <2>1, <3>3 DEF Fit
    <2> QED
      BY <1>0, <1>n, <1>t, <2>1, <2>2 DEF SumInv
  <1>3. CASE Take
    <2>1. /\ UNCHANGED <<bounds, total, added, result>> /\ result = "merging"
      BY <1>3 DEF Take
    <2>2. Len(merged') \in Nat
      <3>1. IInv'
        BY <1>3, TakeKeeps
      <3> QED
        BY <3>1 DEF IInv, Types
    <2>3. Fit'
      BY <2>1 DEF SumInv, Fit, Running
    <2> QED
      BY <1>0, <1>n, <2>1, <2>2, <2>3 DEF SumInv
  <1>4. CASE Merge \/ Finish \/ UNCHANGED vars
    <2>1. /\ UNCHANGED <<bounds, merged, total, added>>
          /\ result \in {"adding", "done"} => result' \in {"adding", "done"}
          /\ result' = result \/ (result \in {"merging", "adding"})
          /\ result' \notin {"adding", "done"} => result' = result
          /\ result' = "done" => added = Len(merged)
      BY <1>4, <1>s DEF Merge, Finish, vars
    <2>2. Fit'
      BY <2>1 DEF SumInv, Fit, Running
    <2>3. Counted(added)' = Counted(added)
      BY <2>1 DEF Counted
    <2> QED
      BY <1>s, <2>1, <2>2, <2>3 DEF SumInv, Summed
  <1>5. CASE Add
    <2>1. /\ UNCHANGED <<bounds, merged, result>> /\ result = "adding"
          /\ added < Len(merged) /\ total' = total + Span(added + 1)
          /\ added' = added + 1
      BY <1>5 DEF Add
    <2>2. Fit'
      BY <2>1 DEF SumInv, Fit, Running
    <2>3. Apart
      BY <2>1 DEF IInv, Running
    <2>4. /\ IsFiniteSet(Counted(added + 1))
          /\ Cardinality(Counted(added + 1)) = total + Span(added + 1)
          /\ Span(added + 1) \in Int
      BY <1>s, <1>t, <2>1, <2>3, CountOneMore
    <2>5. Counted(added)' = Counted(added + 1)
      BY <2>1 DEF Counted
    <2>6. total' \in Int /\ added' \in 0 .. Len(merged')
      BY <1>s, <1>t, <2>1, <2>4
    <2> QED
      BY <2>1, <2>2, <2>4, <2>5, <2>6 DEF SumInv, Summed
  <1> QED
    BY <1>1, <1>2, <1>3, <1>4, <1>5 DEF Next

\* What was counted in the end is what was measured.
LEMMA CountedIsMeasured ==
    ASSUME IInv, result = "done"
    PROVE  Counted(Len(merged)) = UNION {Moments(measured[k]) : k \in Taken}
  <1>1. /\ Types /\ SameItems /\ SeenValid /\ NoneLost /\ NoneAdded
        /\ next = Len(ordered) + 1
    BY DEF IInv, Running, AtEnd
  <1>2. DOMAIN ordered = 1 .. (next - 1) /\ DOMAIN merged = 1 .. Len(merged)
    BY <1>1 DEF Types
  <1>3. \A x : x.start \in Int /\ x.end \in Int =>
          \A m : m \in Moments(x) <=> m \in Int /\ Holds(x, m)
    BY DEF Moments, Holds
  <1>4. \A j \in DOMAIN merged : merged[j].start \in Int /\ merged[j].end \in Int
    BY <1>1, Elements
  <1>5. \A i \in DOMAIN ordered : ordered[i].start \in Int /\ ordered[i].end \in Int
    BY <1>1, <1>2, Elements DEF SeenValid, IsValid
  <1>6. \A k \in Taken : measured[k].start \in Int /\ measured[k].end \in Int
    BY <1>1, <1>5 DEF SameItems
  <1>7. ASSUME NEW m \in Counted(Len(merged))
        PROVE  \E k \in Taken : m \in Moments(measured[k])
    <2>1. PICK j \in DOMAIN merged : m \in Moments(merged[j])
      BY <1>2 DEF Counted
    <2>2. m \in Int /\ Holds(merged[j], m)
      BY <1>3, <1>4, <2>1
    <2>3. PICK i \in 1 .. (next - 1) : Holds(ordered[i], m)
      BY <1>1, <2>2 DEF NoneAdded
    <2>4. PICK k \in Taken : ordered[i] = measured[k]
      BY <1>1, <1>2 DEF SameItems
    <2> QED
      BY <1>3, <1>6, <2>2, <2>3, <2>4
  <1>8. ASSUME NEW k \in Taken, NEW m \in Moments(measured[k])
        PROVE  m \in Counted(Len(merged))
    <2>1. m \in Int /\ Holds(measured[k], m)
      BY <1>3, <1>6
    <2>2. PICK i \in 1 .. (next - 1) : ordered[i] = measured[k]
      BY <1>1, <1>2 DEF SameItems
    <2>3. PICK j \in DOMAIN merged : Holds(merged[j], m)
      BY <1>1, <2>1, <2>2 DEF NoneLost
    <2>4. m \in Moments(merged[j])
      BY <1>3, <1>4, <2>1, <2>3
    <2> QED
      BY <1>2, <2>4 DEF Counted
  <1> QED
    BY <1>7, <1>8

\* The moments that were measured are within the bounds.
LEMMA MeasuredInBounds ==
    ASSUME IInv, SumInv, result = "done", bounds # None
    PROVE  /\ bounds \in Interval /\ bounds.start <= bounds.end
           /\ UNION {Moments(measured[k]) : k \in Taken} \subseteq Moments(bounds)
  <1>1. /\ Types /\ SameItems /\ SeenValid /\ next = Len(ordered) + 1
        /\ bounds.start <= bounds.end
    BY DEF IInv, Running, AtEnd, SumInv, Fit
  <1>2. bounds \in Interval /\ bounds.start \in Int /\ bounds.end \in Int
    BY <1>1 DEF Types, Interval
  <1>3. DOMAIN ordered = 1 .. (next - 1)
    BY <1>1 DEF Types
  <1>4. ASSUME NEW k \in Taken, NEW m \in Moments(measured[k])
        PROVE  m \in Moments(bounds)
    <2>1. PICK i \in 1 .. (next - 1) : ordered[i] = measured[k]
      BY <1>1, <1>3 DEF SameItems
    <2>2. /\ bounds.start <= measured[k].start /\ measured[k].end <= bounds.end
          /\ measured[k].end # None
      BY <1>1, <2>1 DEF SeenValid, IsValid
    <2>3. measured[k].start \in Int /\ measured[k].end \in Int
      BY <1>1, <1>3, <2>1, <2>2, Elements
    <2> QED
      BY <1>2, <2>2, <2>3 DEF Moments
  <1> QED
    BY <1>1, <1>2, <1>4

LEMMA SumSuffices == IInv /\ SumInv => DurationIsMeasure
  <1> SUFFICES ASSUME IInv, SumInv, result = "done" PROVE DurationIsMeasure
    BY DEF DurationIsMeasure
  <1> DEFINE moments == UNION {Moments(measured[k]) : k \in Taken}
  <1>1. total = Cardinality(moments) /\ IsFiniteSet(moments) /\ total \in Nat
    <2>1. added = Len(merged) /\ IsFiniteSet(Counted(added))
          /\ total = Cardinality(Counted(added))
      BY DEF SumInv, Summed
    <2>2. Counted(added) = moments
      BY <2>1, CountedIsMeasured
    <2> QED
      BY <2>1, <2>2, FS_CardinalityType
  <1>2. ASSUME bounds # None PROVE SelfDuration \in 0 .. (bounds.end - bounds.start)
    <2>1. /\ bounds \in Interval /\ bounds.start <= bounds.end
          /\ moments \subseteq Moments(bounds)
      BY <1>2, MeasuredInBounds
    <2>2. IsFiniteSet(Moments(bounds))
          /\ Cardinality(Moments(bounds)) = bounds.end - bounds.start
      BY <2>1, MomentsOf
    <2> HIDE DEF moments
    <2>3. total <= bounds.end - bounds.start
      BY <1>1, <2>1, <2>2, FS_Subset
    <2>4. bounds.start \in Int /\ bounds.end \in Int
      BY <2>1 DEF Interval
    <2> QED
      BY <1>1, <2>3, <2>4 DEF SelfDuration
  <1>3. total = Cardinality(UNION {measured[k].start .. (measured[k].end - 1) : k \in Taken})
    BY <1>1 DEF Moments
  <1> QED
    BY <1>2, <1>3 DEF DurationIsMeasure

(***************************************************************************)
(* Whatever overlaps, touches, repeats or is empty, the sum is the number  *)
(* of moments that were measured, and what it leaves of the bounds, self   *)
(* and unattributed time, is never negative.                               *)
(***************************************************************************)
THEOREM SumIsMeasure == Spec => []DurationIsMeasure
  <1>1. Init => SumInv
    <2> SUFFICES ASSUME Init PROVE SumInv
      OBVIOUS
    <2>1. added = 0 /\ total = 0 /\ merged = <<>> /\ result = "none"
      BY DEF Init
    <2>2. Summed
      BY <2>1, NothingCounted DEF Summed
    <2> QED
      BY <2>1, <2>2 DEF SumInv, Fit, Running
  <1>2. IInv /\ SumInv /\ [Next]_vars => SumInv'
    BY SumStep
  <1> QED
    BY <1>1, <1>2, InitHolds, NextKeeps, SumSuffices, PTL DEF Spec
=============================================================================
