---------------------------- MODULE FinishingProofs ----------------------------
(***************************************************************************)
(* Proofs about TraceFinishing, for any traces, any limits and any sizes:  *)
(*                                                                         *)
(*   FinishingTypes      every variable keeps its type, and the limits on  *)
(*                       the lists hold;                                   *)
(*   TruncationIsTold    a stored trace is whole or says that it is not;   *)
(*   SecretsNeverStored  nothing that a sensitive key leads to is stored;  *)
(*   LoopTriesAll        a trace is refused only when it is bare;          *)
(*   SharesAreShares     a rule finds more than 100 % only of              *)
(*                       serialization that ended after the body;          *)
(*   TreesAreExplained   what is stored is a tree, and what it lacks is    *)
(*                       told.                                             *)
(***************************************************************************)
EXTENDS TraceFinishing, FiniteSetTheorems, WellFoundedInduction, TLAPS

-----------------------------------------------------------------------------
(* Lists, texts and records. *)

LEMMA PrefixFacts ==
    ASSUME NEW S, NEW list \in Seq(S), NEW n \in Nat
    PROVE  /\ Prefix(list, n) \in Seq(S)
           /\ Len(Prefix(list, n)) <= n
           /\ Len(Prefix(list, n)) <= Len(list)
           /\ Len(list) <= n => Prefix(list, n) = list
           /\ Len(list) > n => Len(Prefix(list, n)) = n
           /\ \A i \in 1 .. Len(Prefix(list, n)) : Prefix(list, n)[i] = list[i]
  <1>1. CASE Len(list) <= n
    BY <1>1 DEF Prefix
  <1>2. CASE ~(Len(list) <= n)
    <2>1. Prefix(list, n) = SubSeq(list, 1, n) /\ n \in 0 .. Len(list)
      BY <1>2 DEF Prefix
    <2>2. /\ SubSeq(list, 1, n) \in Seq(S) /\ Len(SubSeq(list, 1, n)) = n
          /\ \A i \in 1 .. n : SubSeq(list, 1, n)[i] = list[i]
      BY <2>1
    <2> QED
      BY <1>2, <2>1, <2>2
  <1> QED
    BY <1>1, <1>2

LEMMA MarkerIsFinding == Marker \in Finding
  BY DEF Marker, Finding, Codes

\* The marker is the first of the findings, which are within their limit.
LEMMA MarkedFacts ==
    ASSUME NEW findings \in Seq(Finding)
    PROVE  /\ Marked(findings) \in Seq(Finding)
           /\ Len(Marked(findings)) <= MaxDiagnostics
           /\ Len(Marked(findings)) >= 1
           /\ Marked(findings) # <<>>
           /\ Marked(findings)[1] = Marker
  <1>1. Unmarked(findings) \in Seq(Finding)
    BY DEF Unmarked
  <1> DEFINE all == <<Marker>> \o Unmarked(findings)
  <1>2. all \in Seq(Finding) /\ Len(all) >= 1 /\ all[1] = Marker
    BY <1>1, MarkerIsFinding
  <1> HIDE DEF all
  <1>3. MaxDiagnostics \in Nat \ {0}
    BY LimitAssumption
  <1>4. Marked(findings) = Prefix(all, MaxDiagnostics)
    BY DEF Marked, all
  <1>5. /\ Marked(findings) \in Seq(Finding)
        /\ Len(Marked(findings)) <= MaxDiagnostics
        /\ Len(all) <= MaxDiagnostics => Marked(findings) = all
        /\ Len(all) > MaxDiagnostics => Len(Marked(findings)) = MaxDiagnostics
        /\ \A i \in 1 .. Len(Marked(findings)) : Marked(findings)[i] = all[i]
    <2>1. MaxDiagnostics \in Nat
      BY <1>3
    <2>2. /\ Prefix(all, MaxDiagnostics) \in Seq(Finding)
          /\ Len(Prefix(all, MaxDiagnostics)) <= MaxDiagnostics
          /\ Len(all) <= MaxDiagnostics => Prefix(all, MaxDiagnostics) = all
          /\ Len(all) > MaxDiagnostics =>
               Len(Prefix(all, MaxDiagnostics)) = MaxDiagnostics
          /\ \A i \in 1 .. Len(Prefix(all, MaxDiagnostics)) :
               Prefix(all, MaxDiagnostics)[i] = all[i]
      BY <1>2, <2>1, PrefixFacts
    <2> QED
      BY <1>4, <2>2
  <1>6. Len(Marked(findings)) >= 1
    <2>1. Len(all) \in Nat
      BY <1>2
    <2> QED
      BY <1>2, <1>3, <1>5, <2>1
  <1>7. Marked(findings) # <<>> /\ 1 \in 1 .. Len(Marked(findings))
    BY <1>5, <1>6
  <1> QED
    BY <1>2, <1>5, <1>6, <1>7

LEMMA CutFacts ==
    ASSUME NEW text \in Text \cup {None}, NEW n \in Nat
    PROVE  /\ Cut(text, n) \in Text \cup {None}
           /\ ~(text # None /\ text.length > n) => Cut(text, n) = text
  BY DEF Cut, Text

\* One field of a trace is replaced.
LEMMA ReplaceFindings ==
    ASSUME NEW t \in TraceType, NEW x \in Seq(Finding)
    PROVE  /\ [t EXCEPT !.findings = x] \in TraceType
           /\ [t EXCEPT !.findings = x].findings = x
           /\ [t EXCEPT !.findings = x].segments = t.segments
           /\ [t EXCEPT !.findings = x].dependencies = t.dependencies
  BY DEF TraceType

LEMMA ReplaceSegments ==
    ASSUME NEW t \in TraceType, NEW x \in Seq(SegmentType)
    PROVE  /\ [t EXCEPT !.segments = x] \in TraceType
           /\ [t EXCEPT !.segments = x].segments = x
           /\ [t EXCEPT !.segments = x].findings = t.findings
           /\ [t EXCEPT !.segments = x].dependencies = t.dependencies
  BY DEF TraceType

LEMMA ReplaceDependencies ==
    ASSUME NEW t \in TraceType, NEW x \in Seq(DependencyType)
    PROVE  /\ [t EXCEPT !.dependencies = x] \in TraceType
           /\ [t EXCEPT !.dependencies = x].dependencies = x
           /\ [t EXCEPT !.dependencies = x].findings = t.findings
           /\ [t EXCEPT !.dependencies = x].segments = t.segments
  BY DEF TraceType

LEMMA Fields ==
    ASSUME NEW t \in TraceType
    PROVE  /\ t.segments \in Seq(SegmentType)
           /\ t.dependencies \in Seq(DependencyType)
           /\ t.findings \in Seq(Finding)
           /\ t.path \in Text \cup {None}
           /\ t.route \in Text \cup {None}
           /\ t.method \in Text \cup {None}
           /\ t.error \in {None, "short", "long", "cut"}
  BY DEF TraceType

LEMMA SizeIsInt == ASSUME NEW t \in TraceType PROVE Size(t) \in Int
  <1>1. \A text \in Text \cup {None} : TextBytes(text) \in Int
    BY DEF TextBytes, Text
  <1>2. /\ Len(t.segments) \in Int /\ Len(t.dependencies) \in Int
        /\ Len(t.findings) \in Int
    BY Fields
  <1>3. /\ FrameBytes \in Int /\ SegmentBytes \in Int /\ DependencyBytes \in Int
        /\ FindingBytes \in Int /\ ErrorBytes \in Int
    BY BytesAssumption
  <1>4. /\ TextBytes(t.path) \in Int /\ TextBytes(t.route) \in Int
        /\ TextBytes(t.method) \in Int
    BY <1>1, Fields
  <1>5. /\ SegmentBytes * Len(t.segments) \in Int
        /\ DependencyBytes * Len(t.dependencies) \in Int
        /\ FindingBytes * Len(t.findings) \in Int
    BY <1>2, <1>3
  <1>6. (IF t.error = None THEN 0 ELSE ErrorBytes) \in Int
    BY <1>3
  <1>7. \A a, b, c, d, e, f, g, h \in Int : a + b + c + d + e + f + g + h \in Int
    OBVIOUS
  <1> DEFINE a == SegmentBytes * Len(t.segments)
             b == DependencyBytes * Len(t.dependencies)
             c == FindingBytes * Len(t.findings)
             d == IF t.error = None THEN 0 ELSE ErrorBytes
             e == TextBytes(t.path)
             f == TextBytes(t.route)
             g == TextBytes(t.method)
  <1>8. Size(t) = FrameBytes + a + b + c + d + e + f + g
    BY DEF Size
  <1>9. /\ a \in Int /\ b \in Int /\ c \in Int /\ d \in Int
        /\ e \in Int /\ f \in Int /\ g \in Int
    BY <1>4, <1>5, <1>6
  <1> HIDE DEF a, b, c, d, e, f, g
  <1> QED
    BY <1>3, <1>7, <1>8, <1>9

-----------------------------------------------------------------------------
(* The way to a leaf of the attributes. *)

LEMMA HasLeast ==
    ASSUME NEW S, S \subseteq Nat, S # {}
    PROVE  \E x \in S : \A y \in S : x <= y
  <1>1. PICK x \in S : \A y \in S : ~(<<y, x>> \in OpToRel(<, Nat))
    BY NatLessThanWellFounded, WFMin
  <1>2. \A y \in S : ~(y < x)
    BY <1>1, Zenon DEF OpToRel
  <1> QED
    BY <1>2

\* What is followed of a way.
LEMMA WayFacts ==
    ASSUME NEW leaf \in Leaf
    PROVE  /\ Way(leaf) \in 1 .. Len(leaf.way)
           /\ \A j \in 1 .. (Way(leaf) - 1) : ~leaf.way[j].secret
           /\ \/ leaf.way[Way(leaf)].secret
              \/ Way(leaf) > MaxDepth
              \/ /\ Way(leaf) = Len(leaf.way)
                 /\ \A j \in 1 .. Len(leaf.way) : ~leaf.way[j].secret
  <1> DEFINE ends == {i \in DOMAIN leaf.way : leaf.way[i].secret \/ i > MaxDepth}
             n    == CHOOSE i \in ends : \A j \in ends : i <= j
  <1>1. /\ leaf.way \in Seq(Step) /\ leaf.way # <<>>
        /\ DOMAIN leaf.way = 1 .. Len(leaf.way)
        /\ Len(leaf.way) \in Nat /\ Len(leaf.way) >= 1
    BY DEF Leaf
  <1>2. ends \subseteq 1 .. Len(leaf.way)
    BY <1>1
  <1>3. /\ ends = {} => Way(leaf) = Len(leaf.way)
        /\ ends # {} => Way(leaf) = n
    BY DEF Way
  <1>4. \A i \in 1 .. Len(leaf.way) :
          leaf.way[i].secret \/ i > MaxDepth <=> i \in ends
    BY <1>1
  <1>5. CASE ends = {}
    BY <1>1, <1>3, <1>4, <1>5
  <1>6. CASE ends # {}
    <2>1. ends \subseteq Nat
      BY <1>1, <1>2
    <2> HIDE DEF ends
    <2>2. n \in ends /\ \A j \in ends : n <= j
      BY <1>6, <2>1, HasLeast
    <2> HIDE DEF n
    <2>3. \A j \in 1 .. (n - 1) : j \notin ends /\ j \in 1 .. Len(leaf.way)
      BY <1>1, <1>2, <2>2
    <2> QED
      BY <1>2, <1>3, <1>4, <1>6, <2>2, <2>3
  <1> QED
    BY <1>5, <1>6

\* The values of attributes stay values, and no secret is among them.
LEMMA SafeLeafFacts ==
    ASSUME NEW leaf \in Leaf
    PROVE  /\ SafeLeaf(leaf) \in Leaf
           /\ (\E i \in DOMAIN SafeLeaf(leaf).way : SafeLeaf(leaf).way[i].secret)
                => SafeLeaf(leaf).value = "[REDACTED]"
  <1> DEFINE n == Way(leaf)
             w == SubSeq(leaf.way, 1, n)
             v == IF leaf.way[n].secret THEN "[REDACTED]"
                  ELSE IF n > MaxDepth THEN "[MAX_DEPTH]"
                  ELSE SafeValue(leaf.value)
  <1>1. leaf.way \in Seq(Step) /\ leaf.value \in Values
    BY DEF Leaf
  <1>2. SafeLeaf(leaf) = [way |-> w, value |-> v]
    BY DEF SafeLeaf
  <1>3. n \in 1 .. Len(leaf.way)
    BY WayFacts
  <1>4. w \in Seq(Step) /\ Len(w) = n /\ \A i \in 1 .. n : w[i] = leaf.way[i]
    BY <1>1, <1>3
  <1>5. w # <<>> /\ DOMAIN w = 1 .. n
    BY <1>3, <1>4
  <1>6. v \in Values
    BY <1>1 DEF SafeValue, Values
  <1>7. \A i \in 1 .. n : w[i].secret => i = n
    BY <1>3, <1>4, WayFacts
  <1> HIDE DEF w, n
  <1>8. SafeLeaf(leaf) \in Leaf
    BY <1>2, <1>4, <1>5, <1>6 DEF Leaf
  <1>9. SafeLeaf(leaf).way = w /\ SafeLeaf(leaf).value = v
    BY <1>2
  <1>10. ASSUME NEW i \in DOMAIN w, w[i].secret PROVE v = "[REDACTED]"
    <2>1. i = n
      BY <1>5, <1>7, <1>10
    <2>2. w[n] = leaf.way[n]
      BY <1>4, <1>5, <2>1
    <2> QED
      BY <1>10, <2>1, <2>2
  <1> HIDE DEF v
  <1> QED
    BY <1>8, <1>9, <1>10

\* Where nothing is lost, the leaf is only redacted.
LEMMA KeptLeaf ==
    ASSUME NEW leaf \in Leaf, ~Loses(leaf)
    PROVE  ~IsDropped(leaf) /\ SafeLeaf(leaf) = RedactedLeaf(leaf)
  <1> DEFINE n       == Way(leaf)
             secrets == {i \in DOMAIN leaf.way : leaf.way[i].secret}
             first   == CHOOSE i \in secrets : \A j \in secrets : i <= j
  <1>1. /\ leaf.way \in Seq(Step) /\ leaf.value \in Values
        /\ DOMAIN leaf.way = 1 .. Len(leaf.way) /\ Len(leaf.way) \in Nat
        /\ leaf = [way |-> leaf.way, value |-> leaf.value]
    BY DEF Leaf
  <1>2. /\ n \in 1 .. Len(leaf.way)
        /\ \A j \in 1 .. (n - 1) : ~leaf.way[j].secret
        /\ \/ leaf.way[n].secret
           \/ n > MaxDepth
           \/ n = Len(leaf.way) /\ \A j \in 1 .. Len(leaf.way) : ~leaf.way[j].secret
    BY WayFacts
  <1>3. /\ SafeLeaf(leaf).way = SubSeq(leaf.way, 1, n)
        /\ SafeLeaf(leaf).value =
             IF leaf.way[n].secret THEN "[REDACTED]"
             ELSE IF n > MaxDepth THEN "[MAX_DEPTH]"
             ELSE SafeValue(leaf.value)
        /\ SafeLeaf(leaf) = [way |-> SafeLeaf(leaf).way, value |-> SafeLeaf(leaf).value]
    BY DEF SafeLeaf
  <1>4. ~IsDropped(leaf) /\ SafeLeaf(leaf).value \notin {"[MAX_DEPTH]", "cut", "null"}
    BY DEF Loses
  <1>5. /\ secrets = {} => RedactedLeaf(leaf) = leaf
        /\ secrets # {} => RedactedLeaf(leaf) =
             [way |-> SubSeq(leaf.way, 1, first), value |-> "[REDACTED]"]
    BY DEF RedactedLeaf
  <1> HIDE DEF n
  <1>6. CASE leaf.way[n].secret
    <2>1. n \in secrets /\ \A j \in secrets : n <= j
      BY <1>1, <1>2, <1>6
    <2>2. secrets # {} /\ secrets \subseteq Nat
      BY <1>1, <2>1
    <2> HIDE DEF secrets
    <2>3. first \in secrets /\ \A j \in secrets : first <= j
      BY <2>1
    <2>4. first <= n /\ n <= first /\ first \in Nat /\ n \in Nat
      BY <2>1, <2>2, <2>3
    <2> HIDE DEF first
    <2>5. first = n
      BY <2>4
    <2> QED
      BY <1>3, <1>4, <1>5, <1>6, <2>2, <2>5
  <1>7. CASE ~leaf.way[n].secret
    <2>1. ~(n > MaxDepth)
      BY <1>3, <1>4, <1>7
    <2>2. n = Len(leaf.way) /\ \A j \in 1 .. Len(leaf.way) : ~leaf.way[j].secret
      BY <1>2, <1>7, <2>1
    <2>3. secrets = {}
      BY <1>1, <2>2
    <2>4. SubSeq(leaf.way, 1, n) = leaf.way
      BY <1>1, <2>2
    <2>5. SafeLeaf(leaf).value = SafeValue(leaf.value)
      BY <1>3, <1>7, <2>1
    <2>6. SafeValue(leaf.value) = leaf.value
      BY <1>4, <2>5 DEF SafeValue
    <2> QED
      BY <1>1, <1>3, <1>4, <1>5, <2>3, <2>4, <2>5, <2>6
  <1> QED
    BY <1>6, <1>7

-----------------------------------------------------------------------------
(* What the sanitizer makes of a trace before it looks at the size. *)

\* No value that a sensitive key leads to is in the segment.
IsSafe(s) ==
    \A l \in s.attributes :
        (\E i \in DOMAIN l.way : l.way[i].secret) => l.value = "[REDACTED]"

LEMMA SafeSegmentFacts ==
    ASSUME NEW s \in SegmentType
    PROVE  /\ SafeSegment(s) \in SegmentType
           /\ IsSafe(SafeSegment(s))
           /\ ~s.long /\ (\A l \in s.attributes : ~Loses(l))
                => SafeSegment(s) = RedactedSegment(s)
  <1> DEFINE a == SafeAttributes(s.attributes)
             r == {RedactedLeaf(l) : l \in s.attributes}
  <1>1. s.attributes \subseteq Leaf /\ s.long \in BOOLEAN
    BY DEF SegmentType
  <1>2. a \subseteq Leaf
    BY <1>1, SafeLeafFacts DEF SafeAttributes
  <1>3. \A l \in a : (\E i \in DOMAIN l.way : l.way[i].secret)
                         => l.value = "[REDACTED]"
    BY <1>1, SafeLeafFacts DEF SafeAttributes
  <1>4. (\A l \in s.attributes : ~Loses(l)) => a = r
    BY <1>1, KeptLeaf DEF SafeAttributes
  <1>5. /\ SafeSegment(s) = [s EXCEPT !.long = FALSE, !.attributes = a]
        /\ RedactedSegment(s) = [s EXCEPT !.attributes = r]
    BY DEF SafeSegment, RedactedSegment
  <1> HIDE DEF a, r
  <1>6. /\ SafeSegment(s) \in SegmentType
        /\ SafeSegment(s).attributes = a
    BY <1>2, <1>5 DEF SegmentType
  <1>7. ~s.long /\ a = r => SafeSegment(s) = RedactedSegment(s)
    BY <1>1, <1>5 DEF SegmentType
  <1> QED
    BY <1>3, <1>4, <1>6, <1>7 DEF IsSafe

LEMMA BoundedFacts ==
    ASSUME NEW t \in TraceType
    PROVE  /\ Bounded(t) \in TraceType
           /\ Len(Bounded(t).segments) <= MaxSegments
           /\ Len(Bounded(t).dependencies) <= MaxDependencies
           /\ Len(Bounded(t).findings) <= MaxDiagnostics
           /\ \A i \in 1 .. Len(Bounded(t).segments) : IsSafe(Bounded(t).segments[i])
           /\ ~Truncates(t) =>
                Bounded(t) = [t EXCEPT !.segments =
                                [i \in DOMAIN @ |-> RedactedSegment(@[i])]]
  <1> DEFINE ss == Prefix(t.segments, MaxSegments)
             ds == Prefix(t.dependencies, MaxDependencies)
             m  == Cut(t.method, MaxText)
             p  == Cut(t.path, MaxText)
             r  == Cut(t.route, MaxText)
             e  == IF t.error = "long" THEN "cut" ELSE t.error
             s  == [i \in DOMAIN ss |-> SafeSegment(ss[i])]
             d  == [i \in DOMAIN ds |-> [ds[i] EXCEPT !.long = FALSE]]
             f  == Prefix(t.findings, MaxDiagnostics)
  <1>1. /\ MaxSegments \in Nat /\ MaxDependencies \in Nat
        /\ MaxDiagnostics \in Nat /\ MaxText \in Nat
    BY LimitAssumption
  <1>2. /\ ss \in Seq(SegmentType) /\ Len(ss) <= MaxSegments
        /\ Len(t.segments) <= MaxSegments => ss = t.segments
    <2>1. t.segments \in Seq(SegmentType)
      BY Fields
    <2> QED
      BY <1>1, <2>1, PrefixFacts
  <1>3. /\ ds \in Seq(DependencyType) /\ Len(ds) <= MaxDependencies
        /\ Len(t.dependencies) <= MaxDependencies => ds = t.dependencies
    <2>1. t.dependencies \in Seq(DependencyType)
      BY Fields
    <2> QED
      BY <1>1, <2>1, PrefixFacts
  <1>4. /\ f \in Seq(Finding) /\ Len(f) <= MaxDiagnostics
        /\ Len(t.findings) <= MaxDiagnostics => f = t.findings
    <2>1. t.findings \in Seq(Finding)
      BY Fields
    <2> QED
      BY <1>1, <2>1, PrefixFacts
  <1>5. /\ m \in Text \cup {None} /\ p \in Text \cup {None} /\ r \in Text \cup {None}
        /\ ~(t.method # None /\ t.method.length > MaxText) => m = t.method
        /\ ~(t.path # None /\ t.path.length > MaxText) => p = t.path
        /\ ~(t.route # None /\ t.route.length > MaxText) => r = t.route
    BY <1>1, Fields, CutFacts
  <1>6. /\ e \in {None, "short", "long", "cut"}
        /\ t.error # "long" => e = t.error
    BY Fields
  <1>7. \A i \in 1 .. Len(ss) : ss[i] \in SegmentType
    BY <1>2
  <1>8. \A i \in 1 .. Len(ds) : ds[i] \in DependencyType
    BY <1>3
  <1>9. DOMAIN ss = 1 .. Len(ss) /\ Len(ss) \in Nat
    BY <1>2
  <1>10. DOMAIN ds = 1 .. Len(ds) /\ Len(ds) \in Nat
    BY <1>3
  <1>11. Bounded(t) = [t EXCEPT !.method = m, !.path = p, !.route = r, !.error = e,
                                !.segments = s, !.dependencies = d, !.findings = f]
    BY DEF Bounded
  <1>12. ~Truncates(t) =>
           /\ Len(t.segments) <= MaxSegments
           /\ Len(t.dependencies) <= MaxDependencies
           /\ Len(t.findings) <= MaxDiagnostics
           /\ m = t.method /\ p = t.path /\ r = t.route /\ e = t.error
           /\ \A i \in DOMAIN ss :
                ~ss[i].long /\ \A l \in ss[i].attributes : ~Loses(l)
           /\ \A i \in DOMAIN ds : ~ds[i].long
    <2>1. ASSUME ~Truncates(t)
          PROVE  /\ ~(Len(t.segments) > MaxSegments)
                 /\ ~(Len(t.dependencies) > MaxDependencies)
                 /\ ~(Len(t.findings) > MaxDiagnostics)
                 /\ \A x \in Texts : ~(t[x] # None /\ t[x].length > MaxText)
                 /\ t.error # "long"
                 /\ \A x \in ToSet(ss) : ~x.long /\ \A l \in x.attributes : ~Loses(l)
                 /\ \A x \in ToSet(ds) : ~x.long
      BY <2>1 DEF Truncates
    <2>2. /\ Len(t.segments) \in Nat /\ Len(t.dependencies) \in Nat
          /\ Len(t.findings) \in Nat
      BY Fields
    <2>3. (\A i \in DOMAIN ss : ss[i] \in ToSet(ss)) /\ (\A i \in DOMAIN ds : ds[i] \in ToSet(ds))
      BY DEF ToSet
    <2> HIDE DEF ss, ds, m, p, r, e
    <2>4. {"path", "route", "method"} = Texts
      BY DEF Texts
    <2> SUFFICES ASSUME ~Truncates(t)
                 PROVE  /\ Len(t.segments) <= MaxSegments
                        /\ Len(t.dependencies) <= MaxDependencies
                        /\ Len(t.findings) <= MaxDiagnostics
                        /\ m = t.method /\ p = t.path /\ r = t.route /\ e = t.error
                        /\ \A i \in DOMAIN ss :
                             ~ss[i].long /\ \A l \in ss[i].attributes : ~Loses(l)
                        /\ \A i \in DOMAIN ds : ~ds[i].long
      OBVIOUS
    <2>5. /\ ~(t.method # None /\ t.method.length > MaxText)
          /\ ~(t.path # None /\ t.path.length > MaxText)
          /\ ~(t.route # None /\ t.route.length > MaxText)
      BY <2>1, <2>4
    <2> QED
      BY <1>1, <1>5, <1>6, <2>1, <2>2, <2>3, <2>5
  <1> HIDE DEF ss, ds, m, p, r, e, f
  <1>13. s \in Seq(SegmentType) /\ Len(s) = Len(ss)
         /\ \A i \in 1 .. Len(s) : IsSafe(s[i])
    BY <1>7, <1>9, SafeSegmentFacts
  <1>14. d \in Seq(DependencyType) /\ Len(d) = Len(ds)
    <2>1. \A i \in 1 .. Len(ds) : [ds[i] EXCEPT !.long = FALSE] \in DependencyType
      BY <1>8 DEF DependencyType
    <2> QED
      BY <1>10, <2>1
  <1>15. (\A i \in DOMAIN ss : ~ss[i].long /\ \A l \in ss[i].attributes : ~Loses(l))
           => s = [i \in DOMAIN ss |-> RedactedSegment(ss[i])]
    BY <1>7, <1>9, SafeSegmentFacts
  <1>16. (\A i \in DOMAIN ds : ~ds[i].long) => d = ds
    <2>1. \A x \in DependencyType : ~x.long => [x EXCEPT !.long = FALSE] = x
      BY DEF DependencyType
    <2> QED
      BY <1>3, <1>8, <1>10, <2>1
  <1> HIDE DEF s, d
  <1>17. /\ Bounded(t) \in TraceType
         /\ Bounded(t).segments = s /\ Bounded(t).dependencies = d
         /\ Bounded(t).findings = f
         /\ m = t.method /\ p = t.path /\ r = t.route /\ e = t.error
            /\ d = t.dependencies /\ f = t.findings
              => Bounded(t) = [t EXCEPT !.segments = s]
    <2>1. /\ m \in Text \cup {None} /\ p \in Text \cup {None} /\ r \in Text \cup {None}
          /\ e \in {None, "short", "long", "cut"} /\ s \in Seq(SegmentType)
          /\ d \in Seq(DependencyType) /\ f \in Seq(Finding)
      BY <1>4, <1>5, <1>6, <1>13, <1>14
    <2>2. Bounded(t) \in TraceType
      BY ZenonT(40), <1>11, <2>1 DEF TraceType
    <2>3. /\ Bounded(t).segments = s /\ Bounded(t).dependencies = d
          /\ Bounded(t).findings = f
      BY <1>11 DEF TraceType
    <2>4. m = t.method /\ p = t.path /\ r = t.route /\ e = t.error
          /\ d = t.dependencies /\ f = t.findings
            => Bounded(t) = [t EXCEPT !.segments = s]
      <3>1. \A x \in TraceType :
              x = [id |-> x.id, complete |-> x.complete, received |-> x.received,
                   start |-> x.start, body |-> x.body, app |-> x.app,
                   status |-> x.status, error |-> x.error, path |-> x.path,
                   route |-> x.route, method |-> x.method,
                   segments |-> x.segments, dependencies |-> x.dependencies,
                   findings |-> x.findings]
        BY DEF TraceType
      <3>2. [t EXCEPT !.segments = s] \in TraceType
        BY <2>1, ReplaceSegments
      <3>3. /\ Bounded(t).id = t.id /\ Bounded(t).complete = t.complete
            /\ Bounded(t).received = t.received /\ Bounded(t).start = t.start
            /\ Bounded(t).body = t.body /\ Bounded(t).app = t.app
            /\ Bounded(t).status = t.status /\ Bounded(t).error = e
            /\ Bounded(t).path = p /\ Bounded(t).route = r
            /\ Bounded(t).method = m
        BY <1>11 DEF TraceType
      <3> DEFINE u == [t EXCEPT !.segments = s]
      <3>4. /\ u.id = t.id /\ u.complete = t.complete
            /\ u.received = t.received /\ u.start = t.start
            /\ u.body = t.body /\ u.app = t.app
            /\ u.status = t.status /\ u.error = t.error
            /\ u.path = t.path /\ u.route = t.route
            /\ u.method = t.method /\ u.segments = s
            /\ u.dependencies = t.dependencies /\ u.findings = t.findings
        BY DEF TraceType
      <3> HIDE DEF u
      <3> QED
        BY <2>2, <2>3, <3>1, <3>2, <3>3, <3>4 DEF u
    <2> QED
      BY <2>2, <2>3, <2>4
  <1>18. ~Truncates(t) =>
           Bounded(t) = [t EXCEPT !.segments =
                           [i \in DOMAIN @ |-> RedactedSegment(@[i])]]
    <2> SUFFICES ASSUME ~Truncates(t)
                 PROVE  Bounded(t) = [t EXCEPT !.segments =
                          [i \in DOMAIN t.segments |-> RedactedSegment(t.segments[i])]]
      OBVIOUS
    <2>1. ss = t.segments /\ d = t.dependencies /\ f = t.findings
      BY <1>2, <1>3, <1>4, <1>12, <1>16
    <2>2. s = [i \in DOMAIN t.segments |-> RedactedSegment(t.segments[i])]
      BY <1>12, <1>15, <2>1
    <2> QED
      BY <1>12, <1>17, <2>1, <2>2
  <1> QED
    BY <1>2, <1>3, <1>4, <1>13, <1>14, <1>17, <1>18

-----------------------------------------------------------------------------
(* What the rules return: a list of findings, and one of them is about any *)
(* reference that names nothing.                                           *)

\* The recursive function of FlattenSeq, on the first k parts.
IsFlat(f, parts, k) ==
    f = [i \in 1 .. k |-> IF i = 1 THEN parts[i] ELSE f[i - 1] \o parts[i]]

LEMMA FlatExists ==
    ASSUME NEW parts, NEW n \in Nat
    PROVE  \E f : IsFlat(f, parts, n)
  <1> DEFINE lacks == {k \in Nat : ~ \E f : IsFlat(f, parts, k)}
  <1> SUFFICES ASSUME lacks # {} PROVE FALSE
    OBVIOUS
  <1>1. PICK k \in lacks : \A j \in lacks : k <= j
    <2>1. lacks \subseteq Nat
      OBVIOUS
    <2> HIDE DEF lacks
    <2> QED
      BY <2>1, HasLeast
  <1>2. k \in Nat /\ \A f : ~IsFlat(f, parts, k)
    OBVIOUS
  <1>3. k # 0
    <2> DEFINE e == [i \in 1 .. 0 |-> parts[i]]
    <2>1. IsFlat(e, parts, 0)
      BY DEF IsFlat
    <2> QED
      BY <1>2, <2>1
  <1>4. k - 1 \in Nat /\ k - 1 \notin lacks
    BY <1>1, <1>2, <1>3
  <1>5. PICK f : IsFlat(f, parts, k - 1)
    BY <1>4
  <1> HIDE DEF lacks
  <1> DEFINE g == [i \in 1 .. k |-> IF i = 1 THEN parts[i]
                                    ELSE f[i - 1] \o parts[i]]
  <1>6. \A i \in 1 .. k : i # 1 => i - 1 \in 1 .. (k - 1) /\ i - 1 \in 1 .. k
    BY <1>2
  <1>7. ASSUME NEW i \in 1 .. (k - 1) PROVE g[i] = f[i]
    <2>1. i \in 1 .. k
      BY <1>2
    <2>2. f[i] = IF i = 1 THEN parts[i] ELSE f[i - 1] \o parts[i]
      BY <1>5 DEF IsFlat
    <2> QED
      BY <2>1, <2>2
  <1>8. g = [i \in 1 .. k |-> IF i = 1 THEN parts[i] ELSE g[i - 1] \o parts[i]]
    <2>1. ASSUME NEW i \in 1 .. k
          PROVE  (IF i = 1 THEN parts[i] ELSE f[i - 1] \o parts[i])
                   = IF i = 1 THEN parts[i] ELSE g[i - 1] \o parts[i]
      <3>1. i # 1 => g[i - 1] = f[i - 1]
        BY <1>6, <1>7
      <3> HIDE DEF g
      <3> QED
        BY <3>1
    <2> DEFINE h == [i \in 1 .. k |-> IF i = 1 THEN parts[i]
                                      ELSE g[i - 1] \o parts[i]]
    <2>2. g = h
      BY <2>1
    <2> QED
      BY <2>2
  <1>9. IsFlat(g, parts, k)
    BY <1>8 DEF IsFlat
  <1> QED
    BY <1>2, <1>9

\* Every element of a part is in the list.
Has(list, part) == \A i \in DOMAIN part : \E m \in DOMAIN list : list[m] = part[i]

\* A list of type Seq(S) that has every element of the first k parts.
Gathers(list, parts, k, S) ==
    list \in Seq(S) /\ \A j \in 1 .. k : Has(list, parts[j])

LEMMA HasTransitive ==
    ASSUME NEW a, NEW b, NEW c, Has(a, b), Has(b, c)
    PROVE  Has(a, c)
  <1> SUFFICES ASSUME NEW i \in DOMAIN c PROVE \E m \in DOMAIN a : a[m] = c[i]
    BY DEF Has
  <1>1. PICK j \in DOMAIN b : b[j] = c[i]
    BY DEF Has
  <1> QED
    BY <1>1 DEF Has

LEMMA Concatenates ==
    ASSUME NEW S, NEW a \in Seq(S), NEW b \in Seq(S)
    PROVE  /\ a \o b \in Seq(S)
           /\ Has(a \o b, a) /\ Has(a \o b, b)
  <1>1. /\ a \o b \in Seq(S) /\ Len(a \o b) = Len(a) + Len(b)
        /\ Len(a) \in Nat /\ Len(b) \in Nat
        /\ DOMAIN a = 1 .. Len(a) /\ DOMAIN b = 1 .. Len(b)
        /\ DOMAIN (a \o b) = 1 .. Len(a \o b)
    OBVIOUS
  <1>2. ASSUME NEW i \in DOMAIN a
        PROVE  i \in DOMAIN (a \o b) /\ (a \o b)[i] = a[i]
    BY <1>1
  <1>3. ASSUME NEW i \in DOMAIN b
        PROVE  Len(a) + i \in DOMAIN (a \o b) /\ (a \o b)[Len(a) + i] = b[i]
    BY <1>1
  <1>4. Has(a \o b, a)
    <2> SUFFICES ASSUME NEW i \in DOMAIN a
                 PROVE  \E m \in DOMAIN (a \o b) : (a \o b)[m] = a[i]
      BY Zenon DEF Has
    <2> QED
      BY <1>2, Zenon
  <1>5. Has(a \o b, b)
    <2> SUFFICES ASSUME NEW i \in DOMAIN b
                 PROVE  \E m \in DOMAIN (a \o b) : (a \o b)[m] = b[i]
      BY Zenon DEF Has
    <2> QED
      BY <1>3, Zenon
  <1> QED
    BY <1>1, <1>4, <1>5

LEMMA FlatFacts ==
    ASSUME NEW S, NEW parts \in Seq(Seq(S)), NEW f, IsFlat(f, parts, Len(parts)),
           NEW n \in 1 .. Len(parts)
    PROVE  Gathers(f[n], parts, n, S)
  <1> DEFINE wrong == {k \in 1 .. Len(parts) : ~Gathers(f[k], parts, k, S)}
  <1> SUFFICES ASSUME wrong # {} PROVE FALSE
    OBVIOUS
  <1>0. Len(parts) \in Nat /\ \A k \in 1 .. Len(parts) : parts[k] \in Seq(S)
    OBVIOUS
  <1>1. PICK k \in wrong : \A j \in wrong : k <= j
    <2>1. wrong \subseteq Nat
      BY <1>0
    <2> HIDE DEF wrong
    <2> QED
      BY <2>1, HasLeast
  <1>2. k \in 1 .. Len(parts) /\ ~Gathers(f[k], parts, k, S)
    OBVIOUS
  <1>3. f[k] = IF k = 1 THEN parts[k] ELSE f[k - 1] \o parts[k]
    BY <1>2 DEF IsFlat
  <1>4. CASE k = 1
    <2>1. f[1] = parts[1] /\ parts[1] \in Seq(S) /\ \A j \in 1 .. 1 : j = 1
      BY <1>0, <1>2, <1>3, <1>4
    <2>2. Gathers(f[1], parts, 1, S)
      BY <2>1 DEF Gathers, Has
    <2> QED
      BY <1>2, <1>4, <2>2
  <1>5. CASE k # 1
    <2>1. k - 1 \in 1 .. Len(parts) /\ k - 1 \notin wrong
      BY <1>0, <1>1, <1>2, <1>5
    <2>2. Gathers(f[k - 1], parts, k - 1, S)
      BY <2>1
    <2> DEFINE a == f[k - 1]
               b == parts[k]
    <2>3. f[k] = a \o b /\ b \in Seq(S)
      BY <1>0, <1>2, <1>3, <1>5
    <2>4. a \in Seq(S) /\ \A j \in 1 .. (k - 1) : Has(a, parts[j])
      BY <2>2 DEF Gathers
    <2>5. \A j \in 1 .. k : j \in 1 .. (k - 1) \/ j = k
      BY <1>2
    <2>6. a \o b \in Seq(S) /\ Has(a \o b, a) /\ Has(a \o b, b)
      <3> HIDE DEF a, b
      <3> QED
        BY <2>3, <2>4, Concatenates
    <2>7. ASSUME NEW j \in 1 .. k
          PROVE  Has(a \o b, parts[j])
      <3>1. CASE j = k
        BY <2>6, <3>1
      <3>2. CASE j \in 1 .. (k - 1)
        <4>1. Has(a, parts[j])
          BY <2>4, <3>2
        <4> HIDE DEF a, b
        <4> QED
          BY <2>6, <4>1, HasTransitive
      <3> QED
        BY <2>5, <3>1, <3>2
    <2>8. Gathers(f[k], parts, k, S)
      <3> HIDE DEF a, b
      <3> QED
        BY <2>3, <2>6, <2>7 DEF Gathers
    <2> QED
      BY <1>2, <2>8
  <1> QED
    BY <1>4, <1>5

\* What FlattenSeq returns is typed and lacks nothing.
LEMMA Flattens ==
    ASSUME NEW S, NEW parts \in Seq(Seq(S))
    PROVE  Gathers(FlattenSeq(parts), parts, Len(parts), S)
  <1>0. Len(parts) \in Nat /\ DOMAIN parts = 1 .. Len(parts)
    OBVIOUS
  <1>1. CASE Len(parts) = 0
    <2>1. FlattenSeq(parts) = parts /\ parts = <<>>
      BY <1>1 DEF FlattenSeq
    <2>2. 1 .. Len(parts) = {}
      BY <1>1
    <2>3. <<>> \in Seq(S)
      OBVIOUS
    <2> QED
      BY <2>1, <2>2, <2>3 DEF Gathers
  <1>2. CASE Len(parts) # 0
    <2> DEFINE n == Len(parts)
               f == CHOOSE f : IsFlat(f, parts, n)
    <2>1. IsFlat(f, parts, n)
      BY <1>0, FlatExists
    <2>2. FlattenSeq(parts) = f[n]
      BY <1>2 DEF FlattenSeq, IsFlat
    <2>3. n \in 1 .. Len(parts)
      BY <1>0, <1>2
    <2> HIDE DEF f
    <2>4. Gathers(f[n], parts, n, S)
      BY <2>1, <2>3, FlatFacts
    <2> QED
      BY <2>2, <2>4
  <1> QED
    BY <1>1, <1>2

\* The k-th of a finite set of numbers is one of them: how many are smaller is
\* different for each of them, so every number occurs.
LEMMA NthFacts ==
    ASSUME NEW S \in SUBSET Int, IsFiniteSet(S), NEW k \in 1 .. Cardinality(S)
    PROVE  Nth(S, k) \in S
  <1> DEFINE Below(x) == {y \in S : y < x}
             r == [x \in S |-> Cardinality(Below(x))]
             N == 0 .. (Cardinality(S) - 1)
  <1>1. Cardinality(S) \in Nat
    BY FS_CardinalityType
  <1>2. ASSUME NEW x \in S
        PROVE  IsFiniteSet(Below(x)) /\ Cardinality(Below(x)) \in Nat
    <2>1. Below(x) \subseteq S
      OBVIOUS
    <2> HIDE DEF Below
    <2> QED
      BY <2>1, FS_Subset, FS_CardinalityType
  <1>3. ASSUME NEW x \in S PROVE Cardinality(Below(x)) \in N
    <2>1. Below(x) \subseteq S /\ x \notin Below(x) /\ Below(x) # S
      OBVIOUS
    <2> HIDE DEF Below
    <2>2. /\ Cardinality(Below(x)) <= Cardinality(S)
          /\ Cardinality(Below(x)) # Cardinality(S)
      BY <2>1, FS_Subset
    <2> QED
      BY <1>1, <1>2, <2>2
  <1>4. ASSUME NEW x \in S, NEW y \in S, x < y
        PROVE  Cardinality(Below(x)) # Cardinality(Below(y))
    <2>1. x \in Below(y) /\ x \notin Below(x)
      BY <1>4
    <2>2. \A z \in S : z < x => z < y
      BY <1>4
    <2>3. Below(x) \subseteq Below(y)
      BY <2>2
    <2> HIDE DEF Below
    <2> QED
      BY <1>2, <2>1, <2>3, FS_Subset
  <1>5. \A x, y \in S : Cardinality(Below(x)) = Cardinality(Below(y)) => x = y
    <2> SUFFICES ASSUME NEW x \in S, NEW y \in S,
                        Cardinality(Below(x)) = Cardinality(Below(y)), x # y
                 PROVE  FALSE
      OBVIOUS
    <2>1. x < y \/ y < x
      OBVIOUS
    <2> HIDE DEF Below
    <2> QED
      BY <1>4, <2>1
  <1> HIDE DEF Below
  <1>6. r \in Injection(S, N)
    BY <1>3, <1>5 DEF Injection, IsInjective
  <1>7. IsFiniteSet(N) /\ Cardinality(N) = Cardinality(S)
    <2>1. 0 \in Int /\ Cardinality(S) - 1 \in Int
      BY <1>1
    <2>2. /\ IsFiniteSet(0 .. (Cardinality(S) - 1))
          /\ Cardinality(0 .. (Cardinality(S) - 1)) =
               IF 0 > Cardinality(S) - 1 THEN 0 ELSE Cardinality(S) - 1 - 0 + 1
      BY <2>1, FS_Interval
    <2> QED
      BY <1>1, <2>2
  <1>8. r \in Surjection(S, N)
    <2> HIDE DEF r, N
    <2> QED
      BY <1>6, <1>7, FS_Injection
  <1>9. k - 1 \in N
    BY <1>1
  <1>10. \E x \in S : Cardinality(Below(x)) = k - 1
    BY <1>8, <1>9 DEF Surjection
  <1> QED
    BY <1>10 DEF Nth, Below

LEMMA PositionFacts ==
    ASSUME NEW t \in TraceType
    PROVE  /\ Len(t.segments) \in Nat /\ DOMAIN t.segments = 1 .. Len(t.segments)
           /\ \A i \in 1 .. Len(t.segments) :
                t.segments[i] \in SegmentType /\ t.segments[i].id \in Int
           /\ IsFiniteSet(1 .. Len(t.segments))
  <1>1. t.segments \in Seq(SegmentType)
    BY Fields
  <1>2. \A s \in SegmentType : s.id \in Int
    BY DEF SegmentType
  <1>3. Len(t.segments) \in Int
    BY <1>1
  <1>4. IsFiniteSet(1 .. Len(t.segments))
    BY <1>3, FS_Interval
  <1> QED
    BY <1>1, <1>2, <1>4

LEMMA AboutEachFacts ==
    ASSUME NEW t \in TraceType, NEW code \in Codes,
           NEW positions \in SUBSET (1 .. Len(t.segments))
    PROVE  AboutEach(t, code, positions) \in Seq(Finding)
  <1>1. IsFiniteSet(positions) /\ positions \in SUBSET Int
    BY PositionFacts, FS_Subset
  <1>2. Cardinality(positions) \in Nat
    BY <1>1, FS_CardinalityType
  <1>3. ASSUME NEW k \in 1 .. Cardinality(positions)
        PROVE  [code |-> code, about |-> t.segments[Nth(positions, k)].id] \in Finding
    <2>1. Nth(positions, k) \in 1 .. Len(t.segments)
      BY <1>1, NthFacts
    <2>2. t.segments[Nth(positions, k)].id \in Int
      BY <2>1, PositionFacts
    <2> QED
      BY <2>2 DEF Finding
  <1> QED
    BY <1>2, <1>3 DEF AboutEach

\* There are finitely many queries, each of them with a first statement.
LEMMA QueryFacts ==
    ASSUME NEW t \in TraceType
    PROVE  /\ IsFiniteSet(Queries(t)) /\ Queries(t) \in SUBSET Int
           /\ \A q \in Queries(t) : Min(Statements(t, q)) \in 1 .. Len(t.segments)
  <1> DEFINE n == Len(t.segments)
             image == {t.segments[i].query : i \in 1 .. n}
  <1>1. /\ n \in Nat /\ DOMAIN t.segments = 1 .. n
        /\ \A i \in 1 .. n : t.segments[i] \in SegmentType
        /\ IsFiniteSet(1 .. n)
    BY PositionFacts
  <1>2. Queries(t) \subseteq image
    BY <1>1 DEF Queries, ToSet
  <1>3. IsFiniteSet(image)
    <2> DEFINE f == [i \in 1 .. n |-> t.segments[i].query]
    <2>1. f \in Surjection(1 .. n, image)
      BY DEF Surjection
    <2> HIDE DEF f, n, image
    <2> QED
      BY <1>1, <2>1, FS_Surjection
  <1>4. IsFiniteSet(Queries(t))
    <2> HIDE DEF image
    <2> QED
      BY <1>2, <1>3, FS_Subset
  <1>5. \A s \in SegmentType : s.query \in Int \cup {None}
    BY DEF SegmentType
  <1>6. Queries(t) \in SUBSET Int
    BY <1>1, <1>2, <1>5 DEF Queries
  <1>7. ASSUME NEW q \in Queries(t)
        PROVE  Min(Statements(t, q)) \in 1 .. n
    <2>1. Statements(t, q) \subseteq 1 .. n
      BY <1>1 DEF Statements
    <2>2. Statements(t, q) # {}
      BY <1>1 DEF Queries, Statements, IsQuery, ToSet
    <2>3. Statements(t, q) \subseteq Nat
      BY <1>1, <2>1
    <2>4. \E x \in Statements(t, q) : \A y \in Statements(t, q) : x <= y
      BY <2>2, <2>3, HasLeast
    <2>5. Min(Statements(t, q)) \in Statements(t, q)
      BY <2>4 DEF Min
    <2> QED
      BY <2>1, <2>5
  <1> QED
    BY <1>4, <1>6, <1>7

LEMMA AboutFirstFacts ==
    ASSUME NEW t \in TraceType, NEW code \in Codes,
           NEW queries \in SUBSET Queries(t)
    PROVE  AboutFirst(t, code, queries) \in Seq(Finding)
  <1>1. IsFiniteSet(queries) /\ queries \in SUBSET Int
    BY QueryFacts, FS_Subset
  <1>2. Cardinality(queries) \in Nat
    BY <1>1, FS_CardinalityType
  <1>3. ASSUME NEW k \in 1 .. Cardinality(queries)
        PROVE  [code |-> code,
                about |-> t.segments[Min(Statements(t, Nth(queries, k)))].id] \in Finding
    <2>1. Nth(queries, k) \in Queries(t)
      BY <1>1, NthFacts
    <2>2. Min(Statements(t, Nth(queries, k))) \in 1 .. Len(t.segments)
      BY <2>1, QueryFacts
    <2>3. t.segments[Min(Statements(t, Nth(queries, k)))].id \in Int
      BY <2>2, PositionFacts
    <2> QED
      BY <2>3 DEF Finding
  <1> QED
    BY <1>2, <1>3 DEF AboutFirst

\* A list of findings with one that a reference is wrong.
Tells(list) == \E m \in DOMAIN list : list[m].code = "trace_integrity"

LEMMA Joins ==
    ASSUME NEW a \in Seq(Finding), NEW b \in Seq(Finding)
    PROVE  /\ a \o b \in Seq(Finding)
           /\ Tells(a) \/ Tells(b) => Tells(a \o b)
  <1>1. a \o b \in Seq(Finding) /\ Has(a \o b, a) /\ Has(a \o b, b)
    BY Concatenates
  <1> QED
    BY <1>1, Zenon DEF Tells, Has

LEMMA SegmentFindingsFacts ==
    ASSUME NEW t, NEW s \in SegmentType
    PROVE  /\ SegmentFindings(t, s) \in Seq(Finding)
           /\ \/ IsDangling(s.parent, SegmentIds(t))
              \/ IsDangling(s.dependency, DependencyIds(t))
              => Tells(SegmentFindings(t, s))
  <1> DEFINE code == "trace_integrity"
             a == When(s.trace # t.id, code, s.id)
             b == When(IsDangling(s.parent, SegmentIds(t)), code, s.id)
             c == When(IsDangling(s.dependency, DependencyIds(t)), code, s.id)
             d == When(IsMistimed(t, s), code, s.id)
  <1>1. << [code |-> code, about |-> s.id] >> \in Seq(Finding) /\ <<>> \in Seq(Finding)
    BY DEF SegmentType, Finding, Codes
  <1>2. /\ a \in Seq(Finding) /\ b \in Seq(Finding)
        /\ c \in Seq(Finding) /\ d \in Seq(Finding)
    BY <1>1 DEF When
  <1>3. Tells(<< [code |-> code, about |-> s.id] >>)
    BY DEF Tells
  <1>4. /\ IsDangling(s.parent, SegmentIds(t)) => Tells(b)
        /\ IsDangling(s.dependency, DependencyIds(t)) => Tells(c)
    BY <1>3 DEF When
  <1>5. SegmentFindings(t, s) = a \o b \o c \o d
    BY DEF SegmentFindings
  <1> HIDE DEF a, b, c, d
  <1>6. a \o b \in Seq(Finding) /\ (Tells(b) => Tells(a \o b))
    BY <1>2, Joins
  <1>7. /\ a \o b \o c \in Seq(Finding)
        /\ Tells(b) \/ Tells(c) => Tells(a \o b \o c)
    BY <1>2, <1>6, Joins
  <1>8. /\ a \o b \o c \o d \in Seq(Finding)
        /\ Tells(b) \/ Tells(c) => Tells(a \o b \o c \o d)
    BY <1>2, <1>7, Joins
  <1> QED
    BY <1>4, <1>5, <1>8

\* A reference of a dependency names nothing.
IsLost(t, d) ==
    \/ \E id \in {d.parent, d.source} : IsDangling(id, DependencyIds(t))
    \/ \E id \in {d.setup, d.cleanup} : IsDangling(id, SegmentIds(t))

LEMMA DependencyFindingsFacts ==
    ASSUME NEW t, NEW x \in DependencyType
    PROVE  /\ DependencyFindings(t, x) \in Seq(Finding)
           /\ IsLost(t, x) => Tells(DependencyFindings(t, x))
  <1> DEFINE code == "trace_integrity"
             a == When(x.trace # t.id, code, None)
             b == When(IsDangling(x.parent, DependencyIds(t)), code, None)
             c == When(IsDangling(x.source, DependencyIds(t)), code, None)
             d == When(IsDangling(x.setup, SegmentIds(t)), code, None)
             e == When(IsDangling(x.cleanup, SegmentIds(t)), code, None)
  <1>1. << [code |-> code, about |-> None] >> \in Seq(Finding) /\ <<>> \in Seq(Finding)
    BY DEF Finding, Codes
  <1>2. /\ a \in Seq(Finding) /\ b \in Seq(Finding)
        /\ c \in Seq(Finding) /\ d \in Seq(Finding) /\ e \in Seq(Finding)
    BY <1>1 DEF When
  <1>3. Tells(<< [code |-> code, about |-> None] >>)
    BY DEF Tells
  <1>4. IsLost(t, x) => Tells(b) \/ Tells(c) \/ Tells(d) \/ Tells(e)
    BY <1>3 DEF When, IsLost
  <1>5. DependencyFindings(t, x) = a \o b \o c \o d \o e
    BY DEF DependencyFindings
  <1> HIDE DEF a, b, c, d, e
  <1>6. a \o b \in Seq(Finding) /\ (Tells(b) => Tells(a \o b))
    BY <1>2, Joins
  <1>7. /\ a \o b \o c \in Seq(Finding)
        /\ Tells(b) \/ Tells(c) => Tells(a \o b \o c)
    BY <1>2, <1>6, Joins
  <1>8. /\ a \o b \o c \o d \in Seq(Finding)
        /\ Tells(b) \/ Tells(c) \/ Tells(d) => Tells(a \o b \o c \o d)
    BY <1>2, <1>7, Joins
  <1>9. /\ a \o b \o c \o d \o e \in Seq(Finding)
        /\ Tells(b) \/ Tells(c) \/ Tells(d) \/ Tells(e)
             => Tells(a \o b \o c \o d \o e)
    BY <1>2, <1>8, Joins
  <1> QED
    BY <1>4, <1>5, <1>9

LEMMA LifecycleFindingsFacts ==
    ASSUME NEW t
    PROVE  LifecycleFindings(t) \in Seq(Finding)
  <1> DEFINE code  == "trace_integrity"
             start == IF t.start = None THEN t.received ELSE t.start
             body  == IF t.body = None THEN start ELSE t.body
             a == When(t.body # None /\ t.start = None, code, None)
             b == When(t.start # None /\ t.status = None, code, None)
             c == When(t.start # None /\ t.start < t.received, code, None)
             d == When(t.body # None /\ t.body < start, code, None)
             e == When(t.app # None /\ t.app < body, code, None)
  <1>1. << [code |-> code, about |-> None] >> \in Seq(Finding) /\ <<>> \in Seq(Finding)
    BY DEF Finding, Codes
  <1>2. /\ a \in Seq(Finding) /\ b \in Seq(Finding)
        /\ c \in Seq(Finding) /\ d \in Seq(Finding) /\ e \in Seq(Finding)
    <2> HIDE DEF start, body
    <2> QED
      BY <1>1 DEF When
  <1>3. LifecycleFindings(t) = a \o b \o c \o d \o e
    BY DEF LifecycleFindings
  <1> HIDE DEF a, b, c, d, e
  <1>4. a \o b \in Seq(Finding)
    BY <1>2, Joins
  <1>5. a \o b \o c \in Seq(Finding)
    BY <1>2, <1>4, Joins
  <1>6. a \o b \o c \o d \in Seq(Finding)
    BY <1>2, <1>5, Joins
  <1>7. a \o b \o c \o d \o e \in Seq(Finding)
    BY <1>2, <1>6, Joins
  <1> QED
    BY <1>3, <1>7

LEMMA IntegrityFacts ==
    ASSUME NEW t \in TraceType
    PROVE  /\ IntegrityRule(t) \in Seq(Finding)
           /\ IsBroken(t) => Tells(IntegrityRule(t))
  <1> DEFINE ss == t.segments
             ds == t.dependencies
             p  == [i \in DOMAIN ss |-> SegmentFindings(t, ss[i])]
             q  == [i \in DOMAIN ds |-> DependencyFindings(t, ds[i])]
             a  == When(~t.complete, "incomplete_trace", None)
             b  == LifecycleFindings(t)
             c  == FlattenSeq(p)
             d  == FlattenSeq(q)
  <1>1. ss \in Seq(SegmentType) /\ ds \in Seq(DependencyType)
    BY Fields
  <1>2. /\ DOMAIN ss = 1 .. Len(ss) /\ Len(ss) \in Nat
        /\ DOMAIN ds = 1 .. Len(ds) /\ Len(ds) \in Nat
        /\ \A i \in DOMAIN ss : ss[i] \in SegmentType
        /\ \A i \in DOMAIN ds : ds[i] \in DependencyType
    <2> HIDE DEF ss, ds
    <2> QED
      BY <1>1
  <1>3. a \in Seq(Finding)
    <2>1. << [code |-> "incomplete_trace", about |-> None] >> \in Seq(Finding)
      BY DEF Finding, Codes
    <2>2. <<>> \in Seq(Finding)
      OBVIOUS
    <2> QED
      BY <2>1, <2>2 DEF When
  <1>4. b \in Seq(Finding)
    BY LifecycleFindingsFacts
  <1>5. IntegrityRule(t) = a \o b \o c \o d
    BY DEF IntegrityRule
  <1>6. \A i \in DOMAIN ss : /\ SegmentFindings(t, ss[i]) \in Seq(Finding)
                             /\ \/ IsDangling(ss[i].parent, SegmentIds(t))
                                \/ IsDangling(ss[i].dependency, DependencyIds(t))
                                => Tells(SegmentFindings(t, ss[i]))
    <2> HIDE DEF ss
    <2> QED
      BY <1>2, SegmentFindingsFacts
  <1>7. \A i \in DOMAIN ds : /\ DependencyFindings(t, ds[i]) \in Seq(Finding)
                             /\ IsLost(t, ds[i]) => Tells(DependencyFindings(t, ds[i]))
    <2> HIDE DEF ds
    <2> QED
      BY <1>2, DependencyFindingsFacts
  <1>8. IsBroken(t) =>
          \/ \E i \in DOMAIN ss : Tells(SegmentFindings(t, ss[i]))
          \/ \E i \in DOMAIN ds : Tells(DependencyFindings(t, ds[i]))
    BY <1>6, <1>7 DEF IsBroken, IsLost, ToSet
  <1> HIDE DEF ss, ds, a, b
  <1>9. /\ p \in Seq(Seq(Finding)) /\ Len(p) = Len(ss)
        /\ q \in Seq(Seq(Finding)) /\ Len(q) = Len(ds)
    BY <1>2, <1>6, <1>7
  <1>10. Gathers(c, p, Len(p), Finding) /\ Gathers(d, q, Len(q), Finding)
    <2> HIDE DEF p, q
    <2> QED
      BY <1>9, Flattens
  <1>11. /\ (\E i \in DOMAIN ss : Tells(SegmentFindings(t, ss[i]))) => Tells(c)
    <2> SUFFICES ASSUME NEW i \in DOMAIN ss, Tells(SegmentFindings(t, ss[i]))
                 PROVE  Tells(c)
      OBVIOUS
    <2>1. p[i] = SegmentFindings(t, ss[i]) /\ i \in 1 .. Len(p)
      BY <1>2, <1>9
    <2> HIDE DEF p, c
    <2> QED
      BY <1>10, <2>1 DEF Gathers, Has, Tells
  <1>12. /\ (\E i \in DOMAIN ds : Tells(DependencyFindings(t, ds[i]))) => Tells(d)
    <2> SUFFICES ASSUME NEW i \in DOMAIN ds, Tells(DependencyFindings(t, ds[i]))
                 PROVE  Tells(d)
      OBVIOUS
    <2>1. q[i] = DependencyFindings(t, ds[i]) /\ i \in 1 .. Len(q)
      BY <1>2, <1>9
    <2> HIDE DEF q, d
    <2> QED
      BY <1>10, <2>1 DEF Gathers, Has, Tells
  <1>13. c \in Seq(Finding) /\ d \in Seq(Finding)
    BY <1>10 DEF Gathers
  <1> HIDE DEF c, d
  <1>14. a \o b \in Seq(Finding)
    BY <1>3, <1>4, Joins
  <1>15. a \o b \o c \in Seq(Finding) /\ (Tells(c) => Tells(a \o b \o c))
    BY <1>13, <1>14, Joins
  <1>16. /\ a \o b \o c \o d \in Seq(Finding)
         /\ Tells(c) \/ Tells(d) => Tells(a \o b \o c \o d)
    BY <1>13, <1>15, Joins
  <1> QED
    BY <1>5, <1>8, <1>11, <1>12, <1>16

\* The six rules return a list of findings, one of which tells of any reference
\* that names nothing.
LEMMA FindingsFacts ==
    ASSUME NEW t \in TraceType
    PROVE  /\ Findings(t) \in Seq(Finding)
           /\ IsBroken(t) => Tells(Findings(t))
  <1> DEFINE a == IntegrityRule(t)
             b == SlowRequestRule(t)
             c == SlowDependencyRule(t)
             d == RepeatedQueryRule(t)
             e == PossibleNPlusOneRule(t)
             f == ExpensiveSerializationRule(t)
  <1>1. a \in Seq(Finding) /\ (IsBroken(t) => Tells(a))
    BY IntegrityFacts
  <1>2. b \in Seq(Finding)
    <2>1. << [code |-> "slow_request", about |-> None] >> \in Seq(Finding)
      BY DEF Finding, Codes
    <2>2. <<>> \in Seq(Finding)
      OBVIOUS
    <2> QED
      BY <2>1, <2>2 DEF SlowRequestRule, When
  <1>3. c \in Seq(Finding) /\ f \in Seq(Finding)
    <2>1. /\ {i \in DOMAIN t.segments : IsSlowDependency(t, t.segments[i])}
               \in SUBSET (1 .. Len(t.segments))
          /\ {i \in DOMAIN t.segments : IsSlowSerialization(t, t.segments[i])}
               \in SUBSET (1 .. Len(t.segments))
      BY PositionFacts
    <2>2. "slow_dependency" \in Codes /\ "expensive_serialization" \in Codes
      BY DEF Codes
    <2> QED
      BY <2>1, <2>2, AboutEachFacts DEF SlowDependencyRule, ExpensiveSerializationRule
  <1>4. d \in Seq(Finding) /\ e \in Seq(Finding)
    <2> DEFINE A == {x \in Queries(t) : Cardinality(Statements(t, x)) >= RepeatedMinimum}
               B == {x \in Queries(t) : IsNPlusOne(t, Statements(t, x))}
    <2>1. A \in SUBSET Queries(t) /\ B \in SUBSET Queries(t)
      OBVIOUS
    <2>2. "repeated_query" \in Codes /\ "possible_n_plus_one" \in Codes
      BY DEF Codes
    <2>3. /\ d = AboutFirst(t, "repeated_query", A)
          /\ e = AboutFirst(t, "possible_n_plus_one", B)
      BY DEF RepeatedQueryRule, PossibleNPlusOneRule
    <2> HIDE DEF A, B, d, e
    <2> QED
      BY <2>1, <2>2, <2>3, AboutFirstFacts
  <1>5. Findings(t) = a \o b \o c \o d \o e \o f
    BY DEF Findings
  <1> HIDE DEF a, b, c, d, e, f
  <1>6. a \o b \in Seq(Finding) /\ (Tells(a) => Tells(a \o b))
    BY <1>1, <1>2, Joins
  <1>7. a \o b \o c \in Seq(Finding) /\ (Tells(a) => Tells(a \o b \o c))
    BY <1>3, <1>6, Joins
  <1>8. a \o b \o c \o d \in Seq(Finding) /\ (Tells(a) => Tells(a \o b \o c \o d))
    BY <1>4, <1>7, Joins
  <1>9. /\ a \o b \o c \o d \o e \in Seq(Finding)
        /\ Tells(a) => Tells(a \o b \o c \o d \o e)
    BY <1>4, <1>8, Joins
  <1>10. /\ a \o b \o c \o d \o e \o f \in Seq(Finding)
         /\ Tells(a) => Tells(a \o b \o c \o d \o e \o f)
    BY <1>3, <1>9, Joins
  <1> QED
    BY <1>1, <1>5, <1>10

-----------------------------------------------------------------------------
(***************************************************************************)
(* The inductive invariant.  Limited and the marker are what the loop      *)
(* preserves; Progress is why the loop may give up: a round that changed   *)
(* nothing found nothing to remove.                                        *)
(***************************************************************************)
Diagnosed == [given EXCEPT !.findings = @ \o Findings(given)]

Limited(t) ==
    /\ Len(t.segments) <= MaxSegments
    /\ Len(t.dependencies) <= MaxDependencies
    /\ Len(t.findings) <= MaxDiagnostics
    /\ \A i \in 1 .. Len(t.segments) : IsSafe(t.segments[i])

IsBare(t) ==
    /\ t.segments = <<>> /\ t.dependencies = <<>>
    /\ t.findings = <<Marker>>
    /\ t.error = None
    /\ \A f \in Texts : t[f] = None \/ t[f].length <= 1

Rounds == {"loop", "segments", "dependencies", "findings", "rest"}

Ends == {"save", "stored", "refused"}

Types ==
    /\ given \in Traces
    /\ limit \in Limits
    /\ trace \in TraceType
    /\ turn \in {"diagnose", "sanitize"} \cup Rounds \cup Ends
    /\ changed \in BOOLEAN

Untouched ==
    /\ turn = "diagnose" => trace = given
    /\ turn = "sanitize" => trace = Diagnosed

Marking ==
    /\ turn \in Rounds => IsMarked(trace)
    /\ turn \in Ends => IsMarked(trace) \/ trace = Whole

Progress ==
    /\ turn \in {"dependencies", "findings", "rest"} /\ ~changed
         => Len(trace.segments) <= 0
    /\ turn \in {"findings", "rest"} /\ ~changed => Len(trace.dependencies) <= 0
    /\ turn = "rest" /\ ~changed => Len(trace.findings) <= 1

Ending ==
    /\ turn = "save" => Size(trace) <= limit \/ IsBare(trace)
    /\ turn = "refused" => IsBare(trace)

IInv ==
    /\ Types
    /\ Untouched
    /\ turn \in Rounds \cup Ends => Limited(trace)
    /\ Marking
    /\ Progress
    /\ Ending

LEMMA HalfFacts ==
    ASSUME NEW n \in Nat, NEW least \in Nat
    PROVE  Half(n, least) \in Nat /\ Half(n, least) >= least
  BY DEF Half

LEMMA LimitedIsKept ==
    ASSUME NEW t \in TraceType, Limited(t), IsMarked(t), NEW n \in Nat
    PROVE  /\ LET u == [t EXCEPT !.segments = Prefix(t.segments, n)] IN
              u \in TraceType /\ Limited(u) /\ IsMarked(u)
           /\ LET u == [t EXCEPT !.dependencies = Prefix(t.dependencies, n)] IN
              u \in TraceType /\ Limited(u) /\ IsMarked(u)
           /\ n >= 1 =>
                LET u == [t EXCEPT !.findings = Prefix(t.findings, n)] IN
                u \in TraceType /\ Limited(u) /\ IsMarked(u)
  <1>1. /\ t.segments \in Seq(SegmentType)
        /\ t.dependencies \in Seq(DependencyType)
        /\ t.findings \in Seq(Finding)
    BY Fields
  <1>2. /\ MaxSegments \in Nat /\ MaxDependencies \in Nat /\ MaxDiagnostics \in Nat
    BY LimitAssumption
  <1>3. /\ Len(t.segments) \in Nat /\ Len(t.dependencies) \in Nat
        /\ Len(t.findings) \in Nat
    BY <1>1
  <1>4. LET u == [t EXCEPT !.segments = Prefix(t.segments, n)] IN
        u \in TraceType /\ Limited(u) /\ IsMarked(u)
    <2> DEFINE x == Prefix(t.segments, n)
               u == [t EXCEPT !.segments = x]
    <2>1. /\ x \in Seq(SegmentType) /\ Len(x) <= Len(t.segments)
          /\ \A i \in 1 .. Len(x) : x[i] = t.segments[i]
      BY ZenonT(40), <1>1, PrefixFacts
    <2> HIDE DEF x
    <2>2. /\ u \in TraceType /\ u.segments = x
          /\ u.findings = t.findings /\ u.dependencies = t.dependencies
      BY <2>1, ReplaceSegments
    <2>3. Len(x) \in Nat
      BY <2>1
    <2> HIDE DEF u
    <2>4. Limited(u)
      BY <1>2, <1>3, <2>1, <2>2, <2>3 DEF Limited
    <2>5. IsMarked(u)
      BY <2>2 DEF IsMarked
    <2> QED
      BY <2>2, <2>4, <2>5 DEF u, x
  <1>5. LET u == [t EXCEPT !.dependencies = Prefix(t.dependencies, n)] IN
        u \in TraceType /\ Limited(u) /\ IsMarked(u)
    <2> DEFINE x == Prefix(t.dependencies, n)
               u == [t EXCEPT !.dependencies = x]
    <2>1. x \in Seq(DependencyType) /\ Len(x) <= Len(t.dependencies)
      BY <1>1, PrefixFacts
    <2> HIDE DEF x
    <2>2. /\ u \in TraceType /\ u.dependencies = x
          /\ u.findings = t.findings /\ u.segments = t.segments
      BY <2>1, ReplaceDependencies
    <2>3. Len(x) \in Nat
      BY <2>1
    <2> HIDE DEF u
    <2>4. Limited(u)
      BY <1>2, <1>3, <2>1, <2>2, <2>3 DEF Limited
    <2>5. IsMarked(u)
      BY <2>2 DEF IsMarked
    <2> QED
      BY <2>2, <2>4, <2>5 DEF u, x
  <1>6. ASSUME n >= 1
        PROVE  LET u == [t EXCEPT !.findings = Prefix(t.findings, n)] IN
               u \in TraceType /\ Limited(u) /\ IsMarked(u)
    <2> DEFINE x == Prefix(t.findings, n)
               u == [t EXCEPT !.findings = x]
    <2>1. /\ x \in Seq(Finding) /\ Len(x) <= Len(t.findings)
          /\ Len(t.findings) <= n => x = t.findings
          /\ Len(t.findings) > n => Len(x) = n
          /\ \A i \in 1 .. Len(x) : x[i] = t.findings[i]
      BY <1>1, PrefixFacts
    <2> HIDE DEF x
    <2>2. /\ u \in TraceType /\ u.findings = x
          /\ u.dependencies = t.dependencies /\ u.segments = t.segments
      BY <2>1, ReplaceFindings
    <2>3. Len(x) \in Nat
      BY <2>1
    <2>4. t.findings # <<>> /\ t.findings[1] = Marker
      BY DEF IsMarked
    <2>5. Len(t.findings) >= 1
      BY <1>1, <2>4
    <2>6. 1 \in 1 .. Len(x)
      BY <1>3, <1>6, <2>1, <2>3, <2>5
    <2>7. x # <<>> /\ x[1] = Marker
      BY <2>1, <2>4, <2>6
    <2> HIDE DEF u
    <2>8. Limited(u)
      BY <1>2, <1>3, <2>1, <2>2, <2>3 DEF Limited
    <2>9. IsMarked(u)
      BY <2>2, <2>7 DEF IsMarked
    <2> QED
      BY <2>2, <2>8, <2>9 DEF u, x
  <1> QED
    BY <1>4, <1>5, <1>6

LEMMA DiagnosedFacts ==
    ASSUME given \in Traces
    PROVE  /\ given \in TraceType /\ Diagnosed \in TraceType
           /\ ~Truncates(Diagnosed) => Bounded(Diagnosed) = Whole
  <1> DEFINE f == given.findings \o Findings(given)
             s == [i \in DOMAIN given.segments |-> RedactedSegment(given.segments[i])]
  <1>1. given \in TraceType
    BY TracesAssumption
  <1>2. f \in Seq(Finding)
    BY <1>1, FindingsFacts, Fields
  <1>3. Diagnosed = [given EXCEPT !.findings = f]
    BY DEF Diagnosed
  <1>4. Whole = [given EXCEPT !.findings = f, !.segments = s]
    BY DEF Whole
  <1> HIDE DEF f
  <1>5. Diagnosed \in TraceType /\ Diagnosed.segments = given.segments
    BY <1>1, <1>2, <1>3, ReplaceFindings
  <1>6. ~Truncates(Diagnosed) => Bounded(Diagnosed) = [Diagnosed EXCEPT !.segments = s]
    BY <1>5, BoundedFacts
  <1> HIDE DEF s
  <1>7. [Diagnosed EXCEPT !.segments = s] = Whole
    BY <1>1, <1>3, <1>4 DEF TraceType
  <1> QED
    BY <1>1, <1>5, <1>6, <1>7

LEMMA InitHolds == ASSUME Init PROVE IInv
  BY DiagnosedFacts DEF Init, IInv, Types, Untouched, Marking, Progress, Ending,
     Rounds, Ends

LEMMA DiagnoseKeeps == ASSUME IInv, Diagnose PROVE IInv'
  <1>1. /\ given \in Traces /\ trace = given /\ limit \in Limits /\ changed \in BOOLEAN
    BY DEF IInv, Types, Untouched, Diagnose
  <1>2. /\ trace' = Diagnosed /\ turn' = "sanitize"
        /\ given' = given /\ limit' = limit /\ changed' = changed
    BY <1>1 DEF Diagnose, Diagnosed
  <1>3. Diagnosed' = Diagnosed
    BY <1>2 DEF Diagnosed
  <1>4. Diagnosed \in TraceType
    BY <1>1, DiagnosedFacts
  <1> QED
    BY <1>1, <1>2, <1>3, <1>4 DEF IInv, Types, Untouched, Marking, Progress,
       Ending, Rounds, Ends

LEMMA MarkingIsLimited ==
    ASSUME NEW t \in TraceType, Limited(t)
    PROVE  LET u == [t EXCEPT !.findings = Marked(t.findings)] IN
           u \in TraceType /\ Limited(u) /\ IsMarked(u)
  <1> DEFINE x == Marked(t.findings)
             u == [t EXCEPT !.findings = x]
  <1>1. t.findings \in Seq(Finding)
    BY Fields
  <1>2. /\ x \in Seq(Finding) /\ Len(x) <= MaxDiagnostics
        /\ x # <<>> /\ x[1] = Marker
    BY <1>1, MarkedFacts
  <1> HIDE DEF x
  <1>3. /\ u \in TraceType /\ u.findings = x
        /\ u.segments = t.segments /\ u.dependencies = t.dependencies
    BY <1>2, ReplaceFindings
  <1> HIDE DEF u
  <1>4. Limited(u) /\ IsMarked(u)
    BY <1>2, <1>3 DEF Limited, IsMarked
  <1> QED
    BY <1>3, <1>4 DEF u, x

LEMMA SanitizeKeeps == ASSUME IInv, Sanitize PROVE IInv'
  <1> DEFINE bounded == Bounded(trace)
             marked  == IF Truncates(trace)
                        THEN [bounded EXCEPT !.findings = Marked(bounded.findings)]
                        ELSE bounded
             again   == [marked EXCEPT !.findings = Marked(marked.findings)]
  <1>1. /\ given \in Traces /\ limit \in Limits /\ changed \in BOOLEAN
        /\ trace = Diagnosed
    BY DEF IInv, Types, Untouched, Sanitize
  <1>2. trace \in TraceType
    BY <1>1, DiagnosedFacts
  <1>3. /\ given' = given /\ limit' = limit /\ changed' = changed
        /\ Size(marked) > limit => trace' = again /\ turn' = "loop"
        /\ ~(Size(marked) > limit) => trace' = marked /\ turn' = "save"
    BY DEF Sanitize
  <1>4. bounded \in TraceType /\ Limited(bounded)
    BY <1>2, BoundedFacts DEF Limited
  <1>5. ~Truncates(trace) => bounded = Whole
    BY <1>1, DiagnosedFacts
  <1> HIDE DEF bounded
  <1>6. /\ marked \in TraceType /\ Limited(marked)
        /\ IsMarked(marked) \/ marked = Whole
    BY <1>4, <1>5, MarkingIsLimited
  <1> HIDE DEF marked
  <1>7. again \in TraceType /\ Limited(again) /\ IsMarked(again)
    BY <1>6, MarkingIsLimited
  <1>8. Size(marked) \in Int /\ limit \in Int
    BY <1>1, <1>6, SizeIsInt, LimitAssumption
  <1> HIDE DEF again
  <1>9. Whole' = Whole
    BY <1>3 DEF Whole
  <1>10. CASE Size(marked) > limit
    <2>1. trace' = again /\ turn' = "loop"
      BY <1>3, <1>10
    <2> QED
      BY <1>1, <1>3, <1>7, <2>1 DEF IInv, Types, Untouched, Marking, Progress,
         Ending, Rounds, Ends
  <1>11. CASE ~(Size(marked) > limit)
    <2>1. trace' = marked /\ turn' = "save"
      BY <1>3, <1>11
    <2>2. Size(trace') <= limit'
      BY <1>3, <1>8, <1>11, <2>1
    <2>3. Types' /\ Untouched' /\ Progress'
      BY <1>1, <1>3, <1>6, <2>1 DEF Types, Untouched, Progress, Rounds, Ends
    <2>4. Marking' /\ Limited(trace')
      BY <1>6, <1>9, <2>1 DEF Marking, Rounds, Ends
    <2>5. Ending'
      BY <2>1, <2>2 DEF Ending, Size, TextBytes
    <2> QED
      BY <2>3, <2>4, <2>5 DEF IInv
  <1> QED
    BY <1>10, <1>11

\* A step that leaves the trace alone keeps what is said of it.
LEMMA SameTrace ==
    ASSUME UNCHANGED <<given, limit, trace>>
    PROVE  /\ Whole' = Whole
           /\ Limited(trace') <=> Limited(trace)
           /\ IsMarked(trace') <=> IsMarked(trace)
           /\ IsBare(trace') <=> IsBare(trace)
           /\ Size(trace') = Size(trace)
  BY DEF Whole, Limited, IsMarked, IsBare

LEMMA LoopKeeps == ASSUME IInv, Loop PROVE IInv'
  <1>1. /\ turn = "loop" /\ changed' = FALSE
        /\ given' = given /\ limit' = limit /\ trace' = trace
        /\ Size(trace) > limit => turn' = "segments"
        /\ ~(Size(trace) > limit) => turn' = "save"
    BY DEF Loop
  <1>2. /\ given \in Traces /\ limit \in Limits /\ trace \in TraceType
        /\ Limited(trace) /\ IsMarked(trace)
    BY <1>1 DEF IInv, Types, Marking, Rounds
  <1>3. Size(trace) \in Int /\ limit \in Int
    BY <1>2, SizeIsInt, LimitAssumption
  <1>4. /\ Limited(trace') /\ IsMarked(trace') /\ Size(trace') = Size(trace)
        /\ trace' \in TraceType
    BY <1>1, <1>2, SameTrace
  <1>5. \/ turn' = "segments"
        \/ turn' = "save" /\ Size(trace') <= limit'
    <2>1. Size(trace) > limit \/ Size(trace) <= limit
      BY <1>3
    <2>2. ~(Size(trace) > limit) => Size(trace') <= limit'
      BY <1>1, <1>3, <1>4
    <2> QED
      BY <1>1, <2>2
  <1> QED
    BY <1>1, <1>2, <1>4, <1>5 DEF IInv, Types, Untouched, Marking, Progress,
       Ending, Rounds, Ends

\* Where the loop goes after a collection.
LEMMA NextTurnFacts ==
    ASSUME NEW t \in TraceType, limit \in Limits,
           NEW c \in {"segments", "dependencies", "findings"}
    PROVE  /\ AfterCollection(c) \in {"dependencies", "findings", "rest"}
           /\ c = "segments" => AfterCollection(c) = "dependencies"
           /\ c = "dependencies" => AfterCollection(c) = "findings"
           /\ c = "findings" => AfterCollection(c) = "rest"
           /\ \/ NextTurn(c, t) = AfterCollection(c)
              \/ NextTurn(c, t) = "save" /\ Size(t) <= limit
  <1>1. /\ c = "segments" => AfterCollection(c) = "dependencies"
        /\ c = "dependencies" => AfterCollection(c) = "findings"
        /\ c = "findings" => AfterCollection(c) = "rest"
    BY DEF AfterCollection
  <1>2. \/ NextTurn(c, t) = AfterCollection(c)
        \/ NextTurn(c, t) = "save" /\ Size(t) <= limit
    BY DEF NextTurn
  <1> QED
    BY <1>1, <1>2

\* A round that removed something ends with the next collection or a trace
\* that fits.
LEMMA RemovalKeeps ==
    ASSUME given \in Traces, limit \in Limits, trace' \in TraceType,
           Limited(trace'), IsMarked(trace'), changed' = TRUE,
           given' = given, limit' = limit,
           \/ turn' \in {"loop", "dependencies", "findings", "rest"}
           \/ turn' = "save" /\ Size(trace') <= limit
    PROVE  IInv'
  <1>1. turn' = "save" => Size(trace') <= limit'
    OBVIOUS
  <1>2. Types' /\ Untouched' /\ Progress' /\ Marking'
    BY DEF Types, Untouched, Progress, Marking, Rounds, Ends
  <1>3. Ending'
    BY <1>1 DEF Ending
  <1> QED
    BY <1>2, <1>3 DEF IInv

LEMMA HalveKeeps ==
    ASSUME IInv, NEW c \in {"segments", "dependencies", "findings"}, Halve(c)
    PROVE  IInv'
  <1> DEFINE n == Half(Len(trace[c]), Minimum(c))
  <1>1. /\ turn = c /\ changed' = TRUE /\ given' = given /\ limit' = limit
        /\ trace' = [trace EXCEPT ![c] = Prefix(trace[c], n)]
        /\ turn' = NextTurn(c, trace')
    BY DEF Halve
  <1>2. /\ given \in Traces /\ limit \in Limits /\ trace \in TraceType
        /\ Limited(trace) /\ IsMarked(trace)
    BY <1>1 DEF IInv, Types, Marking, Rounds
  <1>3. Len(trace[c]) \in Nat
    BY <1>2, Fields
  <1>4. Minimum(c) \in Nat /\ (c = "findings" => Minimum(c) = 1)
    BY DEF Minimum
  <1>5. n \in Nat /\ n >= Minimum(c)
    BY <1>3, <1>4, HalfFacts
  <1> HIDE DEF n
  <1>6. trace' \in TraceType /\ Limited(trace') /\ IsMarked(trace')
    <2>1. CASE c = "segments"
      BY <1>1, <1>2, <1>5, <2>1, LimitedIsKept
    <2>2. CASE c = "dependencies"
      BY <1>1, <1>2, <1>5, <2>2, LimitedIsKept
    <2>3. CASE c = "findings"
      BY <1>1, <1>2, <1>4, <1>5, <2>3, LimitedIsKept
    <2> QED
      BY <2>1, <2>2, <2>3
  <1>7. \/ turn' \in {"dependencies", "findings", "rest"}
        \/ turn' = "save" /\ Size(trace') <= limit
    BY <1>1, <1>2, <1>6, NextTurnFacts
  <1> QED
    BY <1>1, <1>2, <1>6, <1>7, RemovalKeeps

LEMMA PassKeeps ==
    ASSUME IInv, NEW c \in {"segments", "dependencies", "findings"}, Pass(c)
    PROVE  IInv'
  <1>1. /\ turn = c /\ Len(trace[c]) <= Minimum(c) /\ turn' = AfterCollection(c)
        /\ given' = given /\ limit' = limit /\ trace' = trace /\ changed' = changed
    BY DEF Pass
  <1>2. /\ given \in Traces /\ limit \in Limits /\ trace \in TraceType
        /\ Limited(trace) /\ IsMarked(trace) /\ changed \in BOOLEAN
    BY <1>1 DEF IInv, Types, Marking, Rounds
  <1>3. Progress
    BY DEF IInv
  <1>4. /\ Limited(trace') /\ IsMarked(trace') /\ trace' \in TraceType
    BY <1>1, <1>2, SameTrace
  <1>5. /\ c = "segments" => turn' = "dependencies" /\ Len(trace.segments) <= 0
        /\ c = "dependencies" => turn' = "findings" /\ Len(trace.dependencies) <= 0
        /\ c = "findings" => turn' = "rest" /\ Len(trace.findings) <= 1
    BY <1>1, <1>2, NextTurnFacts DEF Minimum
  <1>6. Progress'
    BY <1>1, <1>3, <1>5 DEF Progress
  <1>7. turn' \in {"dependencies", "findings", "rest"}
    BY <1>5
  <1> QED
    BY <1>1, <1>2, <1>4, <1>6, <1>7 DEF IInv, Types, Untouched, Marking, Ending,
       Rounds, Ends

LEMMA AgainKeeps == ASSUME IInv, Again PROVE IInv'
  <1>1. /\ turn = "rest" /\ turn' = "loop"
        /\ given' = given /\ limit' = limit /\ trace' = trace /\ changed' = changed
    BY DEF Again
  <1>2. /\ given \in Traces /\ limit \in Limits /\ trace \in TraceType
        /\ Limited(trace) /\ IsMarked(trace) /\ changed \in BOOLEAN
    BY <1>1 DEF IInv, Types, Marking, Rounds
  <1>3. Limited(trace') /\ IsMarked(trace') /\ trace' \in TraceType
    BY <1>1, <1>2, SameTrace
  <1> QED
    BY <1>1, <1>2, <1>3 DEF IInv, Types, Untouched, Marking, Progress, Ending,
       Rounds, Ends

LEMMA DropErrorKeeps == ASSUME IInv, DropError PROVE IInv'
  <1>1. /\ turn = "rest" /\ turn' = "loop"
        /\ given' = given /\ limit' = limit /\ changed' = changed
        /\ trace' = [trace EXCEPT !.error = None]
    BY DEF DropError
  <1>2. /\ given \in Traces /\ limit \in Limits /\ trace \in TraceType
        /\ Limited(trace) /\ IsMarked(trace) /\ changed \in BOOLEAN
    BY <1>1 DEF IInv, Types, Marking, Rounds
  <1>3. /\ trace' \in TraceType
        /\ trace'.segments = trace.segments /\ trace'.findings = trace.findings
        /\ trace'.dependencies = trace.dependencies
    BY <1>1, <1>2 DEF TraceType
  <1>4. Limited(trace') /\ IsMarked(trace')
    BY <1>2, <1>3 DEF Limited, IsMarked
  <1> QED
    BY <1>1, <1>2, <1>3, <1>4 DEF IInv, Types, Untouched, Marking, Progress,
       Ending, Rounds, Ends

LEMMA ShortenTextsKeeps == ASSUME IInv, ShortenTexts PROVE IInv'
  <1> DEFINE p == Shortened(trace.path)
             r == Shortened(trace.route)
             m == Shortened(trace.method)
  <1>1. /\ turn = "rest" /\ turn' = "loop"
        /\ given' = given /\ limit' = limit /\ changed' = TRUE
        /\ trace' = [trace EXCEPT !.path = p, !.route = r, !.method = m]
    BY DEF ShortenTexts
  <1>2. /\ given \in Traces /\ limit \in Limits /\ trace \in TraceType
        /\ Limited(trace) /\ IsMarked(trace)
    BY <1>1 DEF IInv, Types, Marking, Rounds
  <1>3. ASSUME NEW text \in Text \cup {None}
        PROVE  Shortened(text) \in Text \cup {None}
    <2>1. CASE CanShorten(text)
      <3>1. text \in Text
        BY <2>1 DEF CanShorten
      <3>2. Half(text.length, 1) \in Nat
        BY <3>1, HalfFacts DEF Text
      <3> QED
        BY <2>1, <3>2, CutFacts DEF Shortened
    <2> QED
      BY <2>1 DEF Shortened
  <1>4. /\ p \in Text \cup {None} /\ r \in Text \cup {None}
        /\ m \in Text \cup {None}
    BY <1>2, <1>3, Fields
  <1> HIDE DEF p, r, m
  <1>5. /\ trace' \in TraceType
        /\ trace'.segments = trace.segments /\ trace'.findings = trace.findings
        /\ trace'.dependencies = trace.dependencies
    BY <1>1, <1>2, <1>4 DEF TraceType
  <1>6. Limited(trace') /\ IsMarked(trace')
    BY <1>2, <1>5 DEF Limited, IsMarked
  <1> QED
    BY <1>1, <1>2, <1>5, <1>6, RemovalKeeps

LEMMA GiveUpKeeps == ASSUME IInv, GiveUp PROVE IInv'
  <1>1. /\ turn = "rest" /\ ~changed /\ turn' = "save" /\ trace.error = None
        /\ given' = given /\ limit' = limit /\ trace' = trace /\ changed' = changed
    BY DEF GiveUp
  <1>2. /\ given \in Traces /\ limit \in Limits /\ trace \in TraceType
        /\ Limited(trace) /\ IsMarked(trace) /\ changed \in BOOLEAN
    BY <1>1 DEF IInv, Types, Marking, Rounds
  <1>3. /\ Len(trace.segments) <= 0 /\ Len(trace.dependencies) <= 0
        /\ Len(trace.findings) <= 1
    BY <1>1 DEF IInv, Progress
  <1>4. trace.segments = <<>> /\ trace.dependencies = <<>>
    BY <1>2, <1>3, Fields
  <1>5. trace.findings = <<Marker>>
    <2>1. trace.findings \in Seq(Finding)
      BY <1>2, Fields
    <2>2. trace.findings # <<>> /\ trace.findings[1] = Marker
      BY <1>2 DEF IsMarked
    <2> DEFINE n == Len(trace.findings)
    <2>3. n \in Nat /\ n # 0 /\ n <= 1
      BY <1>3, <2>1, <2>2
    <2> HIDE DEF n
    <2>4. n = 1
      BY <2>3
    <2> QED
      BY <2>1, <2>2, <2>4 DEF n
  <1>6. \A f \in Texts : trace[f] = None \/ trace[f].length <= 1
    <2>1. \A f \in Texts : ~CanShorten(trace[f])
      BY DEF GiveUp
    <2>2. \A f \in Texts : trace[f] \in Text \cup {None}
      BY <1>2, Fields DEF Texts
    <2> QED
      BY <2>1, <2>2 DEF CanShorten, Text
  <1>7. IsBare(trace)
    BY <1>1, <1>4, <1>5, <1>6 DEF IsBare
  <1>8. Limited(trace') /\ IsMarked(trace') /\ IsBare(trace') /\ trace' \in TraceType
    BY <1>1, <1>2, <1>7, SameTrace
  <1> QED
    BY <1>1, <1>2, <1>8 DEF IInv, Types, Untouched, Marking, Progress, Ending,
       Rounds, Ends

LEMMA SaveKeeps == ASSUME IInv, Save PROVE IInv'
  <1>1. /\ turn = "save"
        /\ given' = given /\ limit' = limit /\ trace' = trace /\ changed' = changed
        /\ Size(trace) > limit => turn' = "refused"
        /\ ~(Size(trace) > limit) => turn' = "stored"
    BY DEF Save
  <1>2. /\ given \in Traces /\ limit \in Limits /\ trace \in TraceType
        /\ Limited(trace) /\ (IsMarked(trace) \/ trace = Whole) /\ changed \in BOOLEAN
        /\ Size(trace) <= limit \/ IsBare(trace)
    BY <1>1 DEF IInv, Types, Marking, Ending, Ends
  <1>3. Size(trace) \in Int /\ limit \in Int
    BY <1>2, SizeIsInt, LimitAssumption
  <1>4. turn' = "stored" \/ (turn' = "refused" /\ IsBare(trace))
    BY <1>1, <1>2, <1>3
  <1>5. /\ Limited(trace') /\ (IsMarked(trace') \/ trace' = Whole')
        /\ trace' \in TraceType /\ (IsBare(trace) => IsBare(trace'))
    BY <1>1, <1>2, SameTrace
  <1>6. Types' /\ Untouched' /\ Marking' /\ Progress'
    BY <1>1, <1>2, <1>4, <1>5 DEF Types, Untouched, Marking, Progress, Rounds, Ends
  <1>7. Ending'
    BY <1>4, <1>5 DEF Ending
  <1> QED
    BY <1>5, <1>6, <1>7 DEF IInv

LEMMA StutterKeeps == ASSUME IInv, UNCHANGED vars PROVE IInv'
  <1>1. /\ given' = given /\ limit' = limit /\ trace' = trace
        /\ turn' = turn /\ changed' = changed
    BY DEF vars
  <1>2. /\ Whole' = Whole
        /\ Limited(trace') <=> Limited(trace)
        /\ IsMarked(trace') <=> IsMarked(trace)
        /\ IsBare(trace') <=> IsBare(trace)
        /\ Size(trace') = Size(trace)
        /\ Diagnosed' = Diagnosed
    BY <1>1, SameTrace DEF Diagnosed
  <1> QED
    BY <1>1, <1>2 DEF IInv, Types, Untouched, Marking, Progress, Ending

LEMMA NextKeeps == ASSUME IInv, [Next]_vars PROVE IInv'
  <1>1. ToSet(Collections) = {"segments", "dependencies", "findings"}
    BY DEF ToSet, Collections
  <1>2. CASE \E c \in ToSet(Collections) : Halve(c) \/ Pass(c)
    BY <1>1, <1>2, HalveKeeps, PassKeeps
  <1> QED
    BY <1>2, DiagnoseKeeps, SanitizeKeeps, LoopKeeps, AgainKeeps, DropErrorKeeps,
       ShortenTextsKeeps, GiveUpKeeps, SaveKeeps, StutterKeeps DEF Next

-----------------------------------------------------------------------------
(* The theorems. *)

LEMMA Invariance == Spec => []IInv
  <1>1. Init => IInv
    BY InitHolds
  <1>2. IInv /\ [Next]_vars => IInv'
    BY NextKeeps
  <1> QED
    BY <1>1, <1>2, PTL DEF Spec

(***************************************************************************)
(* Every variable keeps its type, and the limits on the lists hold from    *)
(* the sanitizer on (redaction.py).                                        *)
(***************************************************************************)
THEOREM FinishingTypes == Spec => []TypeOK
  <1>1. ASSUME IInv PROVE TypeOK
    <2>1. /\ given \in TraceType /\ trace \in TraceType /\ limit \in Limits
          /\ turn \in {"diagnose", "sanitize"} \cup Rounds \cup Ends
          /\ changed \in BOOLEAN
      BY <1>1, TracesAssumption DEF IInv, Types
    <2>2. DOMAIN trace = DOMAIN given
      BY <2>1 DEF TraceType
    <2>3. \A f \in ToSet(trace.findings) : f \in Finding
      BY <2>1, Fields DEF ToSet
    <2>4. turn \in Turns
      BY <2>1 DEF Turns, Rounds, Ends, ToSet, Collections
    <2>5. turn \notin {"diagnose", "sanitize"} => Limited(trace)
      BY <1>1, <2>1 DEF IInv
    <2> QED
      BY <2>1, <2>2, <2>3, <2>4, <2>5 DEF TypeOK, Limited
  <1> QED
    BY <1>1, Invariance, PTL

(***************************************************************************)
(* A trace that the store takes is the one the request left, but for what  *)
(* is redacted, or says first that it was truncated.                       *)
(***************************************************************************)
THEOREM TruncationIsTold == Spec => []LossIsTold
  <1>1. IInv => LossIsTold
    BY DEF IInv, Marking, Ends, LossIsTold
  <1> QED
    BY <1>1, Invariance, PTL

(***************************************************************************)
(* Whatever the attributes and the limits on them, the value that a        *)
(* sensitive key leads to does not reach the store.                        *)
(***************************************************************************)
THEOREM SecretsNeverStored == Spec => []SecretsAreGone
  <1>1. ASSUME IInv PROVE SecretsAreGone
    <2> SUFFICES ASSUME turn \in {"stored", "refused"},
                        NEW s \in ToSet(trace.segments)
                 PROVE  IsSafe(s)
      BY DEF SecretsAreGone, IsSafe
    <2>1. trace \in TraceType /\ Limited(trace)
      BY <1>1 DEF IInv, Types, Rounds, Ends
    <2>2. PICK i \in DOMAIN trace.segments : s = trace.segments[i]
      BY DEF ToSet
    <2>3. DOMAIN trace.segments = 1 .. Len(trace.segments)
      BY <2>1, Fields
    <2> QED
      BY <2>1, <2>2, <2>3 DEF Limited
  <1> QED
    BY <1>1, Invariance, PTL

(***************************************************************************)
(* The loop that shrinks a trace gives up, and the store refuses the       *)
(* trace, only when nothing that can be removed is left of it.             *)
(***************************************************************************)
THEOREM LoopTriesAll == Spec => []RefusedIsBare
  <1>1. IInv => RefusedIsBare
    BY DEF IInv, Ending, IsBare, RefusedIsBare
  <1> QED
    BY <1>1, Invariance, PTL

-----------------------------------------------------------------------------
\* Finished segments of a trace whose clock readings are in order cover no
\* more than the time from the start of the request to the end of the last.
LEMMA CoverIsBounded ==
    ASSUME NEW t \in TraceType, IsTimed(t),
           NEW S \in (SUBSET ToSet(t.segments)) \ {{}}, UnionTime(S) # None
    PROVE  /\ LastEnd(S) \in Int /\ LastEnd(S) <= t.app /\ t.received <= LastEnd(S)
           /\ UnionTime(S) \in Nat /\ UnionTime(S) <= LastEnd(S) - t.received
  <1> DEFINE ends  == {s.end : s \in S}
             rests == {t.app - e : e \in ends}
             last  == LastEnd(S)
  <1>1. /\ t.received \in Int /\ t.app \in Int /\ t.received <= t.app
    BY DEF TraceType, IsTimed
  <1>2. \A s \in S : s \in SegmentType /\ s \in ToSet(t.segments)
    BY Fields DEF ToSet
  <1>3. /\ \A s \in S : s.end # None /\ ~(s.end < s.start)
        /\ UnionTime(S) = Cardinality(Covered(S))
    BY DEF UnionTime
  <1>4. \A s \in S : /\ s.start \in Int /\ s.end \in Int
                     /\ t.received <= s.start /\ s.start <= s.end /\ s.end <= t.app
    BY <1>2, <1>3 DEF SegmentType, IsTimed
  <1>5. ends \subseteq Int /\ ends # {} /\ \A e \in ends : t.received <= e /\ e <= t.app
    <2>1. \A s \in S : t.received <= s.end
      BY <1>1, <1>4
    <2> QED
      BY <1>4, <2>1
  <1>6. \E e \in ends : \A x \in ends : x <= e
    <2> HIDE DEF ends
    <2>1. rests \subseteq Nat /\ rests # {}
      <3>1. \A e \in ends : t.app - e \in Nat
        BY <1>1, <1>5
      <3> QED
        BY <1>5, <3>1
    <2>2. PICK r \in rests : \A x \in rests : r <= x
      BY <2>1, HasLeast
    <2>3. PICK e \in ends : r = t.app - e
      BY <2>2
    <2>4. \A x \in ends : t.app - e <= t.app - x
      BY <2>2, <2>3
    <2> QED
      BY <1>1, <1>5, <2>4
  <1>7. last \in ends /\ \A s \in S : s.end <= last
    <2>1. last = CHOOSE e \in ends : \A s \in S : s.end <= e
      BY DEF LastEnd
    <2>2. \E e \in ends : \A s \in S : s.end <= e
      BY <1>6
    <2> QED
      BY <2>1, <2>2
  <1>8. last \in Int /\ t.received <= last /\ last <= t.app
    BY <1>5, <1>7
  <1> HIDE DEF last, ends
  <1>9. Covered(S) \subseteq t.received .. (last - 1)
    <2>1. ASSUME NEW s \in S, NEW i \in s.start .. (s.end - 1)
          PROVE  i \in t.received .. (last - 1)
      BY <1>1, <1>4, <1>7, <1>8, <2>1
    <2> QED
      BY <2>1 DEF Covered
  <1>10. /\ IsFiniteSet(t.received .. (last - 1))
         /\ Cardinality(t.received .. (last - 1)) = last - t.received
    <2> DEFINE b == last - 1
    <2>1. b \in Int /\ ~(t.received > b + 1) /\ b - t.received + 1 = last - t.received
      BY <1>1, <1>8
    <2> HIDE DEF b
    <2>2. /\ IsFiniteSet(t.received .. b)
          /\ Cardinality(t.received .. b) =
               IF t.received > b THEN 0 ELSE b - t.received + 1
      BY <1>1, <2>1, FS_Interval
    <2>3. t.received > b => b - t.received + 1 = 0
      BY <1>1, <2>1
    <2> QED
      BY <2>1, <2>2, <2>3 DEF b
  <1>11. /\ IsFiniteSet(Covered(S))
         /\ Cardinality(Covered(S)) <= last - t.received
    BY <1>9, <1>10, FS_Subset
  <1>12. Cardinality(Covered(S)) \in Nat
    BY <1>11, FS_CardinalityType
  <1> QED
    BY <1>3, <1>8, <1>11, <1>12 DEF last

(***************************************************************************)
(* The segments that a rule compares with the request are at most 100 % of *)
(* it where work after the response counts; serialization, which is        *)
(* compared with the response alone, exceeds it only if it ended after the *)
(* body (_duration_denominator, _union_duration_ms and the rules of        *)
(* rules.py).                                                              *)
(***************************************************************************)
THEOREM SharesAreShares == Spec => []ShareWithinWhole
  <1>1. ASSUME IInv, IsTimed(given),
               NEW S \in (SUBSET ToSet(given.segments)) \ {{}},
               UnionTime(S) # None,
               Denominator(given, TRUE, LastEnd(S)) # None
        PROVE  UnionTime(S) <= Denominator(given, TRUE, LastEnd(S))
    <2> DEFINE e     == LastEnd(S)
               time  == UnionTime(S)
               whole == Denominator(given, TRUE, e)
    <2>1. given \in TraceType
      BY <1>1, TracesAssumption DEF IInv, Types
    <2>2. /\ e \in Int /\ e <= given.app /\ given.received <= e
          /\ time \in Nat /\ time <= e - given.received
      BY <1>1, <2>1, CoverIsBounded
    <2>3. /\ given.received \in Int /\ given.app \in Int /\ given.app # None
          /\ given.body \in Int \cup {None}
          /\ given.body # None => given.received <= given.body /\ given.body <= given.app
      BY <1>1, <2>1 DEF TraceType, IsTimed
    <2>4. e # None
      BY <2>2, ThresholdAssumption
    <2> HIDE DEF e, time
    <2>5. \/ whole = given.app - given.received
          \/ /\ whole = given.body - given.received
             /\ given.body # None /\ given.body > given.received
             /\ ~(given.app > given.received /\ e > given.body)
          \/ whole = None
      BY <2>3, <2>4 DEF Denominator
    <2> HIDE DEF whole
    <2>6. CASE whole = given.app - given.received
      <3>1. time <= whole
        BY <2>2, <2>3, <2>6
      <3> QED
        BY <3>1 DEF e, time, whole
    <2>7. CASE /\ whole = given.body - given.received
               /\ given.body # None /\ given.body > given.received
               /\ ~(given.app > given.received /\ e > given.body)
      <3>1. given.body \in Int /\ given.app > given.received /\ e <= given.body
        BY <2>2, <2>3, <2>7
      <3>2. time <= whole
        BY <2>2, <2>3, <2>7, <3>1
      <3> QED
        BY <3>2 DEF e, time, whole
    <2> QED
      BY <1>1, <2>5, <2>6, <2>7 DEF e, whole
  <1>2. ASSUME IInv, IsTimed(given),
               NEW s \in ToSet(given.segments),
               s.end # None,
               Denominator(given, FALSE, None) # None,
               s.end - s.start > Denominator(given, FALSE, None)
        PROVE  s.end > given.body
    <2>1. given \in TraceType
      BY <1>2, TracesAssumption DEF IInv, Types
    <2>2. /\ given.received \in Int
          /\ given.body \in Int \cup {None}
      BY <1>2, <2>1 DEF TraceType, IsTimed
    <2>3. /\ given.body \in Int
          /\ Denominator(given, FALSE, None) = given.body - given.received
      BY <1>2, <2>2 DEF Denominator
    <2>4. s \in SegmentType
      BY <1>2, <2>1, Fields DEF ToSet
    <2>5. /\ s.start \in Int /\ s.end \in Int
          /\ given.received <= s.start
      BY <1>2, <2>4 DEF SegmentType, IsTimed
    <2>6. s.end - s.start > given.body - given.received
      BY <1>2, <2>3
    <2> QED
      BY <2>2, <2>3, <2>5, <2>6
  <1>3. ASSUME IInv PROVE ShareWithinWhole
    <2>1. ASSUME IsTimed(given),
                 NEW S \in (SUBSET ToSet(given.segments)) \ {{}},
                 UnionTime(S) # None,
                 Denominator(given, TRUE, LastEnd(S)) # None
          PROVE  UnionTime(S) <= Denominator(given, TRUE, LastEnd(S))
      BY <1>1, <1>3, <2>1
    <2>2. ASSUME IsTimed(given),
                 NEW s \in ToSet(given.segments),
                 s.end # None,
                 Denominator(given, FALSE, None) # None,
                 s.end - s.start > Denominator(given, FALSE, None)
          PROVE  s.end > given.body
      BY <1>2, <1>3, <2>2
    <2> QED
      BY <2>1, <2>2 DEF ShareWithinWhole
  <1> QED
    BY <1>3, Invariance, PTL

-----------------------------------------------------------------------------
(* What is stored of the segments is a beginning of the list that the      *)
(* request left, as far as their references go.                            *)

Shortens(list, all) ==
    /\ Len(list) <= Len(all)
    /\ \A i \in 1 .. Len(list) :
         list[i].id = all[i].id /\ list[i].parent = all[i].parent

LEMMA PrefixShortens ==
    ASSUME NEW list \in Seq(SegmentType), NEW n \in Nat
    PROVE  Shortens(Prefix(list, n), list)
  BY PrefixFacts DEF Shortens

LEMMA BoundedShortens ==
    ASSUME NEW t \in TraceType
    PROVE  Shortens(Bounded(t).segments, t.segments)
  <1> DEFINE ss == Prefix(t.segments, MaxSegments)
             s  == [i \in DOMAIN ss |-> SafeSegment(ss[i])]
  <1>1. MaxSegments \in Nat /\ t.segments \in Seq(SegmentType)
    BY LimitAssumption, Fields
  <1>2. ss \in Seq(SegmentType) /\ Shortens(ss, t.segments)
    BY <1>1, PrefixFacts, PrefixShortens
  <1>3. Bounded(t).segments = s
    BY DEF Bounded, TraceType
  <1> HIDE DEF ss
  <1>4. Len(s) = Len(ss) /\ DOMAIN ss = 1 .. Len(ss) /\ Len(ss) \in Nat
    BY <1>2
  <1>5. \A x \in SegmentType : SafeSegment(x).id = x.id /\ SafeSegment(x).parent = x.parent
    BY DEF SafeSegment, SegmentType
  <1>6. \A i \in 1 .. Len(ss) : s[i].id = ss[i].id /\ s[i].parent = ss[i].parent
    BY <1>2, <1>4, <1>5
  <1> HIDE DEF s
  <1> QED
    BY <1>2, <1>3, <1>4, <1>6 DEF Shortens

LEMMA ShortensTransitive ==
    ASSUME NEW a \in Seq(SegmentType), NEW b \in Seq(SegmentType),
           NEW c \in Seq(SegmentType), Shortens(a, b), Shortens(b, c)
    PROVE  Shortens(a, c)
  BY DEF Shortens

\* Every step shortens the list or leaves it.
LEMMA StepShortens ==
    ASSUME IInv, [Next]_vars
    PROVE  Shortens(trace'.segments, trace.segments) /\ given' = given
  <1>1. trace \in TraceType /\ trace.segments \in Seq(SegmentType)
    BY Fields DEF IInv, Types
  <1>2. Shortens(trace.segments, trace.segments)
    BY <1>1 DEF Shortens
  <1>3. CASE Diagnose
    <2>1. trace'.segments = trace.segments
      BY <1>1, <1>3 DEF Diagnose, TraceType
    <2> QED
      BY <1>2, <1>3, <2>1 DEF Diagnose
  <1>4. CASE Sanitize
    <2> DEFINE bounded == Bounded(trace)
               marked  == IF Truncates(trace)
                          THEN [bounded EXCEPT !.findings = Marked(bounded.findings)]
                          ELSE bounded
               again   == [marked EXCEPT !.findings = Marked(marked.findings)]
    <2>1. trace' = again \/ trace' = marked
      BY <1>4 DEF Sanitize
    <2>2. bounded \in TraceType /\ Shortens(bounded.segments, trace.segments)
      BY <1>1, BoundedFacts, BoundedShortens
    <2> HIDE DEF bounded
    <2>3. /\ marked.segments = bounded.segments
          /\ again.segments = bounded.segments
      <3>1. Marked(bounded.findings) \in Seq(Finding)
        BY <2>2, Fields, MarkedFacts
      <3>2. marked \in TraceType /\ marked.segments = bounded.segments
        BY <2>2, <3>1, ReplaceFindings
      <3> HIDE DEF marked
      <3>3. Marked(marked.findings) \in Seq(Finding)
        BY <3>2, Fields, MarkedFacts
      <3> QED
        BY <3>2, <3>3, ReplaceFindings
    <2> HIDE DEF marked, again
    <2> QED
      BY <1>4, <2>1, <2>2, <2>3 DEF Sanitize
  <1>5. ASSUME NEW c \in ToSet(Collections), Halve(c)
        PROVE  Shortens(trace'.segments, trace.segments) /\ given' = given
    <2> DEFINE n == Half(Len(trace[c]), Minimum(c))
    <2>1. c \in {"segments", "dependencies", "findings"}
      BY DEF ToSet, Collections
    <2>2. given' = given /\ trace' = [trace EXCEPT ![c] = Prefix(trace[c], n)]
      BY <1>5 DEF Halve
    <2>3. n \in Nat
      <3>1. Len(trace[c]) \in Nat
        BY <1>1, <2>1, Fields
      <3>2. Minimum(c) \in Nat
        BY DEF Minimum
      <3> QED
        BY <3>1, <3>2, HalfFacts
    <2> HIDE DEF n
    <2>4. CASE c = "segments"
      <3>1. trace'.segments = Prefix(trace.segments, n)
        BY <1>1, <2>2, <2>4 DEF TraceType
      <3> QED
        BY <1>1, <2>2, <2>3, <3>1, PrefixShortens
    <2>5. CASE c # "segments"
      <3>1. trace'.segments = trace.segments
        BY <1>1, <2>1, <2>2, <2>5 DEF TraceType
      <3> QED
        BY <1>2, <2>2, <3>1
    <2> QED
      BY <2>4, <2>5
  <1>6. CASE DropError \/ ShortenTexts
    <2>1. trace'.segments = trace.segments /\ given' = given
      BY <1>1, <1>6 DEF DropError, ShortenTexts, TraceType
    <2> QED
      BY <1>2, <2>1
  <1>7. CASE UNCHANGED <<given, trace>>
    BY <1>2, <1>7
  <1> QED
    BY <1>3, <1>4, <1>5, <1>6, <1>7
       DEF Next, Loop, Pass, Again, GiveUp, Save, vars

TreeInv == IInv /\ Shortens(trace.segments, given.segments)

\* An unmarked trace has the references and the findings of the given one.
LEMMA WholeTells ==
    ASSUME given \in Traces, IsBroken(Whole)
    PROVE  Tells(Whole.findings)
  <1> DEFINE f == given.findings \o Findings(given)
             s == [i \in DOMAIN given.segments |-> RedactedSegment(given.segments[i])]
  <1>1. given \in TraceType
    BY TracesAssumption
  <1>2. /\ given.segments \in Seq(SegmentType)
        /\ given.dependencies \in Seq(DependencyType)
        /\ given.findings \in Seq(Finding)
    BY <1>1, Fields
  <1>3. Whole = [given EXCEPT !.findings = f, !.segments = s]
    BY DEF Whole
  <1> HIDE DEF f, s
  <1>4. /\ Whole.findings = f /\ Whole.segments = s
        /\ Whole.dependencies = given.dependencies
    BY <1>1, <1>3 DEF TraceType
  <1>5. /\ DOMAIN s = DOMAIN given.segments
        /\ \A i \in DOMAIN s : /\ s[i].id = given.segments[i].id
                               /\ s[i].parent = given.segments[i].parent
                               /\ s[i].dependency = given.segments[i].dependency
    <2>1. \A x \in SegmentType : /\ RedactedSegment(x).id = x.id
                                 /\ RedactedSegment(x).parent = x.parent
                                 /\ RedactedSegment(x).dependency = x.dependency
      BY DEF RedactedSegment, SegmentType
    <2>2. \A i \in DOMAIN given.segments : given.segments[i] \in SegmentType
      BY <1>2
    <2> QED
      BY <2>1, <2>2 DEF s
  <1>6. SegmentIds(Whole) = SegmentIds(given)
    BY <1>4, <1>5 DEF SegmentIds, ToSet
  <1>7. DependencyIds(Whole) = DependencyIds(given)
    BY <1>4 DEF DependencyIds
  <1>8. IsBroken(given)
    BY <1>4, <1>5, <1>6, <1>7 DEF IsBroken, ToSet
  <1>9. Findings(given) \in Seq(Finding) /\ Tells(Findings(given))
    BY <1>1, <1>8, FindingsFacts
  <1>10. Tells(f)
    BY <1>2, <1>9, Joins DEF f
  <1> QED
    BY <1>4, <1>10

(***************************************************************************)
(* The tree that is stored can be read: a cut never leaves a segment       *)
(* without its parent, and a reference to nothing is explained, either by  *)
(* a finding of IntegrityRule or by the marker of the sanitizer.           *)
(***************************************************************************)
THEOREM TreesAreExplained == Spec => []TreeIsExplained
  <1>1. Init => TreeInv
    <2> SUFFICES ASSUME Init PROVE TreeInv
      OBVIOUS
    <2>1. given \in TraceType /\ trace = given
      BY TracesAssumption DEF Init
    <2>2. Shortens(given.segments, given.segments)
      BY <2>1, Fields DEF Shortens
    <2> QED
      BY <2>1, <2>2, InitHolds DEF TreeInv
  <1>2. TreeInv /\ [Next]_vars => TreeInv'
    <2> SUFFICES ASSUME TreeInv, [Next]_vars PROVE TreeInv'
      OBVIOUS
    <2>1. IInv'
      BY NextKeeps DEF TreeInv
    <2>2. Shortens(trace'.segments, trace.segments) /\ given' = given
      BY StepShortens DEF TreeInv
    <2>3. /\ trace.segments \in Seq(SegmentType)
          /\ trace'.segments \in Seq(SegmentType)
          /\ given.segments \in Seq(SegmentType)
      <3>1. trace \in TraceType /\ trace' \in TraceType /\ given \in TraceType
        BY <2>1, TracesAssumption DEF TreeInv, IInv, Types
      <3> QED
        BY <3>1, Fields
    <2>4. Shortens(trace'.segments, given.segments)
      BY <2>2, <2>3, ShortensTransitive DEF TreeInv
    <2> QED
      BY <2>1, <2>2, <2>4 DEF TreeInv
  <1>3. ASSUME TreeInv PROVE TreeIsExplained
    <2>1. given \in Traces /\ trace \in TraceType /\ given \in TraceType
      BY <1>3, TracesAssumption DEF TreeInv, IInv, Types
    <2>2. ASSUME InOrder(given.segments) PROVE InOrder(trace.segments)
      <3>1. /\ trace.segments \in Seq(SegmentType)
            /\ given.segments \in Seq(SegmentType)
        BY <2>1, Fields
      <3>2. Shortens(trace.segments, given.segments)
        BY <1>3 DEF TreeInv
      <3> DEFINE l == trace.segments
                 w == given.segments
      <3>3. /\ Len(l) \in Nat /\ Len(w) \in Nat /\ Len(l) <= Len(w)
            /\ DOMAIN l = 1 .. Len(l) /\ DOMAIN w = 1 .. Len(w)
            /\ \A i \in 1 .. Len(l) : l[i].id = w[i].id /\ l[i].parent = w[i].parent
        BY <3>1, <3>2 DEF Shortens
      <3> HIDE DEF l, w
      <3>4. ASSUME NEW i \in DOMAIN l, l[i].parent # None
            PROVE  \E j \in 1 .. (i - 1) : l[j].id = l[i].parent
        <4>1. i \in DOMAIN w /\ w[i].parent = l[i].parent
          BY <3>3
        <4>2. PICK j \in 1 .. (i - 1) : w[j].id = w[i].parent
          BY <2>2, <3>4, <4>1 DEF InOrder, w
        <4>3. j \in 1 .. Len(l)
          BY <3>3
        <4> QED
          BY <3>3, <4>1, <4>2, <4>3
      <3> QED
        BY <3>4 DEF InOrder, l
    <2>3. ASSUME turn = "stored", IsBroken(trace), ~IsMarked(trace)
          PROVE  \E f \in ToSet(trace.findings) : f.code = "trace_integrity"
      <3>1. trace = Whole
        BY <1>3, <2>3 DEF TreeInv, IInv, Marking, Ends
      <3>2. Tells(trace.findings)
        BY <2>1, <2>3, <3>1, WholeTells
      <3> QED
        BY <3>2 DEF Tells, ToSet
    <2> QED
      BY <2>2, <2>3 DEF TreeIsExplained
  <1> QED
    BY <1>1, <1>2, <1>3, PTL DEF Spec
=============================================================================
