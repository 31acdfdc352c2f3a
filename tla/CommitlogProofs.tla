-------------------------- MODULE CommitlogProofs ---------------------------
(***************************************************************************)
(* What holds of every life of a commit log, for all messages, segment     *)
(* sizes and retentions, as long as it appends fewer messages than a u16   *)
(* counts.  First the chain of segments and the offsets; then what its     *)
(* files and its memory hold: index entries that describe the accepted     *)
(* messages, a cleaner that removes enough and no more, reads that find    *)
(* every retained offset and never change.                                 *)
(***************************************************************************)
EXTENDS Commitlog, SequenceTheorems, FiniteSetTheorems, WellFoundedInduction, TLAPS

\* A wrapped sum is an offset.
LEMMA WrapsInto == ASSUME NEW n \in Nat PROVE U16(n) \in Offset
  BY SegmentsAssumption DEF U16, Offset

\* Sums that are offsets do not wrap.
LEMMA WrapsNot == ASSUME NEW n \in Offset PROVE U16(n) = n
  BY SegmentsAssumption DEF U16, Offset

\* The offsets of a segment are numbers.
LEMMA SegmentNats ==
  ASSUME NEW s \in Segment
  PROVE  s.start \in Nat /\ s.next \in Nat /\ s.start \in Offset /\ s.next \in Offset
  BY SegmentsAssumption DEF Segment, Offset

\* The cleaner never removes more segments than there are.
LEMMA ExcessBounded ==
  ASSUME NEW S, NEW segs \in Seq(S)
  PROVE  Excess(segs) \in 0 .. Len(segs)
<1> DEFINE E == {i \in DOMAIN segs : NewerBytes(segs, i) > RetentionBytes}
<1>1. IsFiniteSet(1 .. Len(segs)) /\ Cardinality(1 .. Len(segs)) = Len(segs)
  BY FS_Interval, Len(segs) \in Nat
<1>2. E \subseteq 1 .. Len(segs)
  OBVIOUS
<1>3. IsFiniteSet(E) /\ Cardinality(E) <= Len(segs)
  BY <1>1, <1>2, FS_Subset
<1>4. Cardinality(E) \in Nat
  BY <1>3, FS_CardinalityType
<1> QED BY <1>3, <1>4 DEF Excess

-----------------------------------------------------------------------------
(* The chain of segments, as a property of any sequence of them.            *)

Chain(segs, end) ==
  /\ \A i \in DOMAIN segs :
       /\ segs[i].start < segs[i].next
       /\ segs[i].next = IF i < Len(segs) THEN segs[i + 1].start ELSE end
       /\ Len(segs[i].entries) = segs[i].next - segs[i].start
       /\ segs[i].next <= end
  /\ \A i, j \in DOMAIN segs : i < j => segs[i].next <= segs[j].start

Mirror(segs, files) ==
  /\ {segs[i].start : i \in DOMAIN segs} = Pairs(files)
  /\ \A i \in DOMAIN segs : segs[i] = LoadSegment(files, segs[i].start)
  /\ Orphans(files) = {}

\* What SubSeq(s, n + 1, Len(s)) is, element by element.
LEMMA Suffix ==
  ASSUME NEW S, NEW s \in Seq(S), NEW n \in 0 .. Len(s)
  PROVE  LET t == SubSeq(s, n + 1, Len(s))
         IN /\ t \in Seq(S)
            /\ Len(t) = Len(s) - n
            /\ \A i \in 1 .. Len(s) - n : t[i] = s[n + i]
  OBVIOUS

\* Removing the oldest segments leaves a chain.
LEMMA ChainSuffix ==
  ASSUME NEW segs \in Seq(Segment), NEW end \in Nat, Chain(segs, end),
         NEW n \in 0 .. Len(segs)
  PROVE  Chain(SubSeq(segs, n + 1, Len(segs)), end)
<1> DEFINE t == SubSeq(segs, n + 1, Len(segs))
<1>1. /\ t \in Seq(Segment)
      /\ Len(t) = Len(segs) - n
      /\ \A i \in 1 .. Len(segs) - n : t[i] = segs[n + i]
  BY Suffix
<1> HIDE DEF t
<1>2. \A i \in DOMAIN t : n + i \in DOMAIN segs /\ t[i] = segs[n + i]
  BY <1>1
<1>3. ASSUME NEW i \in DOMAIN t
      PROVE  t[i].next = IF i < Len(t) THEN t[i + 1].start ELSE end
  <2>1. n + i \in DOMAIN segs /\ t[i] = segs[n + i] /\ (i < Len(t) <=> n + i < Len(segs))
    BY <1>1
  <2>2. ASSUME i < Len(t) PROVE t[i + 1] = segs[(n + i) + 1]
    <3>1. i + 1 \in 1 .. Len(segs) - n /\ n + (i + 1) = (n + i) + 1
      BY <1>1, <2>2
    <3>2. t[i + 1] = segs[n + (i + 1)]
      BY <3>1, <1>1 DEF t
    <3> QED BY <3>1, <3>2
  <2>3. segs[n + i].next = IF n + i < Len(segs) THEN segs[(n + i) + 1].start ELSE end
    BY <2>1 DEF Chain
  <2> QED BY <2>1, <2>2, <2>3
<1>4. ASSUME NEW i \in DOMAIN t, NEW j \in DOMAIN t, i < j
      PROVE  t[i].next <= t[j].start
  <2>1. n + i < n + j
    BY <1>1, <1>4
  <2> QED BY <2>1, <1>2 DEF Chain
<1> QED BY <1>2, <1>3, <1>4 DEF Chain, t

\* A segment that starts where the chain ends extends it.
LEMMA ChainExtended ==
  ASSUME NEW segs \in Seq(Segment), NEW s \in Segment, NEW end \in Nat,
         Chain(segs, s.start), s.start < s.next, s.next = end,
         Len(s.entries) = s.next - s.start
  PROVE  Chain(Append(segs, s), end)
<1> DEFINE t == Append(segs, s)
<1>1. /\ t \in Seq(Segment) /\ Len(t) = Len(segs) + 1
      /\ \A i \in 1 .. Len(segs) : t[i] = segs[i]
      /\ t[Len(segs) + 1] = s
  BY AppendProperties
<1>2. s.start \in Nat /\ s.next \in Nat
  BY SegmentNats
<1>3. ASSUME NEW i \in DOMAIN segs
      PROVE  /\ segs[i].start < segs[i].next
             /\ segs[i].next <= s.start
             /\ segs[i].next = IF i < Len(segs) THEN segs[i + 1].start ELSE s.start
             /\ Len(segs[i].entries) = segs[i].next - segs[i].start
             /\ segs[i].next \in Nat
  <2>1. segs[i] \in Segment
    OBVIOUS
  <2> QED BY <2>1, SegmentNats DEF Chain
<1>4. ASSUME NEW i \in DOMAIN t
      PROVE  /\ t[i].start < t[i].next
             /\ t[i].next = IF i < Len(t) THEN t[i + 1].start ELSE end
             /\ Len(t[i].entries) = t[i].next - t[i].start
             /\ t[i].next <= end
  <2>1. CASE i = Len(segs) + 1
    BY <2>1, <1>1, <1>2
  <2>2. CASE i \in DOMAIN segs
    <3>1. t[i + 1] = IF i < Len(segs) THEN segs[i + 1] ELSE s
      BY <2>2, <1>1
    <3> QED BY <2>2, <3>1, <1>1, <1>2, <1>3
  <2> QED BY <2>1, <2>2, <1>1
<1>5. ASSUME NEW i \in DOMAIN t, NEW j \in DOMAIN t, i < j
      PROVE  t[i].next <= t[j].start
  <2>1. i \in DOMAIN segs /\ t[i] = segs[i]
    BY <1>1, <1>5
  <2>2. CASE j = Len(segs) + 1
    BY <2>1, <2>2, <1>1, <1>3
  <2>3. CASE j \in DOMAIN segs
    BY <2>1, <2>3, <1>1, <1>5 DEF Chain
  <2> QED BY <2>2, <2>3, <1>1
<1> QED BY <1>4, <1>5 DEF Chain

\* The starting offsets of a chain increase, up to where it ends.
LEMMA ChainStarts ==
  ASSUME NEW segs \in Seq(Segment), NEW end \in Nat, Chain(segs, end)
  PROVE  /\ \A i \in DOMAIN segs : segs[i].start \in Offset /\ segs[i].start < end
         /\ \A i, j \in DOMAIN segs : i < j => segs[i].start < segs[j].start
<1>1. ASSUME NEW i \in DOMAIN segs
      PROVE  /\ segs[i].start \in Offset /\ segs[i].start \in Nat
             /\ segs[i].next \in Nat
             /\ segs[i].start < segs[i].next /\ segs[i].next <= end
  <2>1. segs[i] \in Segment
    OBVIOUS
  <2> QED BY <2>1, SegmentNats DEF Chain
<1>2. ASSUME NEW i \in DOMAIN segs, NEW j \in DOMAIN segs, i < j
      PROVE  segs[i].start < segs[j].start
  <2>1. segs[i].next <= segs[j].start
    BY <1>2 DEF Chain
  <2> QED BY <2>1, <1>1
<1>3. \A i \in DOMAIN segs : segs[i].start \in Offset /\ segs[i].start < end
  BY <1>1
<1> QED BY <1>2, <1>3

\* The starting offsets of the n oldest segments.
Oldest(segs, n) == {segs[i].start : i \in 1 .. n}

\* The segments after them.
Newest(segs, n) == SubSeq(segs, n + 1, Len(segs))

\* Removing the oldest segments with their files leaves memory and directory alike.
LEMMA MirrorSuffix ==
  ASSUME NEW segs \in Seq(Segment), NEW end \in Nat, NEW files \in [Offset -> Files],
         Chain(segs, end), Mirror(segs, files), NEW n \in 0 .. Len(segs)
  PROVE  LET t == Newest(segs, n)
             d == Delete(files, Oldest(segs, n))
         IN /\ Mirror(t, d)
            /\ t \in Seq(Segment)
            /\ Chain(t, end)
            /\ d \in [Offset -> Files]
<1> DEFINE t == SubSeq(segs, n + 1, Len(segs))
           gone == {segs[i].start : i \in 1 .. n}
           d == [o \in Offset |-> IF o \in gone THEN Missing ELSE files[o]]
<1>1. n \in 0 .. Len(segs)
  OBVIOUS
<1>2. /\ t \in Seq(Segment)
      /\ Len(t) = Len(segs) - n
      /\ \A i \in 1 .. Len(segs) - n : t[i] = segs[n + i]
  BY <1>1, Suffix
<1>3. Chain(t, end)
  BY <1>1, ChainSuffix
<1> HIDE DEF t
<1>4. Missing \in Files /\ Missing.log = NoFile
  BY DEF Missing, Files
<1>5. d \in [Offset -> Files]
  BY <1>4
<1>6. ASSUME NEW i \in DOMAIN t
      PROVE  /\ n + i \in DOMAIN segs /\ t[i] = segs[n + i]
             /\ segs[n + i].start \notin gone
  <2>1. n + i \in DOMAIN segs /\ t[i] = segs[n + i]
    BY <1>1, <1>2
  <2>2. ASSUME NEW k \in 1 .. n
        PROVE  segs[k].start # segs[n + i].start
    <3>1. k \in DOMAIN segs /\ k < n + i
      BY <1>1, <1>2
    <3>2. segs[k].start < segs[n + i].start /\ segs[k].start \in Offset
      BY <2>1, <3>1, ChainStarts
    <3> QED BY <3>2, SegmentsAssumption DEF Offset
  <2> QED BY <2>1, <2>2
<1>7. Pairs(d) = Pairs(files) \ gone
  BY <1>4 DEF Pairs
<1>8. {t[i].start : i \in DOMAIN t} = Pairs(files) \ gone
  <2>1. ASSUME NEW i \in DOMAIN segs, segs[i].start \notin gone
        PROVE  \E j \in DOMAIN t : t[j].start = segs[i].start
    <3>1. i \in DOMAIN segs /\ ~(i <= n)
      BY <1>1, <2>1
    <3>2. i - n \in 1 .. Len(segs) - n /\ n + (i - n) = i
      BY <1>1, <3>1
    <3>3. t[i - n] = segs[n + (i - n)]
      BY <1>2, <3>2
    <3>4. i - n \in DOMAIN t /\ t[i - n] = segs[i]
      BY <1>2, <3>2, <3>3
    <3> QED BY <3>4
  <2>2. \A o \in Pairs(files) : \E i \in DOMAIN segs : segs[i].start = o
    BY DEF Mirror
  <2>3. \A i \in DOMAIN t : t[i].start \in Pairs(files) \ gone
    BY <1>6 DEF Mirror
  <2> QED BY <2>1, <2>2, <2>3
<1>9. \A i \in DOMAIN t : t[i] = LoadSegment(d, t[i].start)
  <2>1. ASSUME NEW i \in DOMAIN t
        PROVE  t[i] = LoadSegment(d, t[i].start)
    <3>1. t[i].start \in Offset /\ t[i].start \notin gone
      BY <1>6, ChainStarts
    <3>2. d[t[i].start] = files[t[i].start]
      BY <3>1
    <3>3. t[i] = LoadSegment(files, t[i].start)
      BY <1>6 DEF Mirror
    <3> QED BY <3>2, <3>3 DEF LoadSegment
  <2> QED BY <2>1
<1>10. Orphans(d) = {}
  <2>1. \A o \in Offset : files[o] # Missing => o \in Pairs(files)
    BY DEF Mirror, Orphans
  <2> QED BY <2>1, <1>7 DEF Orphans
<1>11. Mirror(t, d)
  BY <1>7, <1>8, <1>9, <1>10 DEF Mirror
<1> QED BY <1>2, <1>3, <1>5, <1>11 DEF Delete, Oldest, Newest, t

-----------------------------------------------------------------------------
(* The sums of bytes that the cleaner compares are folds; what they are is  *)
(* shown by hand, from the least number where it would fail.                *)

\* Every set of numbers that is not empty has a least element.
LEMMA LeastNat ==
  ASSUME NEW T \in SUBSET Nat, T # {}
  PROVE  \E x \in T : \A y \in T : x <= y
<1>1. PICK x \in T : \A y \in T : ~ (<<y, x>> \in OpToRel(<, Nat))
  BY NatLessThanWellFounded, WFMin
<1>2. ASSUME NEW y \in T
      PROVE  x <= y
  <2>1. x \in Nat /\ y \in Nat /\ ~ (<<y, x>> \in OpToRel(<, Nat))
    BY <1>1
  <2>2. ~ (y < x)
    BY <2>1 DEF OpToRel
  <2>3. x \in Nat /\ y \in Nat
    OBVIOUS
  <2>4. QED BY <2>2, <2>3
<1>3. QED BY <1>2

\* g adds up the positions of the segments of every set of indices up to k: the
\* function that FoldLeft of Bytes stands for.
Folded(g, segs, k) ==
  g = [s \in SUBSET (1 .. k) |->
         IF s = {} THEN 0 ELSE g[s \ {Max(s)}] + segs[Max(s)].position]

\* The maximum is the element that no other exceeds.
LEMMA MaxIs ==
  ASSUME NEW s \in SUBSET Nat, NEW x \in s, \A y \in s : y <= x
  PROVE  Max(s) = x
<1>1. ASSUME NEW z \in s, \A y \in s : z >= y
      PROVE  z = x
  <2>1. z >= x /\ z <= x /\ z \in Nat /\ x \in Nat
    BY <1>1
  <2>2. QED BY <2>1
<1>2. x \in s /\ \A y \in s : x >= y
  OBVIOUS
<1>3. QED BY <1>1, <1>2 DEF Max

\* One more segment can be added up.
LEMMA FoldedStep ==
  ASSUME NEW segs, NEW k \in Nat, NEW g, Folded(g, segs, k)
  PROVE  \E h : Folded(h, segs, k + 1)
<1> DEFINE h == [s \in SUBSET (1 .. k + 1) |->
                   IF k + 1 \in s THEN g[s \ {k + 1}] + segs[k + 1].position ELSE g[s]]
<1>1. ASSUME NEW s \in SUBSET (1 .. k + 1)
      PROVE  h[s] = IF s = {} THEN 0 ELSE h[s \ {Max(s)}] + segs[Max(s)].position
  <2>1. CASE k + 1 \in s
    <3>1. Max(s) = k + 1
      <4>1. s \in SUBSET Nat /\ \A y \in s : y <= k + 1
        OBVIOUS
      <4>2. QED BY <2>1, <4>1, MaxIs
    <3>2. s \ {k + 1} \in SUBSET (1 .. k + 1) /\ k + 1 \notin s \ {k + 1}
      OBVIOUS
    <3>3. h[s \ {k + 1}] = g[s \ {k + 1}]
      BY <3>2
    <3>4. h[s] = g[s \ {k + 1}] + segs[k + 1].position
      BY <2>1
    <3>5. QED BY <2>1, <3>1, <3>3, <3>4
  <2>2. CASE k + 1 \notin s
    <3>1. s \in SUBSET (1 .. k) /\ h[s] = g[s]
      <4>1. \A y \in 1 .. k + 1 : y # k + 1 => y \in 1 .. k
        OBVIOUS
      <4>2. QED BY <2>2, <4>1
    <3>2. h[s \ {Max(s)}] = g[s \ {Max(s)}]
      <4>1. s \ {Max(s)} \in SUBSET (1 .. k + 1) /\ k + 1 \notin s \ {Max(s)}
        BY <2>2
      <4>2. QED BY <4>1
    <3>3. g[s] = IF s = {} THEN 0 ELSE g[s \ {Max(s)}] + segs[Max(s)].position
      BY <3>1 DEF Folded
    <3>4. QED BY <3>1, <3>2, <3>3
  <2>3. QED BY <2>1, <2>2
<1>2. h = [s \in SUBSET (1 .. k + 1) |-> h[s]]
  OBVIOUS
<1>3. Folded(h, segs, k + 1)
  <2> HIDE DEF h
  <2>1. QED BY <1>1, <1>2 DEF Folded
<1>4. QED BY <1>3

\* So every sequence of segments can.
LEMMA FoldedAll ==
  ASSUME NEW segs, NEW n \in Nat
  PROVE  \E g : Folded(g, segs, n)
<1> DEFINE T == {k \in Nat : ~ \E g : Folded(g, segs, k)}
<1>1. SUFFICES ASSUME T # {} PROVE FALSE
  OBVIOUS
<1>2. PICK k \in T : \A j \in T : k <= j
  <2>1. T \in SUBSET Nat
    OBVIOUS
  <2>2. QED BY <1>1, <2>1, LeastNat
<1>3. k # 0
  <2> DEFINE g == [s \in SUBSET (1 .. 0) |-> 0]
  <2>1. SUBSET (1 .. 0) = {{}}
    OBVIOUS
  <2>2. g = [s \in SUBSET (1 .. 0) |-> IF s = {} THEN 0 ELSE g[s \ {Max(s)}] + segs[Max(s)].position]
    BY <2>1
  <2>3. Folded(g, segs, 0)
    <3> HIDE DEF g
    <3>1. QED BY <2>2 DEF Folded
  <2>4. QED BY <2>3
<1>4. k - 1 \in Nat /\ ~(k <= k - 1) /\ (k - 1) + 1 = k
  BY <1>3
<1>5. k - 1 \notin T
  BY <1>2, <1>4
<1>6. PICK g : Folded(g, segs, k - 1)
  BY <1>4, <1>5
<1>7. \E h : Folded(h, segs, (k - 1) + 1)
  BY <1>4, <1>6, FoldedStep
<1>8. QED BY <1>2, <1>4, <1>7

\* p[i] bytes are in the first i of the segments.
Sums(p, segs) ==
  /\ p \in [0 .. Len(segs) -> Nat] /\ p[0] = 0
  /\ \A i \in 1 .. Len(segs) : p[i] = p[i - 1] + segs[i].position

\* The numbers of a segment of a sequence.
LEMMA SegmentAt ==
  ASSUME NEW segs \in Seq(Segment), NEW i \in 1 .. Len(segs)
  PROVE  segs[i] \in Segment /\ segs[i].position \in Nat /\ segs[i].start \in Nat
<1>1. segs[i] \in Segment
  OBVIOUS
<1>2. QED BY <1>1, SegmentNats DEF Segment

\* The bytes that the cleaner counts are the last of these sums.
LEMMA BytesAre ==
  ASSUME NEW segs \in Seq(Segment)
  PROVE  \E p : Sums(p, segs) /\ Bytes(segs) = p[Len(segs)]
<1> DEFINE n == Len(segs)
           g == CHOOSE g : Folded(g, segs, n)
           p == [i \in 0 .. n |-> g[1 .. i]]
<1>1. n \in Nat /\ DOMAIN segs = 1 .. n
  OBVIOUS
<1>2. Bytes(segs) = g[1 .. n]
  BY <1>1 DEF Bytes, FoldLeft, MapThenFoldSet, Folded
<1>3. Folded(g, segs, n)
  BY <1>1, FoldedAll
<1> HIDE DEF g, n
<1>4. g[{}] = 0 /\ \A s \in SUBSET (1 .. n) : s # {} => g[s] = g[s \ {Max(s)}] + segs[Max(s)].position
  BY <1>3 DEF Folded
<1>5. ASSUME NEW i \in 1 .. n
      PROVE  p[i] = p[i - 1] + segs[i].position
  <2>1. /\ i \in 1 .. i /\ 1 .. i \in SUBSET Nat /\ 1 .. i \in SUBSET (1 .. n) /\ (1 .. i) \ {i} = 1 .. i - 1
        /\ \A y \in 1 .. i : y <= i
    BY <1>1
  <2>2. Max(1 .. i) = i
    BY <2>1, MaxIs
  <2>3. i \in 0 .. n /\ i - 1 \in 0 .. n
    BY <1>1
  <2>4. QED BY <1>4, <2>1, <2>2, <2>3
<1>6. p[0] = 0
  <2>1. 0 \in 0 .. n /\ 1 .. 0 = {}
    BY <1>1
  <2>2. QED BY <1>4, <2>1
<1>7. \A i \in 1 .. n : segs[i].position \in Nat
  BY SegmentAt DEF n
<1>8. \A i \in 0 .. n : p[i] \in Nat
  <2> DEFINE T == {i \in 0 .. n : p[i] \notin Nat}
  <2> SUFFICES ASSUME T # {} PROVE FALSE
    OBVIOUS
  <2>1. PICK k \in T : \A j \in T : k <= j
    <3>1. T \in SUBSET Nat
      OBVIOUS
    <3>2. QED BY <3>1, LeastNat
  <2> HIDE DEF p
  <2>2. k \in 0 .. n /\ k # 0
    BY <1>6, <2>1
  <2>3. k \in 1 .. n /\ k - 1 \in 0 .. n /\ ~(k <= k - 1)
    BY <1>1, <2>2
  <2>4. p[k - 1] \in Nat
    BY <2>1, <2>3
  <2>5. p[k] \in Nat
    BY <1>5, <1>7, <2>3, <2>4
  <2>6. QED BY <2>1, <2>5
<1>9. p \in [0 .. n -> Nat] /\ n \in 0 .. n /\ p[n] = g[1 .. n]
  BY <1>1, <1>8
<1> HIDE DEF p
<1>10. Sums(p, segs)
  BY <1>5, <1>6, <1>9 DEF Sums, n
<1>11. QED BY <1>2, <1>9, <1>10 DEF n

\* More segments are no fewer bytes.
LEMMA SumsMonotone ==
  ASSUME NEW segs \in Seq(Segment), NEW p, Sums(p, segs),
         NEW i \in 0 .. Len(segs), NEW j \in 0 .. Len(segs), i <= j
  PROVE  p[i] \in Nat /\ p[j] \in Nat /\ p[i] <= p[j]
<1> DEFINE n == Len(segs)
           T == {k \in Nat : k \in i .. n /\ ~ (p[i] <= p[k])}
<1>1. n \in Nat /\ p \in [0 .. n -> Nat] /\ \A k \in 1 .. n : p[k] = p[k - 1] + segs[k].position
  BY DEF Sums
<1>2. \A k \in 1 .. n : segs[k].position \in Nat
  BY SegmentAt
<1> HIDE DEF n
<1>3. T = {}
  <2> SUFFICES ASSUME T # {} PROVE FALSE
    OBVIOUS
  <2>1. PICK k \in T : \A l \in T : k <= l
    <3>1. T \in SUBSET Nat
      OBVIOUS
    <3>2. QED BY <3>1, LeastNat
  <2>2. i \in Nat /\ i <= n /\ k \in Nat /\ k \in i .. n
    BY <2>1 DEF n
  <2>3. k # i
    <3>1. p[i] \in Nat
      BY <1>1, <2>2
    <3>2. QED BY <2>1, <3>1
  <2>4. /\ k \in 1 .. n /\ k - 1 \in i .. n /\ k - 1 \in Nat /\ ~(k <= k - 1)
        /\ k - 1 \in 0 .. n /\ k \in 0 .. n
    BY <1>1, <2>2, <2>3
  <2>5. p[i] <= p[k - 1]
    BY <2>1, <2>4
  <2>6. /\ p[k] = p[k - 1] + segs[k].position /\ segs[k].position \in Nat
        /\ p[k - 1] \in Nat /\ p[i] \in Nat
    BY <1>1, <1>2, <2>2, <2>4
  <2>7. p[i] <= p[k]
    BY <2>5, <2>6
  <2>8. QED BY <2>1, <2>7
<1>4. j \in Nat /\ j \in i .. n /\ i \in 0 .. n /\ j \in 0 .. n
  BY DEF n
<1>5. QED BY <1>1, <1>3, <1>4

\* The bytes newer than segment k: what is left of the sum after it.
LEMMA NewerIs ==
  ASSUME NEW segs \in Seq(Segment), NEW p, Sums(p, segs), NEW k \in 0 .. Len(segs)
  PROVE  NewerBytes(segs, k) = p[Len(segs)] - p[k]
<1> DEFINE n == Len(segs)
           t == SubSeq(segs, k + 1, n)
<1>1. n \in Nat /\ k \in 0 .. n /\ n - k \in Nat
  OBVIOUS
<1>2. t \in Seq(Segment) /\ Len(t) = n - k /\ \A i \in 1 .. n - k : t[i] = segs[k + i]
  BY Suffix
<1>3. NewerBytes(segs, k) = Bytes(t)
  BY DEF NewerBytes
<1> HIDE DEF t
<1>4. PICK q : Sums(q, t) /\ Bytes(t) = q[Len(t)]
  BY <1>2, BytesAre
<1>5. /\ p \in [0 .. n -> Nat] /\ \A i \in 1 .. n : p[i] = p[i - 1] + segs[i].position
  BY DEF Sums
<1>6. /\ q \in [0 .. n - k -> Nat] /\ q[0] = 0
      /\ \A i \in 1 .. n - k : q[i] = q[i - 1] + segs[k + i].position
  BY <1>2, <1>4 DEF Sums
<1>7. \A i \in 1 .. n : segs[i].position \in Nat
  BY SegmentAt
<1> HIDE DEF n
<1>8. \A i \in 0 .. n - k : p[k + i] = p[k] + q[i]
  <2> DEFINE T == {i \in 0 .. n - k : p[k + i] # p[k] + q[i]}
  <2> SUFFICES ASSUME T # {} PROVE FALSE
    OBVIOUS
  <2>1. PICK i \in T : \A l \in T : i <= l
    <3>1. T \in SUBSET Nat
      OBVIOUS
    <3>2. QED BY <3>1, LeastNat
  <2>2. i \in 0 .. n - k /\ p[k] \in Nat
    BY <1>1, <1>5
  <2>3. i # 0
    <3>1. k + 0 = k /\ p[k] + 0 = p[k]
      BY <1>1, <2>2
    <3>2. QED BY <1>6, <2>1, <3>1
  <2>4. /\ i \in 1 .. n - k /\ i - 1 \in 0 .. n - k /\ ~(i <= i - 1) /\ k + i \in 1 .. n
        /\ (k + i) - 1 = k + (i - 1) /\ k + (i - 1) \in 0 .. n
    BY <1>1, <2>2, <2>3
  <2>5. p[k + (i - 1)] = p[k] + q[i - 1]
    BY <2>1, <2>4
  <2>6. p[k + i] = p[k + (i - 1)] + segs[k + i].position
    BY <1>5, <2>4
  <2>7. /\ q[i] = q[i - 1] + segs[k + i].position /\ segs[k + i].position \in Nat
        /\ q[i - 1] \in Nat
    BY <1>6, <1>7, <2>4
  <2>8. p[k + i] = p[k] + q[i]
    BY <2>2, <2>5, <2>6, <2>7
  <2>9. QED BY <2>1, <2>8
<1>9. n - k \in 0 .. n - k /\ k + (n - k) = n
  BY <1>1
<1>10. p[n] = p[k] + q[n - k] /\ p[k] \in Nat /\ q[n - k] \in Nat
  BY <1>1, <1>5, <1>6, <1>8, <1>9
<1>11. p[n] - p[k] = q[n - k]
  BY <1>10
<1>12. QED BY <1>2, <1>3, <1>4, <1>11 DEF n

\* A suffix without its first segment is the next shorter one.
LEMMA TailOfSubSeq ==
  ASSUME NEW segs \in Seq(Segment), NEW k \in Nat, k < Len(segs)
  PROVE  Tail(SubSeq(segs, k + 1, Len(segs))) = SubSeq(segs, (k + 1) + 1, Len(segs))
<1> DEFINE n == Len(segs)
           t == SubSeq(segs, k + 1, n)
           u == SubSeq(segs, (k + 1) + 1, n)
<1>1. n \in Nat /\ k \in 0 .. n /\ k + 1 \in 0 .. n /\ k < n
  OBVIOUS
<1>2. t \in Seq(Segment) /\ Len(t) = n - k /\ \A i \in 1 .. n - k : t[i] = segs[k + i]
  BY <1>1, Suffix
<1>3. /\ u \in Seq(Segment) /\ Len(u) = n - (k + 1)
      /\ \A i \in 1 .. n - (k + 1) : u[i] = segs[(k + 1) + i]
  BY <1>1, Suffix
<1> HIDE DEF t, u, n
<1>4. t # <<>>
  <2>1. Len(t) # 0
    BY <1>1, <1>2
  <2>2. QED BY <1>2, <2>1, EmptySeq
<1>5. /\ Tail(t) \in Seq(Segment) /\ Len(Tail(t)) = Len(t) - 1
      /\ \A i \in 1 .. Len(t) - 1 : Tail(t)[i] = t[i + 1]
  BY <1>2, <1>4
<1>6. /\ n - k - 1 = n - (k + 1)
      /\ \A i \in 1 .. n - (k + 1) : i + 1 \in 1 .. n - k /\ k + (i + 1) = (k + 1) + i
  BY <1>1
<1>7. \A i \in 1 .. n - (k + 1) : Tail(t)[i] = u[i]
  BY <1>2, <1>3, <1>5, <1>6
<1>8. Len(Tail(t)) = Len(u)
  BY <1>2, <1>3, <1>5, <1>6
<1>9. Tail(t) = u
  BY <1>3, <1>5, <1>7, <1>8
<1>10. QED BY <1>9 DEF t, u, n

\* What the cleaner keeps.
LEMMA RetainedIs ==
  ASSUME NEW segs \in Seq(Segment)
  PROVE  LET k == Excess(segs) IN
         /\ k \in 0 .. Len(segs) /\ (segs # <<>> => k < Len(segs))
         /\ Retained(segs) = SubSeq(segs, k + 1, Len(segs))
         /\ Retained(segs) # <<>> => Bytes(Tail(Retained(segs))) <= RetentionBytes
         /\ k > 0 => Bytes(Retained(segs)) > RetentionBytes
<1> DEFINE n == Len(segs)
           k == Excess(segs)
           X == {i \in DOMAIN segs : NewerBytes(segs, i) > RetentionBytes}
<1>1. n \in Nat /\ k \in 0 .. n /\ DOMAIN segs = 1 .. n /\ RetentionBytes \in Nat
  BY ExcessBounded, SegmentsAssumption
<1>2. PICK p : Sums(p, segs) /\ Bytes(segs) = p[Len(segs)]
  BY BytesAre
<1>3. p \in [0 .. n -> Nat]
  BY <1>2 DEF Sums
<1>4. \A i \in 0 .. n : NewerBytes(segs, i) = p[n] - p[i]
  BY <1>2, NewerIs
<1>5. \A i \in 0 .. n, j \in 0 .. n : i <= j => p[i] <= p[j]
  BY <1>2, SumsMonotone
<1>6. k = Cardinality(X)
  BY DEF Excess
<1> HIDE DEF n, k
<1>7. \A i \in X : i \in 1 .. n /\ \A j \in 1 .. i : j \in X
  <2>1. ASSUME NEW i \in X, NEW j \in 1 .. i
        PROVE  j \in X
    <3>1. i \in 1 .. n /\ NewerBytes(segs, i) > RetentionBytes
      BY <1>1
    <3>2. j \in 1 .. n /\ j \in 0 .. n /\ i \in 0 .. n /\ j <= i /\ n \in 0 .. n
      BY <1>1, <3>1
    <3>3. p[j] <= p[i] /\ p[i] \in Nat /\ p[j] \in Nat /\ p[n] \in Nat
      BY <1>3, <1>5, <3>2
    <3>4. p[n] - p[i] > RetentionBytes
      BY <1>4, <3>1, <3>2
    <3>5. p[n] - p[j] > RetentionBytes
      BY <1>1, <3>3, <3>4
    <3>6. NewerBytes(segs, j) > RetentionBytes
      BY <1>4, <3>2, <3>5
    <3>7. QED BY <1>1, <3>2, <3>6
  <2>2. QED BY <1>1, <2>1
<1> HIDE DEF X
<1>8. X = 1 .. k
  <2> DEFINE T == {i \in Nat : i \notin X /\ i # 0}
  <2>1. n + 1 \in T
    BY <1>1, <1>7
  <2>2. PICK l \in T : \A i \in T : l <= i
    <3>1. T \in SUBSET Nat
      OBVIOUS
    <3>2. QED BY <2>1, <3>1, LeastNat
  <2>3. l \in Nat \ {0} /\ l \notin X
    BY <2>2
  <2>4. \A i \in 1 .. l - 1 : i \in X
    <3>1. \A i \in 1 .. l - 1 : i \in Nat /\ i # 0 /\ ~(l <= i)
      BY <2>3
    <3>2. QED BY <2>2, <3>1
  <2>5. \A i \in X : i \in 1 .. l - 1
    <3>1. ASSUME NEW i \in X, i \notin 1 .. l - 1
          PROVE  FALSE
      <4>1. i \in 1 .. n
        BY <1>7
      <4>2. l \in 1 .. i
        BY <1>1, <2>3, <3>1, <4>1
      <4>3. QED BY <1>7, <2>3, <4>2
    <3>2. QED BY <3>1
  <2>6. X = 1 .. l - 1
    BY <2>4, <2>5
  <2>7. Cardinality(1 .. l - 1) = l - 1
    <3>1. 1 \in Int /\ l - 1 \in Int
      BY <2>3
    <3>2. Cardinality(1 .. l - 1) = IF 1 > l - 1 THEN 0 ELSE (l - 1) - 1 + 1
      BY <3>1, FS_Interval, Zenon
    <3>3. QED BY <2>3, <3>2
  <2>8. k = l - 1
    BY <1>6, <2>6, <2>7
  <2>9. QED BY <2>6, <2>8
<1>9. segs # <<>> => k < n
  <2>1. ASSUME segs # <<>>, k = n
        PROVE  FALSE
    <3>1. n # 0
      BY <2>1, EmptySeq DEF n
    <3>2. n \in X /\ n \in 0 .. n
      BY <1>1, <1>8, <2>1, <3>1
    <3>3. NewerBytes(segs, n) = p[n] - p[n] /\ p[n] \in Nat
      BY <1>3, <1>4, <3>2
    <3>4. NewerBytes(segs, n) > RetentionBytes
      BY <3>2 DEF X
    <3>5. QED BY <1>1, <3>3, <3>4
  <2>2. QED BY <1>1, <2>1
<1>10. Retained(segs) = SubSeq(segs, k + 1, n)
  BY DEF Retained, n, k
<1>11. Bytes(Retained(segs)) = NewerBytes(segs, k)
  BY <1>10 DEF NewerBytes, n
<1>12. k > 0 => Bytes(Retained(segs)) > RetentionBytes
  <2>1. k > 0 => k \in X
    BY <1>1, <1>8
  <2>2. QED BY <1>11, <2>1 DEF X
<1>13. ASSUME Retained(segs) # <<>>
       PROVE  Bytes(Tail(Retained(segs))) <= RetentionBytes
  <2>1. k < n
    <3>1. segs # <<>>
      <4>1. CASE segs = <<>>
        <5>1. n = 0 /\ k = 0
          BY <1>1, <4>1, EmptySeq DEF n
        <5>2. SubSeq(segs, 0 + 1, 0) = <<>>
          BY <4>1
        <5>3. QED BY <1>10, <1>13, <5>1, <5>2
      <4>2. QED BY <4>1
    <3>2. QED BY <1>9, <3>1
  <2>2. Tail(SubSeq(segs, k + 1, n)) = SubSeq(segs, (k + 1) + 1, n)
    BY <1>1, <2>1, TailOfSubSeq DEF n
  <2>3. Bytes(Tail(Retained(segs))) = NewerBytes(segs, k + 1)
    BY <1>10, <2>2 DEF NewerBytes, n
  <2>4. k + 1 \in 1 .. n /\ k + 1 \notin X /\ k + 1 \in 0 .. n /\ n \in 0 .. n
    BY <1>1, <1>8, <2>1
  <2>5. ~(NewerBytes(segs, k + 1) > RetentionBytes)
    BY <1>1, <2>4 DEF X
  <2>6. NewerBytes(segs, k + 1) = p[n] - p[k + 1] /\ p[n] \in Nat /\ p[k + 1] \in Nat
    BY <1>3, <1>4, <2>4
  <2>7. QED BY <1>1, <2>3, <2>5, <2>6
<1>14. QED BY <1>1, <1>9, <1>10, <1>12, <1>13 DEF n, k

\* A flushed segment adds its bytes.
LEMMA BytesAppend ==
  ASSUME NEW segs \in Seq(Segment), NEW s \in Segment
  PROVE  Bytes(segs) \in Nat /\ Bytes(segs) <= Bytes(Append(segs, s)) /\ Bytes(Append(segs, s)) \in Nat
<1> DEFINE n == Len(segs)
           t == Append(segs, s)
<1>1. /\ n \in Nat /\ t \in Seq(Segment) /\ Len(t) = n + 1 /\ \A i \in 1 .. n : t[i] = segs[i]
      /\ t[n + 1] = s /\ s.position \in Nat
  BY AppendProperties DEF Segment
<1> HIDE DEF t
<1>2. PICK p : Sums(p, segs) /\ Bytes(segs) = p[Len(segs)]
  BY BytesAre
<1>3. PICK q : Sums(q, t) /\ Bytes(t) = q[Len(t)]
  BY <1>1, BytesAre
<1>4. /\ p \in [0 .. n -> Nat] /\ p[0] = 0 /\ \A i \in 1 .. n : p[i] = p[i - 1] + segs[i].position
  BY <1>2 DEF Sums
<1>5. /\ q \in [0 .. n + 1 -> Nat] /\ q[0] = 0
      /\ \A i \in 1 .. n + 1 : q[i] = q[i - 1] + t[i].position
  BY <1>1, <1>3 DEF Sums
<1>6. Bytes(segs) = p[n] /\ Bytes(t) = q[n + 1]
  BY <1>1, <1>2, <1>3
<1> HIDE DEF n
<1>7. \A i \in 0 .. n : p[i] = q[i]
  <2> DEFINE T == {i \in 0 .. n : p[i] # q[i]}
  <2> SUFFICES ASSUME T # {} PROVE FALSE
    OBVIOUS
  <2>1. PICK i \in T : \A l \in T : i <= l
    <3>1. T \in SUBSET Nat
      OBVIOUS
    <3>2. QED BY <3>1, LeastNat
  <2>2. i \in 0 .. n /\ i # 0
    BY <1>4, <1>5, <2>1
  <2>3. i \in 1 .. n /\ i - 1 \in 0 .. n /\ ~(i <= i - 1) /\ i \in 1 .. n + 1
    BY <1>1, <2>2
  <2>4. p[i - 1] = q[i - 1]
    BY <2>1, <2>3
  <2>5. p[i] = q[i]
    BY <1>1, <1>4, <1>5, <2>3, <2>4
  <2>6. QED BY <2>1, <2>5
<1>8. n \in 0 .. n /\ n + 1 \in 1 .. n + 1 /\ n + 1 \in 0 .. n + 1 /\ (n + 1) - 1 = n
  BY <1>1
<1>9. q[n + 1] = p[n] + s.position /\ p[n] \in Nat
  BY <1>1, <1>4, <1>5, <1>7, <1>8
<1>10. QED BY <1>1, <1>6, <1>9 DEF t

-----------------------------------------------------------------------------
(* What a split adds.                                                       *)

\* One segment has one order.
LEMMA OneOrder == ASSUME NEW x PROVE SetToSeqs({x}) = {<<x>>}
<1>1. 1 .. Cardinality({x}) = {1}
  <2>1. Cardinality({x}) = 1
    BY FS_Singleton, Zenon
  <2>2. 1 .. 1 = {1}
    OBVIOUS
  <2> QED BY <2>1, <2>2
<1>2. <<x>> = [i \in {1} |-> x]
  OBVIOUS
<1>3. \A f \in [{1} -> {x}] : f = [i \in {1} |-> x]
  OBVIOUS
<1>4. [{1} -> {x}] = {<<x>>}
  BY <1>2, <1>3
<1> QED BY <1>1, <1>4 DEF SetToSeqs

\* Flushing the segment in memory gives the chain its next link, and the
\* reload that follows finds exactly that one.
LEMMA FlushedReload ==
  ASSUME NEW segs \in Seq(Segment), NEW files \in [Offset -> Files],
         NEW v \in VirtualSegment,
         Chain(segs, v.start), Mirror(segs, files),
         v.next = Len(v.entries), 0 < v.next, v.start + v.next \in Offset
  PROVE  LET f == Flush(files, v)
             s == LoadSegment(f, v.start)
         IN /\ f \in [Offset -> Files]
            /\ Append(segs, s) \in Seq(Segment)
            /\ Chain(Append(segs, s), v.start + v.next)
            /\ Mirror(Append(segs, s), f)
            /\ SetToSeqs(Pairs(f) \ {segs[i].start : i \in DOMAIN segs}) = {<<v.start>>}
            /\ f[v.start] = [log |-> v.contents, index |-> v.entries]
            /\ \A o \in Offset \ {v.start} : f[o] = files[o]
            /\ s \in Segment /\ s.start = v.start /\ s.next = v.start + v.next
            /\ s.entries = v.entries /\ s.position = Len(v.contents)
<1> DEFINE f == Flush(files, v)
           s == LoadSegment(f, v.start)
           t == Append(segs, s)
<1>1. /\ v.start \in Offset /\ v.start \in Nat /\ v.next \in Nat
      /\ v.contents \in Seq(Byte) /\ v.entries \in Seq(Entry)
      /\ v.contents # NoFile /\ v.entries # NoFile
  BY SegmentsAssumption DEF VirtualSegment, Offset, Entry
<1>2. v.start \notin Pairs(files)
  <2>1. \A i \in DOMAIN segs : segs[i].start # v.start
    BY <1>1, ChainStarts, SegmentsAssumption DEF Offset
  <2> QED BY <2>1 DEF Mirror
<1>3. files[v.start] = Missing
  BY <1>1, <1>2 DEF Mirror, Orphans
<1>4. f = [files EXCEPT ![v.start] = [log |-> v.contents, index |-> v.entries]]
  BY <1>1, <1>3 DEF Flush, Overlay, Missing
<1>5. /\ f \in [Offset -> Files] /\ f[v.start].log = v.contents /\ f[v.start].index = v.entries
      /\ f[v.start] = [log |-> v.contents, index |-> v.entries]
  BY <1>1, <1>4 DEF Files
<1>6. \A o \in Offset \ {v.start} : f[o] = files[o]
  BY <1>4
<1> HIDE DEF f
<1>7. s = [start |-> v.start, next |-> v.start + v.next, position |-> Len(v.contents),
           entries |-> v.entries]
  <2>1. Len(v.entries) + v.start = v.start + v.next
    BY <1>1
  <2> QED BY <1>5, <2>1, WrapsNot DEF LoadSegment
<1>8. s \in Segment
  <2>1. Len(v.contents) \in Nat
    BY <1>1
  <2> QED BY <1>1, <1>7, <2>1 DEF Segment
<1>9. /\ s.start = v.start /\ s.next = v.start + v.next /\ Len(s.entries) = v.next
      /\ s.entries = v.entries /\ s.position = Len(v.contents)
  BY <1>7
<1> HIDE DEF s
<1>10. t \in Seq(Segment) /\ Len(t) = Len(segs) + 1 /\ t[Len(segs) + 1] = s
       /\ \A i \in 1 .. Len(segs) : t[i] = segs[i]
  BY <1>8, AppendProperties
<1>11. Chain(t, v.start + v.next)
  BY <1>1, <1>8, <1>9, ChainExtended
<1> HIDE DEF t
<1>12. Pairs(f) = Pairs(files) \cup {v.start}
  BY <1>1, <1>5, <1>6 DEF Pairs
<1>13. {t[i].start : i \in DOMAIN t} = Pairs(f)
  <2>1. DOMAIN t = DOMAIN segs \cup {Len(segs) + 1}
    BY <1>10
  <2>2. {t[i].start : i \in DOMAIN t} = {segs[i].start : i \in DOMAIN segs} \cup {s.start}
    BY <1>10, <2>1
  <2> QED BY <2>2, <1>9, <1>12 DEF Mirror
<1>14. \A i \in DOMAIN t : t[i] = LoadSegment(f, t[i].start)
  <2>1. ASSUME NEW i \in DOMAIN segs PROVE segs[i] = LoadSegment(f, segs[i].start)
    <3>1. segs[i].start \in Offset \ {v.start}
      BY <1>1, ChainStarts, SegmentsAssumption DEF Offset
    <3>2. f[segs[i].start] = files[segs[i].start]
      BY <3>1, <1>6
    <3> QED BY <3>2 DEF Mirror, LoadSegment
  <2>2. t[Len(segs) + 1] = LoadSegment(f, t[Len(segs) + 1].start)
    BY <1>10, <1>9 DEF s
  <2> QED BY <2>1, <2>2, <1>10
<1>15. Orphans(f) = {}
  BY <1>5, <1>6, <1>12 DEF Orphans, Mirror
<1>16. Mirror(t, f)
  BY <1>13, <1>14, <1>15 DEF Mirror
<1>17. SetToSeqs(Pairs(f) \ {segs[i].start : i \in DOMAIN segs}) = {<<v.start>>}
  <2>1. Pairs(f) \ {segs[i].start : i \in DOMAIN segs} = {v.start}
    BY <1>2, <1>12 DEF Mirror
  <2> QED BY <2>1, OneOrder
<1> QED BY <1>5, <1>6, <1>8, <1>9, <1>10, <1>11, <1>16, <1>17 DEF f, s, t

-----------------------------------------------------------------------------
(* One life of the log.                                                     *)

\* The inductive invariant.  A split is only made when the contents are not
\* empty, and a segment with contents has entries: the new one starts later.
LifeInv ==
  /\ TypeOK
  /\ Chain(segments, current.start)
  /\ Mirror(segments, disk)
  /\ current.next = Len(current.entries)
  /\ current.entries = <<>> => current.contents = <<>>
  /\ OffsetsConsecutive
  /\ Len(accepted) <= MaxAppends

\* Cursor::write leaves bytes, whatever the cursor.
LEMMA PutType ==
  ASSUME NEW bytes \in Seq(Byte), NEW at \in Nat, NEW m \in Seq(Byte)
  PROVE  Put(bytes, at, m) \in Seq(Byte)
<1> DEFINE end == at + Len(m)
           size == IF end > Len(bytes) THEN end ELSE Len(bytes)
           e(i) == IF i \in at + 1 .. end THEN m[i - at]
                   ELSE IF i <= Len(bytes) THEN bytes[i] ELSE ZeroByte
<1>1. size \in Nat /\ end \in Nat
  OBVIOUS
<1>2. ASSUME NEW i \in 1 .. size PROVE e(i) \in Byte
  <2>1. CASE i \in at + 1 .. end
    <3>1. i - at \in 1 .. Len(m)
      BY <2>1
    <3> QED BY <2>1, <3>1
  <2>2. CASE i \notin at + 1 .. end
    BY <2>2, SegmentsAssumption
  <2> QED BY <2>1, <2>2
<1>3. [i \in 1 .. size |-> e(i)] \in Seq(Byte)
  BY <1>1, <1>2
<1> QED BY <1>3 DEF Put

\* A write adds one entry and one offset.
LEMMA WriteAdds ==
  ASSUME NEW v \in VirtualSegment, NEW m \in Messages,
         v.next = Len(v.entries), v.next + 1 \in Offset
  PROVE  LET w == Write(v, m)
         IN /\ w \in VirtualSegment
            /\ w.start = v.start
            /\ w.next = v.next + 1
            /\ w.next = Len(w.entries)
            /\ w.entries # <<>>
<1> DEFINE entry == [start |-> v.position, total |-> Len(m)]
<1>1. m \in Seq(Byte) /\ Len(m) \in Nat
  BY SegmentsAssumption
<1>2. entry \in Entry
  BY <1>1 DEF Entry, VirtualSegment
<1>3. v.entries \in Seq(Entry)
  BY DEF VirtualSegment
<1> HIDE DEF entry
<1>4. /\ Append(v.entries, entry) \in Seq(Entry)
      /\ Len(Append(v.entries, entry)) = Len(v.entries) + 1
      /\ Append(v.entries, entry) # <<>>
  BY <1>2, <1>3, AppendProperties
<1>5. U16(v.next + 1) = v.next + 1
  BY WrapsNot
<1>6. Put(v.contents, v.cursor, m) \in Seq(Byte)
  BY <1>1, PutType DEF VirtualSegment
<1>7. Write(v, m) = [start |-> v.start, next |-> v.next + 1,
                     contents |-> Put(v.contents, v.cursor, m),
                     cursor |-> v.cursor + Len(m),
                     position |-> v.position + Len(m),
                     entries |-> Append(v.entries, entry)]
  BY <1>5 DEF Write, AddEntry, entry
<1>8. /\ v.start \in Offset
      /\ v.cursor + Len(m) \in Nat
      /\ v.position + Len(m) \in Nat
  BY <1>1 DEF VirtualSegment
<1>9. Write(v, m) \in VirtualSegment
  BY <1>4, <1>6, <1>7, <1>8 DEF VirtualSegment
<1> QED BY <1>4, <1>7, <1>9

\* The write to segment v, and a cleaning that removes the n oldest segments: as
\* many as exceed the retention, or fewer when it fails.
StoreLeaving(v, m, segs, files, n) ==
  /\ current' = Write(v, m)
  /\ segments' = Newest(segs, n)
  /\ disk' = Delete(files, Oldest(segs, n))
  /\ accepted' = Append(accepted, [offset |-> U16(v.start + v.next), data |-> m])
  /\ UNCHANGED <<up, crashes>>

\* An append to the segment in memory, with such a cleaning,
PlaceLeaving(m, n) ==
  /\ Fits(current, m)
  /\ StoreLeaving(current, m, segments, disk, n)

\* one that flushes that segment first,
SplitLeaving(m, n) ==
  /\ ~Fits(current, m)
  /\ \E segs \in Reloaded(Flush(disk, current)) :
       StoreLeaving(Successor(current), m, segs, Flush(disk, current), n)

\* and either of them.  Of the segments that there are, one stays.
AppendLeaving(m) ==
  /\ Storable(m)
  /\ \E n \in 0 .. Len(segments) :
       \/ PlaceLeaving(m, n) /\ (n = 0 \/ n < Len(segments))
       \/ SplitLeaving(m, n)

\* A store after the segment v, on top of the segments segs.
LEMMA StoreKeeps ==
  ASSUME MaxAppends < OffsetSpan, TypeOK, OffsetsConsecutive,
         Len(accepted) < MaxAppends,
         NEW v \in VirtualSegment, NEW m \in Messages,
         NEW segs \in Seq(Segment), NEW files \in [Offset -> Files],
         Chain(segs, v.start), Mirror(segs, files),
         v.next = Len(v.entries), v.start + v.next = Len(accepted),
         NEW n \in 0 .. Len(segs), StoreLeaving(v, m, segs, files, n)
  PROVE  LifeInv'
<1> DEFINE w == Write(v, m)
           r == [offset |-> U16(v.start + v.next), data |-> m]
<1>1. /\ v.start \in Nat /\ v.next \in Nat /\ v.start \in Offset
      /\ v.start + v.next \in Offset /\ v.next + 1 \in Offset
  <2>1. v.start \in Nat /\ v.next \in Nat /\ v.start \in Offset
    BY SegmentsAssumption DEF VirtualSegment, Offset
  <2>2. Len(accepted) \in Nat /\ v.next <= Len(accepted)
    BY <2>1 DEF TypeOK
  <2> QED BY <2>1, <2>2, SegmentsAssumption, CommitlogAssumption DEF Offset
<1>2. /\ w \in VirtualSegment /\ w.start = v.start /\ w.next = v.next + 1
      /\ w.next = Len(w.entries) /\ w.entries # <<>>
  BY <1>1, WriteAdds
<1> HIDE DEF w
<1>3. /\ current' = w /\ segments' = Newest(segs, n)
      /\ disk' = Delete(files, Oldest(segs, n))
      /\ accepted' = Append(accepted, r) /\ up' = up /\ crashes' = crashes
  BY DEF StoreLeaving, w
<1>4. r = [offset |-> Len(accepted), data |-> m] /\ r \in [offset : Offset, data : Messages]
  BY <1>1, WrapsNot
<1> HIDE DEF r
<1>5. /\ accepted' \in Seq([offset : Offset, data : Messages])
      /\ Len(accepted') = Len(accepted) + 1
      /\ accepted'[Len(accepted) + 1] = r
      /\ \A i \in 1 .. Len(accepted) : accepted'[i] = accepted[i]
  BY <1>3, <1>4, AppendProperties DEF TypeOK
<1>6. /\ Mirror(segments', disk') /\ segments' \in Seq(Segment)
      /\ Chain(segments', v.start) /\ disk' \in [Offset -> Files]
  BY <1>1, <1>3, MirrorSuffix
<1>7. TypeOK'
  BY <1>2, <1>3, <1>5, <1>6 DEF TypeOK
<1>8. OffsetsConsecutive'
  <2>1. \A i \in DOMAIN accepted' : accepted'[i].offset = i - 1
    <3>1. DOMAIN accepted' = DOMAIN accepted \cup {Len(accepted) + 1}
      BY <1>5 DEF TypeOK
    <3>2. accepted'[Len(accepted) + 1].offset = (Len(accepted) + 1) - 1
      BY <1>4, <1>5 DEF TypeOK
    <3>3. \A i \in DOMAIN accepted : accepted'[i].offset = i - 1
      BY <1>5 DEF OffsetsConsecutive, TypeOK
    <3> QED BY <3>1, <3>2, <3>3
  <2>2. End' = Len(accepted')
    <3>1. current'.start = v.start /\ current'.next = v.next + 1
      BY <1>2, <1>3
    <3> QED BY <1>1, <1>5, <3>1 DEF End
  <2> QED BY <2>1, <2>2 DEF OffsetsConsecutive
<1>9. Len(accepted') <= MaxAppends
  BY <1>5, CommitlogAssumption DEF TypeOK
<1> QED BY <1>2, <1>3, <1>6, <1>7, <1>8, <1>9 DEF LifeInv, Chain, Mirror

-----------------------------------------------------------------------------
(* The steps of one life.                                                   *)

\* A log that was just opened on an empty directory.
LEMMA LifeStarts == Init => LifeInv
<1> SUFFICES ASSUME Init PROVE LifeInv
  OBVIOUS
<1>1. current = NewVirtual(0) /\ segments = <<>> /\ accepted = <<>>
      /\ disk = [o \in Offset |-> Missing] /\ up = TRUE /\ crashes = 0
  BY DEF Init
<1>2. 0 \in Offset
  BY SegmentsAssumption DEF Offset
<1>3. current \in VirtualSegment
  BY <1>1, <1>2 DEF NewVirtual, VirtualSegment
<1>4. Missing \in Files /\ Missing.log = NoFile
  BY DEF Missing, Files
<1>5. TypeOK
  BY <1>1, <1>3, <1>4, CommitlogAssumption DEF TypeOK
<1>6. Chain(segments, current.start)
  BY <1>1 DEF Chain
<1>7. Pairs(disk) = {} /\ Orphans(disk) = {}
  BY <1>1, <1>4 DEF Pairs, Orphans
<1>8. Mirror(segments, disk)
  BY <1>1, <1>7 DEF Mirror
<1>9. OffsetsConsecutive
  BY <1>1 DEF OffsetsConsecutive, End, NewVirtual
<1> QED
  BY <1>1, <1>5, <1>6, <1>8, <1>9, CommitlogAssumption DEF LifeInv, NewVirtual

\* The empty sequence is the only order of no segments.
LEMMA NoOrder == SetToSeqs({}) = {<<>>}
<1>1. 1 .. Cardinality({}) = {}
  <2>1. Cardinality({}) = 0
    BY FS_EmptySet
  <2> QED BY <2>1
<1>2. ASSUME NEW f \in [{} -> {}] PROVE f = <<>>
  <2>1. DOMAIN f = {} /\ f = [i \in {} |-> f[i]]
    OBVIOUS
  <2>2. <<>> = [i \in {} |-> f[i]]
    OBVIOUS
  <2> QED BY <2>1, <2>2
<1>3. <<>> \in [{} -> {}]
  OBVIOUS
<1>4. [{} -> {}] = {<<>>}
  BY <1>2, <1>3
<1> QED BY <1>1, <1>4 DEF SetToSeqs

\* With one order of the missing segments, reload_segments has one outcome.
LEMMA ReloadedOnce ==
  ASSUME NEW files, NEW order,
         SetToSeqs(Pairs(files) \ {segments[i].start : i \in DOMAIN segments}) = {order},
         NEW segs \in Reloaded(files)
  PROVE  segs = segments \o [i \in DOMAIN order |-> LoadSegment(files, order[i])]
<1> DEFINE loaded == {segments[i].start : i \in DOMAIN segments}
           G(o) == segments \o [i \in DOMAIN o |-> LoadSegment(files, o[i])]
<1>1. segs \in {G(o) : o \in SetToSeqs(Pairs(files) \ loaded)}
  BY Zenon DEF Reloaded
<1> HIDE DEF G
<1>2. segs = G(order)
  BY <1>1
<1> QED BY <1>2 DEF G

\* The loaded segments are the ones in the directory: reload_segments adds none.
LEMMA ReloadKeeps == ASSUME LifeInv, Reload PROVE UNCHANGED vars
<1>1. Pairs(disk) \ {segments[i].start : i \in DOMAIN segments} = {}
  BY DEF LifeInv, Mirror
<1>2. segments' = segments \o [i \in DOMAIN <<>> |-> LoadSegment(disk, <<>>[i])]
  BY <1>1, NoOrder, ReloadedOnce DEF Reload
<1>3. [i \in DOMAIN <<>> |-> LoadSegment(disk, <<>>[i])] = <<>>
  OBVIOUS
<1>4. segments \o <<>> = segments
  BY DEF LifeInv, TypeOK
<1> QED BY <1>2, <1>3, <1>4 DEF Reload, vars

\* Wherever the cursor of the segment in memory goes, the rest stays.
LEMMA CursorKeeps ==
  ASSUME LifeInv, NEW c \in Nat, current' = [current EXCEPT !.cursor = c],
         UNCHANGED <<up, segments, disk, accepted, crashes>>
  PROVE  LifeInv'
<1>1. /\ current' \in VirtualSegment
      /\ current'.start = current.start /\ current'.next = current.next
      /\ current'.entries = current.entries /\ current'.contents = current.contents
  BY DEF LifeInv, TypeOK, VirtualSegment
<1>2. TypeOK'
  BY <1>1 DEF LifeInv, TypeOK
<1> QED BY <1>1, <1>2 DEF LifeInv, Chain, Mirror, OffsetsConsecutive, End

\* A read moves the cursor of the segment in memory and nothing else.
LEMMA ReadKeeps == ASSUME LifeInv, NEW o \in Offset, Read(o) PROVE LifeInv'
<1>1. PICK c \in IF current.start <= o THEN CursorsAfter(current, o - current.start)
                 ELSE {current.cursor} :
        current' = [current EXCEPT !.cursor = c]
  BY DEF Read
<1>2. current \in VirtualSegment /\ current.start \in Nat /\ o \in Nat
  BY SegmentsAssumption DEF LifeInv, TypeOK, VirtualSegment, Offset
<1>3. c \in Nat
  <2>1. current.cursor \in Nat /\ Len(current.contents) \in Nat
    BY <1>2 DEF VirtualSegment
  <2>2. ASSUME NEW n \in Nat, ~(n >= Len(current.entries))
        PROVE  /\ current.entries[n + 1].start \in Nat
               /\ current.entries[n + 1].total \in Nat
    <3>1. current.entries[n + 1] \in Entry
      BY <1>2, <2>2 DEF VirtualSegment
    <3> QED BY <3>1 DEF Entry
  <2>3. CASE current.start <= o
    <3> DEFINE n == o - current.start
               e == current.entries[n + 1]
    <3>1. n \in Nat /\ c \in CursorsAfter(current, n)
      BY <1>2, <2>3
    <3> HIDE DEF n
    <3>2. \/ c = current.cursor
          \/ ~(n >= Len(current.entries)) /\ c \in {e.start + e.total, e.start, Len(current.contents)}
      BY <3>1 DEF CursorsAfter
    <3> QED BY <2>1, <2>2, <3>1, <3>2
  <2>4. CASE ~(current.start <= o)
    BY <1>1, <2>1, <2>4
  <2> QED BY <2>3, <2>4
<1>4. UNCHANGED <<up, segments, disk, accepted, crashes>>
  BY DEF Read
<1> QED BY <1>1, <1>3, <1>4, CursorKeeps

\* An append to the segment in memory.
LEMMA InPlaceKeeps ==
  ASSUME MaxAppends < OffsetSpan, LifeInv, NEW m \in Messages, Storable(m),
         NEW n \in 0 .. Len(segments), PlaceLeaving(m, n)
  PROVE  LifeInv'
<1>1. /\ TypeOK /\ OffsetsConsecutive /\ Len(accepted) < MaxAppends
      /\ current \in VirtualSegment /\ segments \in Seq(Segment)
      /\ disk \in [Offset -> Files]
      /\ current.start + current.next = Len(accepted)
  BY DEF LifeInv, TypeOK, Storable, OffsetsConsecutive, End
<1>2. /\ Chain(segments, current.start) /\ Mirror(segments, disk)
      /\ current.next = Len(current.entries)
  BY DEF LifeInv
<1>3. StoreLeaving(current, m, segments, disk, n)
  BY DEF PlaceLeaving
<1> QED BY <1>1, <1>2, <1>3, StoreKeeps

\* An append that first flushes the segment in memory: the directory and the
\* segments to which it adds the next one.
LEMMA SplitMakes ==
  ASSUME MaxAppends < OffsetSpan, LifeInv, NEW m \in Messages,
         Storable(m), ~Fits(current, m)
  PROVE  LET f == Flush(disk, current)
             s == LoadSegment(f, current.start)
             t == Append(segments, s)
             v == Successor(current)
         IN /\ f \in [Offset -> Files] /\ t \in Seq(Segment)
            /\ Chain(t, v.start) /\ Mirror(t, f)
            /\ f[current.start] = [log |-> current.contents, index |-> current.entries]
            /\ \A o \in Offset \ {current.start} : f[o] = disk[o]
            /\ s \in Segment /\ s.start = current.start /\ s.next = v.start
            /\ s.entries = current.entries /\ s.position = Len(current.contents)
            /\ v \in VirtualSegment /\ v.start = current.start + current.next
            /\ v = NewVirtual(v.start) /\ 0 < current.next
            /\ Len(t) = Len(segments) + 1
            /\ \A segs \in Reloaded(f) : segs = t
<1> DEFINE f == Flush(disk, current)
           s == LoadSegment(f, current.start)
           t == Append(segments, s)
           v == Successor(current)
<1>1. /\ TypeOK /\ OffsetsConsecutive /\ Len(accepted) < MaxAppends
      /\ current \in VirtualSegment /\ segments \in Seq(Segment)
      /\ disk \in [Offset -> Files]
      /\ current.start + current.next = Len(accepted)
      /\ Chain(segments, current.start) /\ Mirror(segments, disk)
      /\ current.next = Len(current.entries)
  BY DEF LifeInv, TypeOK, Storable, OffsetsConsecutive, End
<1>2. current.start + current.next \in Offset
  <2>1. Len(accepted) \in Nat
    BY <1>1 DEF TypeOK
  <2> QED BY <1>1, <2>1, SegmentsAssumption, CommitlogAssumption DEF Offset
<1>3. 0 < current.next
  <2>1. current.contents \in Seq(Byte) /\ current.entries \in Seq(Entry)
    BY <1>1 DEF VirtualSegment
  <2>2. m \in Seq(Byte) /\ Len(m) <= MaxSegmentBytes
    BY SegmentsAssumption DEF Storable
  <2>3. current.contents # <<>>
    BY <2>1, <2>2, SegmentsAssumption DEF Fits
  <2>4. current.entries # <<>>
    BY <2>3 DEF LifeInv
  <2> QED BY <1>1, <2>1, <2>4
<1>4. /\ f \in [Offset -> Files]
      /\ t \in Seq(Segment)
      /\ Chain(t, current.start + current.next)
      /\ Mirror(t, f)
      /\ SetToSeqs(Pairs(f) \ {segments[i].start : i \in DOMAIN segments})
           = {<<current.start>>}
      /\ f[current.start] = [log |-> current.contents, index |-> current.entries]
      /\ \A o \in Offset \ {current.start} : f[o] = disk[o]
      /\ s \in Segment /\ s.start = current.start /\ s.next = current.start + current.next
      /\ s.entries = current.entries /\ s.position = Len(current.contents)
  BY <1>1, <1>2, <1>3, FlushedReload
<1>5. ASSUME NEW segs \in Reloaded(f) PROVE segs = t
  <2>1. segs = segments \o [i \in DOMAIN <<current.start>> |->
                             LoadSegment(f, <<current.start>>[i])]
    BY <1>4, ReloadedOnce
  <2>2. ASSUME NEW x PROVE [i \in DOMAIN <<x>> |-> LoadSegment(f, <<x>>[i])]
                            = <<LoadSegment(f, x)>>
    OBVIOUS
  <2>3. s \in Segment
    BY <1>4
  <2>4. segs = segments \o <<s>>
    BY <2>1, <2>2
  <2> HIDE DEF s
  <2> QED BY <1>1, <2>3, <2>4
<1>6. Len(t) = Len(segments) + 1
  <2> HIDE DEF s
  <2>1. QED BY <1>1, <1>4, AppendProperties
<1>7. /\ v \in VirtualSegment /\ v.start = current.start + current.next
      /\ v = NewVirtual(v.start)
  <2>1. 0 \in Offset
    BY SegmentsAssumption DEF Offset
  <2> QED BY <1>2, <2>1, WrapsNot DEF Successor, NewVirtual, VirtualSegment
<1> HIDE DEF f, t, s, v
<1>8. Chain(t, v.start) /\ s.next = v.start
  BY <1>4, <1>7
<1> QED BY <1>3, <1>4, <1>5, <1>6, <1>7, <1>8 DEF f, t, s, v

\* The store that follows.
LEMMA Splits ==
  ASSUME MaxAppends < OffsetSpan, LifeInv, NEW m \in Messages, Storable(m),
         NEW n, SplitLeaving(m, n)
  PROVE  LET f == Flush(disk, current)
             s == LoadSegment(f, current.start)
             t == Append(segments, s)
             v == Successor(current)
         IN /\ f \in [Offset -> Files] /\ t \in Seq(Segment)
            /\ Chain(t, v.start) /\ Mirror(t, f)
            /\ f[current.start] = [log |-> current.contents, index |-> current.entries]
            /\ \A o \in Offset \ {current.start} : f[o] = disk[o]
            /\ s \in Segment /\ s.start = current.start /\ s.next = v.start
            /\ s.entries = current.entries /\ s.position = Len(current.contents)
            /\ v \in VirtualSegment /\ v.start = current.start + current.next
            /\ v = NewVirtual(v.start) /\ 0 < current.next
            /\ Len(t) = Len(segments) + 1
            /\ StoreLeaving(v, m, t, f, n)
<1> DEFINE f == Flush(disk, current)
           s == LoadSegment(f, current.start)
           t == Append(segments, s)
           v == Successor(current)
<1>1. PICK segs \in Reloaded(f) : StoreLeaving(v, m, segs, f, n)
  BY DEF SplitLeaving
<1>2. ~Fits(current, m)
  BY DEF SplitLeaving
<1>3. segs = t
  BY <1>2, SplitMakes
<1>4. StoreLeaving(v, m, t, f, n)
  BY <1>1, <1>3
<1> QED BY <1>2, <1>4, SplitMakes

\* Its invariant.
LEMMA SplitKeeps ==
  ASSUME MaxAppends < OffsetSpan, LifeInv, NEW m \in Messages, Storable(m),
         NEW n \in 0 .. Len(segments), SplitLeaving(m, n)
  PROVE  LifeInv'
<1> DEFINE f == Flush(disk, current)
           s == LoadSegment(f, current.start)
           t == Append(segments, s)
           v == Successor(current)
<1>1. /\ TypeOK /\ OffsetsConsecutive /\ Len(accepted) < MaxAppends
      /\ current.start + current.next = Len(accepted)
  BY DEF LifeInv, TypeOK, Storable, OffsetsConsecutive, End
<1>2. /\ f \in [Offset -> Files] /\ t \in Seq(Segment)
      /\ Chain(t, v.start) /\ Mirror(t, f)
      /\ v \in VirtualSegment /\ v.start = current.start + current.next
      /\ v = NewVirtual(v.start) /\ Len(t) = Len(segments) + 1
      /\ StoreLeaving(v, m, t, f, n)
  BY Splits
<1> HIDE DEF f, t, v
<1>4. n \in 0 .. Len(t)
  BY <1>2
<1>3. v.next = Len(v.entries) /\ v.start + v.next = Len(accepted)
  <2>1. Len(accepted) \in Nat
    BY <1>1 DEF TypeOK
  <2>2. v.next = 0 /\ v.entries = <<>>
    BY <1>2 DEF NewVirtual
  <2> QED BY <1>1, <1>2, <2>1, <2>2
<1> QED BY <1>1, <1>2, <1>3, <1>4, StoreKeeps

\* A cleaning that works removes what exceeds the retention.
LEMMA StoreLeaves ==
  ASSUME NEW v, NEW m, NEW segs \in Seq(Segment), NEW files, Store(v, m, segs, files)
  PROVE  /\ StoreLeaving(v, m, segs, files, Excess(segs))
         /\ Excess(segs) \in 0 .. Len(segs) /\ (segs # <<>> => Excess(segs) < Len(segs))
<1>1. /\ Excess(segs) \in 0 .. Len(segs) /\ (segs # <<>> => Excess(segs) < Len(segs))
      /\ Retained(segs) = SubSeq(segs, Excess(segs) + 1, Len(segs))
  BY RetainedIs
<1> QED BY <1>1 DEF Store, StoreLeaving, Cleaned, Oldest, Newest

\* So an append is one that removes some of the oldest segments and not the last.
LEMMA AppendLeaves ==
  ASSUME MaxAppends < OffsetSpan, LifeInv, NEW m \in Messages, AppendMessage(m)
  PROVE  AppendLeaving(m)
<1>1. Storable(m) /\ segments \in Seq(Segment) /\ Len(segments) \in Nat
  BY DEF AppendMessage, LifeInv, TypeOK
<1>2. CASE AppendInPlace(m)
  <2> DEFINE n == Excess(segments)
  <2>1. Fits(current, m) /\ Store(current, m, segments, disk)
    BY <1>2 DEF AppendInPlace
  <2>2. /\ StoreLeaving(current, m, segments, disk, n) /\ n \in 0 .. Len(segments)
        /\ (segments # <<>> => n < Len(segments))
    BY <1>1, <2>1, StoreLeaves
  <2> HIDE DEF n
  <2>3. n = 0 \/ n < Len(segments)
    BY <1>1, <2>2
  <2>4. PlaceLeaving(m, n)
    BY <2>1, <2>2 DEF PlaceLeaving
  <2> QED BY <1>1, <2>2, <2>3, <2>4 DEF AppendLeaving
<1>3. CASE AppendAfterSplit(m)
  <2> DEFINE f == Flush(disk, current)
             t == Append(segments, LoadSegment(f, current.start))
             n == Excess(t)
  <2>1. ~Fits(current, m)
    BY <1>3 DEF AppendAfterSplit
  <2>2. PICK segs \in Reloaded(f) : Store(Successor(current), m, segs, f)
    BY <1>3 DEF AppendAfterSplit
  <2>3. segs = t /\ t \in Seq(Segment) /\ Len(t) = Len(segments) + 1
    BY <1>1, <2>1, SplitMakes
  <2> HIDE DEF t, f
  <2>4. t # <<>>
    BY <1>1, <2>3
  <2>5. StoreLeaving(Successor(current), m, t, f, n) /\ n \in 0 .. Len(t) /\ n < Len(t)
    BY <2>2, <2>3, <2>4, StoreLeaves
  <2> HIDE DEF n
  <2>6. n \in 0 .. Len(segments)
    BY <1>1, <2>3, <2>5
  <2>7. SplitLeaving(m, n)
    BY <2>1, <2>2, <2>3, <2>5 DEF SplitLeaving, f
  <2> QED BY <1>1, <2>6, <2>7 DEF AppendLeaving
<1> QED BY <1>2, <1>3 DEF AppendMessage

\* Appends keep the invariant, whatever their cleanings leave.
LEMMA LeavingKeeps ==
  ASSUME MaxAppends < OffsetSpan, LifeInv, NEW m \in Messages, AppendLeaving(m)
  PROVE  LifeInv'
  BY InPlaceKeeps, SplitKeeps DEF AppendLeaving

\* One case per operation, and the stuttering step.
LEMMA LifeStep ==
  ASSUME MaxAppends < OffsetSpan, LifeInv, [Operate]_vars PROVE LifeInv'
<1>1. CASE \E m \in Messages : AppendMessage(m)
  BY <1>1, AppendLeaves, LeavingKeeps
<1>2. CASE \E o \in Offset : Read(o)
  BY <1>2, ReadKeeps
<1>3. CASE UNCHANGED vars
  BY <1>3 DEF vars, LifeInv, TypeOK, Chain, Mirror, OffsetsConsecutive, End
<1>4. CASE Reload
  BY <1>3, <1>4, ReloadKeeps
<1> QED BY <1>1, <1>2, <1>3, <1>4 DEF Operate

\* The inductive invariant holds in every state of a life of the log.
LEMMA LifeInvariant ==
  ASSUME MaxAppends < OffsetSpan PROVE LifeSpec => []LifeInv
<1>1. Init => LifeInv
  BY LifeStarts
<1>2. LifeInv /\ [Operate]_vars => LifeInv'
  BY LifeStep
<1> QED BY <1>1, <1>2, PTL DEF LifeSpec

-----------------------------------------------------------------------------
(* The theorems.  All assume that the log appends fewer messages than a u16 *)
(* counts: the offset of one that does not wraps, and so do its segments.   *)

\* Every variable keeps its type: no offset, position or index entry leaves
\* the range that the code's integers and the segments have.
THEOREM LifeTypes ==
  ASSUME MaxAppends < OffsetSpan PROVE LifeSpec => []TypeOK
<1>1. LifeInv => TypeOK
  BY DEF LifeInv
<1> QED BY <1>1, LifeInvariant, PTL

\* Whatever splits, reloads and cleanings do, the segments partition the offsets
\* from the oldest retained one to the one the next append returns.
THEOREM LifeContiguous ==
  ASSUME MaxAppends < OffsetSpan PROVE LifeSpec => []Contiguous
<1>1. LifeInv => Contiguous
  BY DEF LifeInv, Contiguous, Chain
<1> QED BY <1>1, LifeInvariant, PTL

\* The loaded segments and the files of the directory never disagree.
THEOREM LifeMirrorsFiles ==
  ASSUME MaxAppends < OffsetSpan PROVE LifeSpec => []SegmentsMirrorFiles
<1>1. LifeInv => SegmentsMirrorFiles
  BY DEF LifeInv, Mirror, SegmentsMirrorFiles
<1> QED BY <1>1, LifeInvariant, PTL

\* append returns consecutive offsets, across splits and cleanings.
THEOREM LifeOffsets ==
  ASSUME MaxAppends < OffsetSpan PROVE LifeSpec => []OffsetsConsecutive
<1>1. LifeInv => OffsetsConsecutive
  BY DEF LifeInv
<1> QED BY <1>1, LifeInvariant, PTL

-----------------------------------------------------------------------------
\* Each entry starts where the one before ends, and describes its message.
Tiled(start, entries, log) ==
  \A k \in DOMAIN entries :
    /\ entries[k].start = IF k = 1 THEN 0 ELSE entries[k - 1].start + entries[k - 1].total
    /\ entries[k].total = Len(log[start + k].data)

\* Where the next entry starts.
EntriesEnd(entries) ==
  IF entries = <<>> THEN 0
  ELSE entries[Len(entries)].start + entries[Len(entries)].total

\* The invariant: what the first part shows of the chain of segments, with the
\* entries tiled and the byte count of the segment in memory at their end.  That
\* segment starts at 0 unless there is a flushed one before it.
LogInv ==
  /\ LifeInv
  /\ EntriesDescribeMessages
  /\ current.position = EntriesEnd(current.entries)
  /\ segments = <<>> => current.start = 0

\* The cleaner makes no segments.
LEMMA SuffixFrom ==
  ASSUME NEW segs \in Seq(Segment), NEW k \in 0 .. Len(segs)
  PROVE  LET t == Newest(segs, k)
         IN /\ t \in Seq(Segment)
            /\ \A i \in DOMAIN t : \E j \in DOMAIN segs : t[i] = segs[j]
<1> DEFINE t == SubSeq(segs, k + 1, Len(segs))
<1>1. t \in Seq(Segment) /\ Len(t) = Len(segs) - k /\ \A i \in 1 .. Len(segs) - k : t[i] = segs[k + i]
  BY Suffix
<1> HIDE DEF t
<1>2. \A i \in DOMAIN t : k + i \in DOMAIN segs /\ t[i] = segs[k + i]
  BY <1>1
<1>3. QED BY <1>1, <1>2 DEF Newest, t

\* Messages appended later change nothing for the entries there are.
LEMMA TiledGrows ==
  ASSUME NEW start \in Nat, NEW entries \in Seq(Entry), NEW log, NEW more,
         start + Len(entries) <= Len(log), Len(log) \in Nat, \A i \in 1 .. Len(log) : more[i] = log[i],
         Tiled(start, entries, log)
  PROVE  Tiled(start, entries, more)
<1>1. \A k \in DOMAIN entries : start + k \in 1 .. Len(log)
  OBVIOUS
<1>2. QED BY <1>1 DEF Tiled

\* An entry added at the end, as long as its message, continues the tiling.
LEMMA TiledAppend ==
  ASSUME NEW start \in Nat, NEW entries \in Seq(Entry), NEW log, NEW n \in Nat,
         Tiled(start, entries, log), n = Len(log[start + (Len(entries) + 1)].data)
  PROVE  LET more == AddEntry(entries, EntriesEnd(entries), n)
         IN  Tiled(start, more, log) /\ EntriesEnd(more) = EntriesEnd(entries) + n
<1> DEFINE e == [start |-> EntriesEnd(entries), total |-> n]
           more == Append(entries, e)
           l == Len(entries)
<1>1. EntriesEnd(entries) \in Nat
  <2>1. CASE entries = <<>>
    BY <2>1 DEF EntriesEnd
  <2>2. CASE entries # <<>>
    <3>1. Len(entries) # 0 /\ Len(entries) \in Nat
      BY <2>2, EmptySeq
    <3>2. entries[Len(entries)] \in Entry
      BY <3>1
    <3>3. QED BY <2>2, <3>2 DEF EntriesEnd, Entry
  <2>3. QED BY <2>1, <2>2
<1>2. e \in Entry
  BY <1>1 DEF Entry
<1>3. e.start = EntriesEnd(entries) /\ e.total = n
  OBVIOUS
<1> HIDE DEF e
<1>4. /\ more \in Seq(Entry) /\ Len(more) = l + 1 /\ more[l + 1] = e
      /\ \A k \in 1 .. l : more[k] = entries[k]
      /\ more # <<>> /\ l \in Nat
  BY <1>2, AppendProperties
<1> HIDE DEF more
<1>5. ASSUME NEW k \in DOMAIN more
      PROVE  /\ more[k].start = IF k = 1 THEN 0 ELSE more[k - 1].start + more[k - 1].total
             /\ more[k].total = Len(log[start + k].data)
  <2>1. k \in 1 .. l + 1
    BY <1>4
  <2>2. CASE k # l + 1
    <3>1. k \in 1 .. l /\ k \in DOMAIN entries /\ (k # 1 => k - 1 \in 1 .. l)
      BY <1>4, <2>1, <2>2
    <3>2. /\ entries[k].start = IF k = 1 THEN 0 ELSE entries[k - 1].start + entries[k - 1].total
          /\ entries[k].total = Len(log[start + k].data)
      BY <3>1 DEF Tiled
    <3>3. QED BY <1>4, <3>1, <3>2
  <2>3. CASE k = l + 1
    <3>1. more[k].total = Len(log[start + k].data)
      BY <1>3, <1>4, <2>3
    <3>2. CASE entries = <<>>
      <4>1. l = 0
        BY <3>2
      <4>2. QED BY <1>3, <1>4, <2>3, <3>1, <3>2, <4>1 DEF EntriesEnd
    <3>3. CASE entries # <<>>
      <4>1. l # 0
        BY <3>3, EmptySeq
      <4>2. k # 1 /\ k - 1 = l /\ l \in 1 .. l
        BY <1>4, <2>3, <4>1
      <4>3. more[k - 1] = entries[l]
        BY <1>4, <4>2
      <4>4. QED BY <1>3, <1>4, <2>3, <3>1, <3>3, <4>2, <4>3 DEF EntriesEnd
    <3>4. QED BY <3>2, <3>3
  <2>4. QED BY <2>2, <2>3
<1>6. Tiled(start, more, log)
  BY <1>5 DEF Tiled
<1>7. EntriesEnd(more) = EntriesEnd(entries) + n
  BY <1>3, <1>4 DEF EntriesEnd
<1>8. QED BY <1>6, <1>7 DEF AddEntry, e, more

\* A write to v on top of the segments segs.
LEMMA StoreDescribes ==
  ASSUME TypeOK, LifeInv', NEW v \in VirtualSegment, NEW m \in Messages,
         NEW segs \in Seq(Segment), NEW files,
         Chain(segs, v.start), v.next = Len(v.entries), v.start + v.next = Len(accepted),
         Tiled(v.start, v.entries, accepted), v.position = EntriesEnd(v.entries),
         \A i \in DOMAIN segs : Tiled(segs[i].start, segs[i].entries, accepted),
         segs = <<>> => v.start = 0,
         NEW c \in 0 .. Len(segs), segs # <<>> => c < Len(segs),
         StoreLeaving(v, m, segs, files, c)
  PROVE  LogInv'
<1> DEFINE r == [offset |-> U16(v.start + v.next), data |-> m]
           n == Len(accepted)
<1>1. /\ current' = Write(v, m) /\ accepted' = Append(accepted, r)
      /\ segments' = Newest(segs, c)
  BY DEF StoreLeaving
<1>2. /\ v.start \in Nat /\ v.next \in Nat /\ v.entries \in Seq(Entry) /\ v.position \in Nat
      /\ n \in Nat /\ accepted \in Seq([offset : Offset, data : Messages])
      /\ m \in Seq(Byte) /\ Len(m) \in Nat
  <2>1. m \in Seq(Byte)
    BY SegmentsAssumption
  <2>2. v.start \in Nat /\ v.next \in Nat /\ v.entries \in Seq(Entry) /\ v.position \in Nat
    BY SegmentsAssumption DEF VirtualSegment, Offset
  <2>3. QED BY <2>1, <2>2 DEF TypeOK
<1>3. /\ Len(accepted') = n + 1 /\ accepted'[n + 1].data = m
      /\ \A i \in 1 .. n : accepted'[i] = accepted[i]
  <2>1. r \in [offset : Offset, data : Messages] /\ r.data = m
    BY <1>2, WrapsInto
  <2> HIDE DEF r
  <2>2. QED BY <1>1, <1>2, <2>1, AppendProperties
<1> HIDE DEF r, n
<1>4. ASSUME NEW i \in DOMAIN segs
      PROVE  Tiled(segs[i].start, segs[i].entries, accepted')
  <2>1. segs[i] \in Segment
    OBVIOUS
  <2>2. segs[i].start \in Nat /\ segs[i].next \in Nat /\ segs[i].entries \in Seq(Entry)
    BY <2>1, SegmentNats DEF Segment
  <2>3. Len(segs[i].entries) = segs[i].next - segs[i].start /\ segs[i].next <= v.start
    BY DEF Chain
  <2>4. segs[i].start + Len(segs[i].entries) <= n
    <3> DEFINE a == segs[i].start
               b == segs[i].next
               l == Len(segs[i].entries)
    <3>1. /\ a \in Nat /\ b \in Nat /\ l = b - a /\ b <= v.start
          /\ v.start \in Nat /\ v.next \in Nat /\ v.start + v.next = n
      BY <1>2, <2>2, <2>3 DEF n
    <3> HIDE DEF a, b, l
    <3>2. a + l <= n
      BY <3>1
    <3>3. QED BY <3>2 DEF a, l
  <2>5. QED BY <1>2, <1>3, <2>2, <2>4, TiledGrows DEF n
<1>5. /\ Tiled(v.start, current'.entries, accepted') /\ current'.start = v.start
      /\ current'.position = EntriesEnd(current'.entries)
  <2>1. /\ current'.entries = AddEntry(v.entries, EntriesEnd(v.entries), Len(m))
        /\ current'.start = v.start /\ current'.position = EntriesEnd(v.entries) + Len(m)
    BY <1>1 DEF Write
  <2>2. Tiled(v.start, v.entries, accepted')
    <3>1. v.start + Len(v.entries) <= n
      BY <1>2 DEF n
    <3>2. QED BY <1>2, <1>3, <3>1, TiledGrows DEF n
  <2>3. Len(m) = Len(accepted'[v.start + (Len(v.entries) + 1)].data)
    <3> DEFINE a == v.start
               l == Len(v.entries)
    <3>0. a \in Nat /\ l \in Nat /\ n \in Nat /\ a + l = n
      BY <1>2 DEF n
    <3> HIDE DEF a, l, n
    <3>1. a + (l + 1) = n + 1
      BY <3>0
    <3>2. QED BY <1>3, <3>1 DEF a, l
  <2>4. v.start \in Nat /\ v.entries \in Seq(Entry) /\ Len(m) \in Nat
    BY <1>2
  <2> DEFINE more == AddEntry(v.entries, EntriesEnd(v.entries), Len(m))
  <2>5. Tiled(v.start, more, accepted') /\ EntriesEnd(more) = EntriesEnd(v.entries) + Len(m)
    BY <2>2, <2>3, <2>4, TiledAppend, Zenon
  <2> HIDE DEF more
  <2>6. current'.entries = more
    BY <2>1 DEF more
  <2>7. QED BY <2>1, <2>5, <2>6
<1>6. EntriesDescribeMessages'
  <2>1. ASSUME NEW i \in DOMAIN segments'
        PROVE  Tiled(segments'[i].start, segments'[i].entries, accepted')
    <3>1. PICK j \in DOMAIN segs : segments'[i] = segs[j]
      BY <1>1, <2>1, SuffixFrom
    <3>2. QED BY <1>4, <3>1
  <2>2. QED BY <1>5, <2>1 DEF EntriesDescribeMessages, Tiles, Tiled
<1>7. segments' = <<>> => segs = <<>>
  <2>1. Len(segments') = Len(segs) - c
    BY <1>1, Suffix DEF Newest
  <2>2. segments' = <<>> => Len(segments') = 0
    OBVIOUS
  <2>3. QED BY <2>1, <2>2
<1>8. QED BY <1>5, <1>6, <1>7 DEF LogInv

\* An append to the segment in memory keeps the invariant.
LEMMA InPlaceDescribes ==
  ASSUME MaxAppends < OffsetSpan, LogInv, NEW m \in Messages, Storable(m),
         NEW n \in 0 .. Len(segments), n = 0 \/ n < Len(segments), PlaceLeaving(m, n)
  PROVE  LogInv'
<1>1. LifeInv'
  BY InPlaceKeeps DEF LogInv
<1>2. /\ TypeOK /\ current \in VirtualSegment /\ segments \in Seq(Segment)
      /\ Chain(segments, current.start) /\ current.next = Len(current.entries)
      /\ current.start + current.next = Len(accepted)
  BY DEF LogInv, LifeInv, TypeOK, OffsetsConsecutive, End
<1>3. /\ Tiled(current.start, current.entries, accepted)
      /\ \A i \in DOMAIN segments : Tiled(segments[i].start, segments[i].entries, accepted)
      /\ current.position = EntriesEnd(current.entries)
      /\ segments = <<>> => current.start = 0
  BY DEF LogInv, EntriesDescribeMessages, Tiles, Tiled
<1>4. StoreLeaving(current, m, segments, disk, n)
  BY DEF PlaceLeaving
<1>5. segments # <<>> => n < Len(segments)
  BY <1>2, EmptySeq
<1>6. QED BY <1>1, <1>2, <1>3, <1>4, <1>5, StoreDescribes

\* An append that splits does: the flushed segment keeps its entries, the new one
\* starts with none.
LEMMA SplitDescribes ==
  ASSUME MaxAppends < OffsetSpan, LogInv, NEW m \in Messages, Storable(m),
         NEW n \in 0 .. Len(segments), SplitLeaving(m, n)
  PROVE  LogInv'
<1> DEFINE f == Flush(disk, current)
           s == LoadSegment(f, current.start)
           t == Append(segments, s)
           v == Successor(current)
<1>1. LifeInv' /\ LifeInv
  BY SplitKeeps DEF LogInv
<1>2. /\ TypeOK /\ current \in VirtualSegment /\ segments \in Seq(Segment)
      /\ current.start + current.next = Len(accepted) /\ current.start \in Nat
      /\ current.next \in Nat
  <2>1. TypeOK /\ current.start + current.next = Len(accepted)
    BY <1>1 DEF LifeInv, OffsetsConsecutive, End
  <2>2. current \in VirtualSegment /\ segments \in Seq(Segment)
    BY <2>1 DEF TypeOK
  <2>3. current.start \in Nat /\ current.next \in Nat
    BY <2>2, SegmentsAssumption DEF VirtualSegment, Offset
  <2>4. QED BY <2>1, <2>2, <2>3
<1>3. /\ t \in Seq(Segment) /\ Chain(t, v.start)
      /\ s \in Segment /\ s.start = current.start /\ s.next = v.start
      /\ s.entries = current.entries
      /\ v \in VirtualSegment /\ v.start = current.start + current.next
      /\ v = NewVirtual(v.start) /\ 0 < current.next
      /\ StoreLeaving(v, m, t, f, n)
  BY <1>1, Splits
<1>4. /\ Tiled(current.start, current.entries, accepted)
      /\ \A i \in DOMAIN segments : Tiled(segments[i].start, segments[i].entries, accepted)
  BY DEF LogInv, EntriesDescribeMessages, Tiles, Tiled
<1> HIDE DEF f, s, v
<1>5. /\ Len(t) = Len(segments) + 1 /\ t[Len(segments) + 1] = s
      /\ \A i \in 1 .. Len(segments) : t[i] = segments[i]
      /\ Len(segments) \in Nat /\ t # <<>>
  BY <1>2, <1>3, AppendProperties
<1>6. n \in 0 .. Len(t) /\ n < Len(t)
  BY <1>5
<1> HIDE DEF t
<1>7. \A i \in DOMAIN t : Tiled(t[i].start, t[i].entries, accepted)
  <2>1. DOMAIN t = 1 .. Len(segments) + 1 /\ DOMAIN segments = 1 .. Len(segments)
    BY <1>2, <1>3, <1>5
  <2>2. \A i \in 1 .. Len(segments) + 1 : i = Len(segments) + 1 \/ i \in 1 .. Len(segments)
    BY <1>5
  <2>3. QED BY <1>3, <1>4, <1>5, <2>1, <2>2
<1>8. v.next = 0 /\ v.entries = <<>> /\ v.position = 0
  BY <1>3 DEF NewVirtual
<1>9. /\ v.next = Len(v.entries) /\ v.start + v.next = Len(accepted)
      /\ Tiled(v.start, v.entries, accepted) /\ v.position = EntriesEnd(v.entries)
  <2>1. v.start + 0 = v.start /\ v.start \in Nat /\ Len(<<>>) = 0
    BY <1>2, <1>3
  <2>2. QED BY <1>2, <1>3, <1>8, <2>1 DEF Tiled, EntriesEnd
<1>10. QED BY <1>1, <1>2, <1>3, <1>5, <1>6, <1>7, <1>9, StoreDescribes

\* Appends keep the invariant, whatever their cleanings leave.
LEMMA LeavingDescribes ==
  ASSUME MaxAppends < OffsetSpan, LogInv, NEW m \in Messages, AppendLeaving(m)
  PROVE  LogInv'
  BY InPlaceDescribes, SplitDescribes DEF AppendLeaving

\* A cursor that moves leaves what the entries describe.
LEMMA CursorKeepsLog ==
  ASSUME LogInv, NEW c \in Nat, current' = [current EXCEPT !.cursor = c],
         UNCHANGED <<up, segments, disk, accepted, crashes>>
  PROVE  LogInv'
<1>1. LifeInv' /\ current \in VirtualSegment
  BY CursorKeeps DEF LogInv, LifeInv, TypeOK
<1>2. /\ current'.start = current.start /\ current'.position = current.position
      /\ current'.entries = current.entries
  BY <1>1 DEF VirtualSegment
<1>3. Tiles(current)' /\ \A i \in DOMAIN segments : Tiles(segments[i])'
  BY <1>2 DEF LogInv, EntriesDescribeMessages, Tiles
<1>4. EntriesDescribeMessages'
  BY <1>3 DEF EntriesDescribeMessages
<1>5. QED BY <1>1, <1>2, <1>4 DEF LogInv

\* What a read does is to move the cursor to a place in the contents.
LEMMA ReadMoves ==
  ASSUME LifeInv, NEW o \in Offset, Read(o)
  PROVE  /\ \E c \in Nat : current' = [current EXCEPT !.cursor = c]
         /\ UNCHANGED <<up, segments, disk, accepted, crashes>>
<1>1. PICK c \in IF current.start <= o THEN CursorsAfter(current, o - current.start)
                 ELSE {current.cursor} :
        current' = [current EXCEPT !.cursor = c]
  BY DEF Read
<1>2. LifeInv' /\ current \in VirtualSegment
  BY ReadKeeps DEF LifeInv, TypeOK
<1>3. current'.cursor \in Nat
  BY <1>2 DEF LifeInv, TypeOK, VirtualSegment
<1>4. current'.cursor = c
  BY <1>1, <1>2 DEF VirtualSegment
<1>5. QED BY <1>1, <1>3, <1>4 DEF Read

\* A log opened on an empty directory.
LEMMA LogStarts == Init => LogInv
<1> SUFFICES ASSUME Init PROVE LogInv
  OBVIOUS
<1>1. current = NewVirtual(0) /\ segments = <<>>
  BY DEF Init
<1>2. /\ current.start = 0 /\ current.position = 0 /\ current.entries = <<>>
  BY <1>1 DEF NewVirtual
<1>3. EntriesDescribeMessages
  BY <1>1, <1>2 DEF EntriesDescribeMessages, Tiles
<1>4. QED BY <1>1, <1>2, <1>3, LifeStarts DEF LogInv, EntriesEnd

\* No operation disturbs the invariant.
LEMMA LogStep ==
  ASSUME MaxAppends < OffsetSpan, LogInv, [Operate]_vars PROVE LogInv'
<1>1. LifeInv
  BY DEF LogInv
<1>2. CASE \E m \in Messages : AppendMessage(m)
  BY <1>1, <1>2, AppendLeaves, LeavingDescribes
<1>3. CASE \E o \in Offset : Read(o)
  BY <1>1, <1>3, ReadMoves, CursorKeepsLog
<1>4. CASE UNCHANGED vars
  BY <1>1, <1>4, LifeStep DEF vars, LogInv, EntriesDescribeMessages, Tiles
<1>5. CASE Reload
  BY <1>1, <1>4, <1>5, ReloadKeeps
<1>6. QED BY <1>2, <1>3, <1>4, <1>5 DEF Operate

\* The invariant holds all through a life.
LEMMA LogInvariant ==
  ASSUME MaxAppends < OffsetSpan PROVE LifeSpec => []LogInv
<1>1. Init => LogInv
  BY LogStarts
<1>2. LogInv /\ [Operate]_vars => LogInv'
  BY LogStep
<1>3. QED BY <1>1, <1>2, PTL DEF LifeSpec

\* A store with a cleaning that works leaves the retention respected, unless the
\* segments were too few before.
LEMMA StoreRetains ==
  ASSUME NEW v, NEW m, NEW segs \in Seq(Segment), NEW files,
         segs # <<>> /\ segs[1].start > 0 => Bytes(segs) > RetentionBytes,
         Store(v, m, segs, files)
  PROVE  RetentionRespected'
<1> DEFINE k == Excess(segs)
<1>1. segments' = Retained(segs)
  BY DEF Store
<1>2. /\ k \in 0 .. Len(segs) /\ segments' = SubSeq(segs, k + 1, Len(segs))
      /\ segments' # <<>> => Bytes(Tail(segments')) <= RetentionBytes
      /\ k > 0 => Bytes(segments') > RetentionBytes
  BY <1>1, RetainedIs
<1> HIDE DEF k
<1>3. OldestOffset' > 0 => Bytes(segments') > RetentionBytes
  <2>1. CASE k > 0
    BY <1>2, <2>1
  <2>2. CASE k = 0
    <3>1. segments' = segs
      BY <1>2, <2>2
    <3>2. QED BY <3>1 DEF OldestOffset
  <2>3. QED BY <1>2, <2>1, <2>2
<1>4. QED BY <1>2, <1>3 DEF RetentionRespected

\* A log that has removed something exceeds its retention: a split only adds bytes.
LEMMA RetentionKept ==
  ASSUME MaxAppends < OffsetSpan, LogInv, RetentionRespected, [Operate]_vars
  PROVE  RetentionRespected'
<1>1. /\ LifeInv /\ segments \in Seq(Segment) /\ Len(segments) \in Nat
      /\ segments = <<>> => current.start = 0
      /\ segments # <<>> /\ segments[1].start > 0 => Bytes(segments) > RetentionBytes
  BY DEF LogInv, LifeInv, TypeOK, RetentionRespected, OldestOffset
<1>2. ASSUME NEW m \in Messages, Storable(m), AppendAfterSplit(m)
      PROVE  RetentionRespected'
  <2> DEFINE f == Flush(disk, current)
             s == LoadSegment(f, current.start)
             t == Append(segments, s)
  <2>1. ~Fits(current, m)
    BY <1>2 DEF AppendAfterSplit
  <2>2. PICK segs \in Reloaded(f) : Store(Successor(current), m, segs, f)
    BY <1>2 DEF AppendAfterSplit
  <2>3. segs = t /\ t \in Seq(Segment) /\ s \in Segment /\ s.start = current.start
    BY <1>1, <1>2, <2>1, SplitMakes
  <2> HIDE DEF f, s
  <2>4. /\ t[Len(segments) + 1] = s /\ \A i \in 1 .. Len(segments) : t[i] = segments[i]
    BY <1>1, <2>3, AppendProperties
  <2>5. Bytes(segments) <= Bytes(t) /\ Bytes(segments) \in Nat /\ Bytes(t) \in Nat
    BY <1>1, <2>3, BytesAppend
  <2> HIDE DEF t
  <2>6. t[1].start > 0 => Bytes(t) > RetentionBytes
    <3>1. CASE segments = <<>>
      <4>1. Len(segments) = 0
        BY <3>1
      <4>2. t[1] = s
        BY <2>4, <4>1
      <4>3. QED BY <1>1, <2>3, <3>1, <4>2
    <3>2. CASE segments # <<>>
      <4>1. 1 \in 1 .. Len(segments)
        BY <1>1, <3>2, EmptySeq
      <4>2. t[1] = segments[1]
        BY <2>4, <4>1
      <4>3. QED BY <1>1, <2>5, <3>2, <4>2, SegmentsAssumption
    <3>3. QED BY <3>1, <3>2
  <2>7. Store(Successor(current), m, t, f)
    BY <2>2, <2>3
  <2>8. QED BY <2>3, <2>6, <2>7, StoreRetains
<1>3. CASE \E m \in Messages : AppendMessage(m)
  BY <1>1, <1>2, <1>3, StoreRetains DEF AppendMessage, AppendInPlace
<1>4. CASE UNCHANGED segments
  BY <1>4 DEF RetentionRespected, OldestOffset
<1>5. CASE (\E o \in Offset : Read(o)) \/ UNCHANGED vars \/ Reload
  BY <1>1, <1>4, <1>5, ReloadKeeps DEF Read, vars
<1>6. QED BY <1>3, <1>5 DEF Operate

-----------------------------------------------------------------------------
\* The scan for an offset of the chain stops right after the segment that holds it.
LEMMA SegmentOf ==
  ASSUME NEW segs \in Seq(Segment), NEW end \in Nat, Chain(segs, end), segs # <<>>,
         NEW o \in Nat, segs[1].start <= o, o < end
  PROVE  \E i \in DOMAIN segs :
           /\ segs[i].start <= o /\ o < segs[i].next
           /\ {j \in DOMAIN segs : \A k \in 1 .. j : segs[k].start <= o} = 1 .. i
<1> DEFINE n == Len(segs)
           T == {j \in 1 .. n : o < segs[j].next}
<1>1. n \in Nat /\ n # 0 /\ DOMAIN segs = 1 .. n
  BY EmptySeq
<1>2. \A i \in 1 .. n : segs[i].start \in Nat /\ segs[i].next \in Nat
  <2>1. \A i \in 1 .. n : segs[i] \in Segment
    OBVIOUS
  <2>2. QED BY <2>1, SegmentNats
<1>3. /\ \A i \in 1 .. n : segs[i].start < segs[i].next
      /\ \A i \in 1 .. n : segs[i].next = IF i < n THEN segs[i + 1].start ELSE end
      /\ \A i, j \in 1 .. n : i < j => segs[i].next <= segs[j].start
  BY <1>1 DEF Chain
<1> HIDE DEF n
<1>4. PICK i \in T : \A j \in T : i <= j
  <2>1. n \in 1 .. n /\ ~(n < n)
    BY <1>1
  <2>2. n \in T
    BY <1>3, <2>1
  <2>3. T \in SUBSET Nat
    OBVIOUS
  <2>4. QED BY <2>2, <2>3, LeastNat
<1>5. i \in 1 .. n /\ o < segs[i].next
  BY <1>4
<1>6. segs[i].start <= o
  <2>1. CASE i = 1
    BY <2>1
  <2>2. CASE i # 1
    <3>1. i - 1 \in 1 .. n /\ ~(i <= i - 1) /\ i - 1 < n /\ (i - 1) + 1 = i
      BY <1>1, <1>5, <2>2
    <3>2. ~(o < segs[i - 1].next)
      BY <1>4, <3>1
    <3>3. segs[i - 1].next = segs[i].start
      BY <1>3, <3>1
    <3>4. QED BY <1>2, <1>5, <3>2, <3>3
  <2>3. QED BY <2>1, <2>2
<1>7. ASSUME NEW k \in 1 .. i
      PROVE  k \in 1 .. n /\ segs[k].start <= o
  <2>1. k \in 1 .. n /\ k \in Nat /\ i \in Nat
    BY <1>1, <1>5
  <2>2. CASE k = i
    BY <1>6, <2>1, <2>2
  <2>3. CASE k # i
    <3>1. k < i
      BY <2>1, <2>3
    <3>2. segs[k].start < segs[k].next /\ segs[k].next <= segs[i].start
      BY <1>3, <1>5, <2>1, <3>1
    <3>3. QED BY <1>2, <1>5, <1>6, <2>1, <3>2
  <2>4. QED BY <2>2, <2>3
<1>8. ASSUME NEW j \in 1 .. n, j \notin 1 .. i
      PROVE  ~(segs[j].start <= o)
  <2>1. i < j
    BY <1>1, <1>5, <1>8
  <2>2. segs[i].next <= segs[j].start
    BY <1>3, <1>5, <2>1
  <2>3. QED BY <1>2, <1>5, <2>2
<1>9. \A j \in 1 .. n : (\A k \in 1 .. j : segs[k].start <= o) <=> j \in 1 .. i
  <2>1. ASSUME NEW j \in 1 .. n, j \in 1 .. i
        PROVE  \A k \in 1 .. j : segs[k].start <= o
    <3>1. \A k \in 1 .. j : k \in 1 .. i
      BY <1>1, <1>5, <2>1
    <3>2. QED BY <1>7, <3>1
  <2>2. ASSUME NEW j \in 1 .. n, j \notin 1 .. i
        PROVE  ~ \A k \in 1 .. j : segs[k].start <= o
    <3>1. j \in 1 .. j
      BY <1>1
    <3>2. QED BY <1>8, <2>2, <3>1
  <2>3. QED BY <2>1, <2>2
<1>10. {j \in 1 .. n : \A k \in 1 .. j : segs[k].start <= o} = 1 .. i
  BY <1>7, <1>9
<1>11. QED BY <1>1, <1>5, <1>6, <1>10

\* A read of a flushed offset is of the file of the one segment that holds it.
LEMMA ReadsFlushed ==
  ASSUME LogInv, NEW o \in Nat, OldestOffset <= o, o < current.start
  PROVE  \E i \in DOMAIN segments :
           LET s == segments[i]
           IN /\ s.start <= o /\ o < s.next
              /\ (o - s.start) + 1 \in DOMAIN s.entries
              /\ ReadOutcome(o) = Extract(disk[s.start].log, s.entries[(o - s.start) + 1])
<1>1. /\ segments \in Seq(Segment) /\ Chain(segments, current.start)
      /\ current \in VirtualSegment
  BY DEF LogInv, LifeInv, TypeOK
<1>2. current.start \in Nat
  BY <1>1, SegmentsAssumption DEF VirtualSegment, Offset
<1>3. segments # <<>> /\ segments[1].start <= o
  BY <1>2 DEF LogInv, OldestOffset
<1>4. PICK i \in DOMAIN segments :
           /\ segments[i].start <= o /\ o < segments[i].next
           /\ {j \in DOMAIN segments : \A k \in 1 .. j : segments[k].start <= o} = 1 .. i
  BY <1>1, <1>2, <1>3, SegmentOf
<1> DEFINE s == segments[i]
           a == s.start
           l == Len(s.entries)
           n == o - a
<1>5. Located(o) = 1 .. i
  BY <1>4 DEF Located
<1>6. Max(1 .. i) = i /\ 1 .. i # {}
  <2>1. i \in Nat /\ i \in 1 .. i /\ 1 .. i \in SUBSET Nat /\ \A y \in 1 .. i : y <= i
    BY <1>1
  <2>2. QED BY <2>1, MaxIs
<1>7. s \in Segment
  BY <1>1
<1>8. /\ a \in Nat /\ s.next \in Nat /\ s.next \in Offset /\ s.entries \in Seq(Entry)
  BY <1>7, SegmentNats DEF Segment
<1>9. l = s.next - a /\ l \in Nat
  <2>1. l \in Nat
    BY <1>8
  <2>2. QED BY <1>1, <2>1 DEF Chain
<1>10. a <= o /\ o < s.next
  BY <1>4
<1>11. ~(current.start <= o)
  BY <1>2
<1>12. ReadOutcome(o) = SegmentReadAt(disk, s, o - a)
  BY <1>5, <1>6, <1>11 DEF ReadOutcome
<1> HIDE DEF s
<1>13. DOMAIN s.entries = 1 .. l
  BY <1>8
<1> HIDE DEF l, a
<1>14. n \in Nat /\ n < l /\ l \in Offset /\ n + 1 \in 1 .. l /\ (a = 0 => n = o)
  BY <1>8, <1>9, <1>10, SegmentsAssumption DEF Offset
<1>15. U16(s.next - s.start) = l
  BY <1>9, <1>14, WrapsNot DEF a
<1>16. ~(n >= l) /\ ~(a = 0 /\ n >= s.next)
  <2>1. ~(n >= l)
    BY <1>9, <1>14
  <2>2. o \in Nat /\ s.next \in Nat /\ o < s.next
    BY <1>8, <1>10
  <2>3. ~(o >= s.next)
    BY <2>2
  <2>4. QED BY <1>14, <2>1, <2>3
<1> HIDE DEF n
<1>17. ~BeyondSegment(s, n)
  BY <1>15, <1>16 DEF BeyondSegment, a
<1>18. SegmentReadAt(disk, s, n) = Extract(disk[s.start].log, s.entries[n + 1])
  BY <1>16, <1>17 DEF SegmentReadAt, l
<1>19. QED BY <1>10, <1>12, <1>13, <1>14, <1>18 DEF n, a, s

\* A read of an offset in memory is of the contents of the current segment.
LEMMA ReadsCurrent ==
  ASSUME MaxAppends < OffsetSpan, LifeInv, NEW o \in Nat, current.start <= o, o < End
  PROVE  /\ (o - current.start) + 1 \in DOMAIN current.entries
         /\ ReadOutcome(o) = Extract(current.contents, current.entries[(o - current.start) + 1])
<1> DEFINE a == current.start
           l == Len(current.entries)
           n == o - a
<1>1. current \in VirtualSegment /\ Len(accepted) <= MaxAppends /\ Len(accepted) \in Nat
  BY DEF LifeInv, TypeOK
<1>2. /\ a \in Nat /\ current.next = l /\ l \in Nat /\ a + l = Len(accepted)
      /\ current.entries \in Seq(Entry) /\ a <= o /\ o < a + l
  <2>1. current.entries \in Seq(Entry) /\ a \in Nat
    BY <1>1, SegmentsAssumption DEF VirtualSegment, Offset
  <2>2. l \in Nat
    BY <2>1
  <2>3. QED BY <2>1, <2>2 DEF LifeInv, OffsetsConsecutive, End
<1>3. DOMAIN current.entries = 1 .. l
  BY <1>2
<1> HIDE DEF a, l
<1>4. n \in Nat /\ n < l /\ n + 1 \in 1 .. l /\ ~(n >= l) /\ ~(n >= l + a) /\ l + a \in Offset
  BY <1>1, <1>2, SegmentsAssumption, CommitlogAssumption DEF Offset
<1>5. U16(current.next + current.start) = l + a
  BY <1>2, <1>4, WrapsNot DEF a
<1> HIDE DEF n
<1>6. ~BeyondVirtual(current, n)
  BY <1>2, <1>4, <1>5 DEF BeyondVirtual, a
<1>7. VirtualReadAt(current, n) = Extract(current.contents, current.entries[n + 1])
  BY <1>4, <1>6 DEF VirtualReadAt, l
<1>8. ReadOutcome(o) = VirtualReadAt(current, n)
  BY <1>2 DEF ReadOutcome, n, a
<1>9. QED BY <1>3, <1>4, <1>7, <1>8 DEF n, a

-----------------------------------------------------------------------------
\* Every index entry, of the segment in memory and of the files, starts where the
\* one before ends and is as long as the message appended under its offset.
THEOREM LifeDescribes ==
  ASSUME MaxAppends < OffsetSpan PROVE LifeSpec => []EntriesDescribeMessages
<1>1. LogInv => EntriesDescribeMessages
  BY DEF LogInv
<1>2. QED BY <1>1, LogInvariant, PTL

\* After every append the log exceeds its retention by at most its oldest segment,
\* and once something was removed it does exceed it.
THEOREM LifeRetention ==
  ASSUME MaxAppends < OffsetSpan PROVE LifeSpec => []RetentionRespected
<1>1. Init => RetentionRespected
  <2> SUFFICES ASSUME Init PROVE RetentionRespected
    OBVIOUS
  <2>1. segments = <<>>
    BY DEF Init
  <2>2. OldestOffset = 0
    BY <2>1 DEF OldestOffset
  <2>3. QED BY <2>1, <2>2 DEF RetentionRespected
<1>2. LogInv /\ RetentionRespected /\ [Operate]_vars => RetentionRespected'
  BY RetentionKept
<1>3. QED BY <1>1, <1>2, LogInvariant, PTL DEF LifeSpec

\* read_at never calls an offset out of bounds that append returned and the cleaner
\* has not removed.
THEOREM LifeNoHoles ==
  ASSUME MaxAppends < OffsetSpan PROVE LifeSpec => []NoHoles
<1>1. ASSUME LogInv
      PROVE  NoHoles
  <2> SUFFICES ASSUME NEW o \in OldestOffset .. End - 1
               PROVE  ReadOutcome(o).kind # "OutOfBounds"
    BY DEF NoHoles
  <2>1. LifeInv /\ current.start \in Nat /\ End \in Nat /\ OldestOffset \in Nat
    <3>1. LifeInv /\ TypeOK
      BY <1>1 DEF LogInv, LifeInv
    <3>2. current.start \in Nat /\ current.next \in Nat
      BY <3>1, SegmentsAssumption DEF TypeOK, VirtualSegment, Offset
    <3>3. segments # <<>> => segments[1] \in Segment
      BY <3>1, EmptySeq DEF TypeOK
    <3>4. QED BY <3>1, <3>2, <3>3, SegmentNats DEF End, OldestOffset
  <2>2. o \in Nat /\ OldestOffset <= o /\ o < End
    BY <2>1
  <2>3. \A bytes, entry : Extract(bytes, entry).kind # "OutOfBounds"
    BY DEF Extract, Found, Failed
  <2>4. CASE current.start <= o
    BY <2>1, <2>2, <2>3, <2>4, ReadsCurrent
  <2>5. CASE ~(current.start <= o)
    <3>1. o < current.start
      BY <2>1, <2>2, <2>5
    <3>2. QED BY <1>1, <2>2, <2>3, <3>1, ReadsFlushed
  <2>6. QED BY <2>4, <2>5
<1>2. QED BY <1>1, LogInvariant, PTL

-----------------------------------------------------------------------------
(* What is read of a flushed segment does not change.                       *)

\* ReadsFlushed in a form that can be used of the next state too.
FlushedAnswers ==
  LogInv =>
    \A o \in Nat : OldestOffset <= o /\ o < current.start =>
      \E i \in DOMAIN segments :
        /\ segments[i].start <= o /\ o < segments[i].next
        /\ ReadOutcome(o) = Extract(disk[segments[i].start].log,
                                    segments[i].entries[(o - segments[i].start) + 1])

\* It holds of a state,
LEMMA AnswersNow == FlushedAnswers
<1> SUFFICES ASSUME LogInv, NEW o \in Nat, OldestOffset <= o, o < current.start
             PROVE  \E i \in DOMAIN segments :
        /\ segments[i].start <= o /\ o < segments[i].next
        /\ ReadOutcome(o) = Extract(disk[segments[i].start].log,
                                    segments[i].entries[(o - segments[i].start) + 1])
  BY DEF FlushedAnswers
<1>1. QED BY ReadsFlushed

\* and of the next one.
LEMMA AnswersNext == FlushedAnswers'
<1>1. FlushedAnswers
  BY AnswersNow
<1>2. QED BY <1>1, PTL

\* Only one segment of a chain holds an offset.
LEMMA OneHolds ==
  ASSUME NEW segs \in Seq(Segment), NEW end, Chain(segs, end), NEW o \in Nat,
         NEW i \in DOMAIN segs, NEW j \in DOMAIN segs,
         segs[i].start <= o, o < segs[i].next, segs[j].start <= o, o < segs[j].next
  PROVE  i = j
<1>1. /\ segs[i].start \in Nat /\ segs[i].next \in Nat
      /\ segs[j].start \in Nat /\ segs[j].next \in Nat
  <2>1. segs[i] \in Segment /\ segs[j] \in Segment
    OBVIOUS
  <2>2. QED BY <2>1, SegmentNats
<1>2. i < j => segs[i].next <= segs[j].start
  BY DEF Chain
<1>3. j < i => segs[j].next <= segs[i].start
  BY DEF Chain
<1>4. i \in Nat /\ j \in Nat
  OBVIOUS
<1>5. ~(i < j) /\ ~(j < i)
  BY <1>1, <1>2, <1>3
<1>6. QED BY <1>4, <1>5

\* The segments that the cleaner keeps were there before it, with their files.
LEMMA FilesStay ==
  ASSUME LogInv', NEW segs \in Seq(Segment), NEW files,
         NEW c \in 0 .. Len(segs), segments' = Newest(segs, c),
         disk' = Delete(files, Oldest(segs, c)),
         NEW k \in DOMAIN segments'
  PROVE  \E j \in DOMAIN segs :
           /\ segments'[k] = segs[j]
           /\ disk'[segs[j].start] = files[segs[j].start]
<1>1. PICK j \in DOMAIN segs : segments'[k] = segs[j]
  BY SuffixFrom
<1>2. segs[j].start \in Pairs(disk')
  BY <1>1 DEF LogInv, LifeInv, Mirror
<1>3. disk'[segs[j].start].log # NoFile /\ segs[j].start \in Offset
  BY <1>2 DEF Pairs
<1>4. \/ disk'[segs[j].start] = Missing
      \/ disk'[segs[j].start] = files[segs[j].start]
  BY <1>3 DEF Delete
<1>5. Missing.log = NoFile
  BY DEF Missing
<1>6. QED BY <1>1, <1>3, <1>4, <1>5

\* A write and its cleaning change no read below the segment in memory, when the
\* segments before it are still there and their files are as they were.
LEMMA StoreStable ==
  ASSUME LogInv, LogInv', NEW segs \in Seq(Segment), NEW files, NEW end, Chain(segs, end),
         NEW c \in 0 .. Len(segs), segments' = Newest(segs, c),
         disk' = Delete(files, Oldest(segs, c)),
         \A i \in DOMAIN segments :
           /\ i \in DOMAIN segs /\ segs[i] = segments[i]
           /\ files[segments[i].start] = disk[segments[i].start],
         NEW o \in Nat, OldestOffset <= o, o < current.start,
         OldestOffset' <= o, o < current'.start
  PROVE  ReadOutcome(o)' = ReadOutcome(o)
<1>0. \A l \in DOMAIN segments' : \E j \in DOMAIN segs :
           /\ segments'[l] = segs[j]
           /\ disk'[segs[j].start] = files[segs[j].start]
  BY FilesStay
<1>1. PICK i \in DOMAIN segments :
        /\ segments[i].start <= o /\ o < segments[i].next
        /\ ReadOutcome(o) = Extract(disk[segments[i].start].log,
                                    segments[i].entries[(o - segments[i].start) + 1])
  BY AnswersNow DEF FlushedAnswers
<1>2. PICK k \in DOMAIN segments' :
        /\ segments'[k].start <= o /\ o < segments'[k].next
        /\ ReadOutcome(o)' = Extract(disk'[segments'[k].start].log,
                                     segments'[k].entries[(o - segments'[k].start) + 1])
  BY AnswersNext DEF FlushedAnswers
<1>3. PICK j \in DOMAIN segs :
           /\ segments'[k] = segs[j]
           /\ disk'[segs[j].start] = files[segs[j].start]
  BY <1>0
<1>4. i \in DOMAIN segs /\ segs[i] = segments[i]
  OBVIOUS
<1>5. i = j
  BY <1>1, <1>2, <1>3, <1>4, OneHolds
<1>6. segments'[k] = segments[i]
  BY <1>3, <1>4, <1>5
<1>7. disk'[segments[i].start] = disk[segments[i].start]
  BY <1>3, <1>4, <1>5
<1>8. QED BY <1>1, <1>2, <1>6, <1>7

\* No operation changes what a flushed offset reads as, while it is retained.
LEMMA ReadsStable ==
  ASSUME MaxAppends < OffsetSpan, LogInv, LogInv', [Operate]_vars,
         NEW o \in Nat, OldestOffset <= o, o < current.start, OldestOffset' <= o
  PROVE  ReadOutcome(o)' = ReadOutcome(o)
<1>1. LifeInv /\ TypeOK
  BY DEF LogInv, LifeInv
<1>2. /\ current \in VirtualSegment /\ segments \in Seq(Segment)
      /\ current.start \in Nat /\ current.next \in Nat /\ Chain(segments, current.start)
  BY <1>1, SegmentsAssumption DEF LifeInv, TypeOK, VirtualSegment, Offset
<1>3. CASE current'.start = current.start /\ UNCHANGED <<segments, disk>>
  <2>1. ~(current.start <= o)
    BY <1>2
  <2>2. Located(o)' = Located(o)
    BY <1>3 DEF Located
  <2>3. QED BY <1>3, <2>1, <2>2 DEF ReadOutcome
<1>4. ASSUME NEW m \in Messages, Storable(m), NEW n \in 0 .. Len(segments), PlaceLeaving(m, n)
      PROVE  ReadOutcome(o)' = ReadOutcome(o)
  <2>1. /\ segments' = Newest(segments, n)
        /\ disk' = Delete(disk, Oldest(segments, n))
        /\ current' = Write(current, m)
    BY <1>4 DEF PlaceLeaving, StoreLeaving
  <2>2. current'.start = current.start
    BY <2>1 DEF Write
  <2>3. QED BY <1>2, <2>1, <2>2, StoreStable
<1>5. ASSUME NEW m \in Messages, Storable(m), NEW n \in 0 .. Len(segments), SplitLeaving(m, n)
      PROVE  ReadOutcome(o)' = ReadOutcome(o)
  <2> DEFINE f == Flush(disk, current)
             s == LoadSegment(f, current.start)
             t == Append(segments, s)
             v == Successor(current)
  <2>1. /\ t \in Seq(Segment) /\ Chain(t, v.start)
        /\ \A p \in Offset \ {current.start} : f[p] = disk[p]
        /\ s \in Segment /\ v.start = current.start + current.next
        /\ Len(t) = Len(segments) + 1 /\ StoreLeaving(v, m, t, f, n)
    BY <1>1, <1>5, Splits
  <2> HIDE DEF s, v
  <2>2. \A i \in DOMAIN segments : i \in DOMAIN t /\ t[i] = segments[i]
    BY <1>2, <2>1, AppendProperties
  <2> HIDE DEF t
  <2>3. ASSUME NEW i \in DOMAIN segments
        PROVE  f[segments[i].start] = disk[segments[i].start]
    <3>1. segments[i].start \in Offset /\ segments[i].start < current.start
      BY <1>2, ChainStarts
    <3>2. segments[i].start # current.start
      BY <1>2, <3>1
    <3>3. QED BY <2>1, <3>1, <3>2
  <2> HIDE DEF f
  <2>4. /\ segments' = Newest(t, n) /\ n \in 0 .. Len(t)
        /\ disk' = Delete(f, Oldest(t, n)) /\ current' = Write(v, m)
    BY <1>2, <2>1 DEF StoreLeaving
  <2>5. current'.start = v.start
    BY <2>4 DEF Write
  <2>6. o < current'.start
    BY <1>2, <2>1, <2>5
  <2>7. QED BY <2>1, <2>2, <2>3, <2>4, <2>6, StoreStable
<1>6. CASE \E m \in Messages : AppendMessage(m)
  BY <1>1, <1>4, <1>5, <1>6, AppendLeaves DEF AppendLeaving
<1>7. CASE \E p \in Offset : Read(p)
  <2>1. /\ \E c \in Nat : current' = [current EXCEPT !.cursor = c]
        /\ UNCHANGED <<segments, disk>>
    BY <1>1, <1>7, ReadMoves
  <2>2. current'.start = current.start
    BY <1>2, <2>1 DEF VirtualSegment
  <2>3. QED BY <1>3, <2>1, <2>2
<1>8. CASE UNCHANGED vars
  BY <1>3, <1>8 DEF vars
<1>9. CASE Reload
  BY <1>1, <1>8, <1>9, ReloadKeeps
<1>10. QED BY <1>6, <1>7, <1>8, <1>9 DEF Operate

\* What a read answers for a flushed offset stays the same until its segment goes,
\* whatever is appended, split, read or cleaned meanwhile.
THEOREM LifeReadsStable ==
  ASSUME MaxAppends < OffsetSpan PROVE LifeSpec => FlushedReadsStable
<1> DEFINE A == \A o \in OldestOffset .. current.start - 1 :
                  o >= OldestOffset' => ReadOutcome(o)' = ReadOutcome(o)
<1>1. ASSUME LogInv, LogInv', [Operate]_vars
      PROVE  A
  <2> SUFFICES ASSUME NEW o \in OldestOffset .. current.start - 1, o >= OldestOffset'
               PROVE  ReadOutcome(o)' = ReadOutcome(o)
    OBVIOUS
  <2>1. /\ TypeOK /\ segments \in Seq(Segment) /\ segments' \in Seq(Segment)
        /\ current \in VirtualSegment
    BY <1>1 DEF LogInv, LifeInv, TypeOK
  <2>2. current.start \in Nat
    BY <2>1, SegmentsAssumption DEF VirtualSegment, Offset
  <2>3. /\ segments # <<>> => segments[1] \in Segment
        /\ segments' # <<>> => segments'[1] \in Segment
    BY <2>1, EmptySeq
  <2>4. OldestOffset \in Nat /\ OldestOffset' \in Nat
    BY <2>3, SegmentNats DEF OldestOffset
  <2>5. o \in Nat /\ OldestOffset <= o /\ o < current.start /\ OldestOffset' <= o
    BY <2>2, <2>4
  <2>6. QED BY <1>1, <2>5, ReadsStable
<1>2. LogInv /\ LogInv' /\ [Operate]_vars => [A]_vars
  BY <1>1
<1> HIDE DEF A
<1>3. LifeSpec => [][A]_vars
  BY <1>2, LogInvariant, PTL DEF LifeSpec
<1>4. QED BY <1>3 DEF FlushedReadsStable, A

=============================================================================
