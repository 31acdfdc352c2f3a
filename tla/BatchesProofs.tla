--------------------------- MODULE BatchesProofs ----------------------------
(***************************************************************************)
(* What holds of a broker that handles batches, through failed cleanings,  *)
(* stops in the middle of a write and restarts, for all messages, groups,  *)
(* segment sizes and retentions, and without a bound on the offsets: after *)
(* a restart they can be wrong and wrap, and still only the pair that the  *)
(* segment in memory is named after is written, no group goes back and no  *)
(* offset is answered to a group twice.  The argument: every directory     *)
(* that a stop leaves spares the other pairs, and the flushed segments in  *)
(* memory are always loaded from pairs, one each.                          *)
(***************************************************************************)
EXTENDS Batches, TopicProofs

-----------------------------------------------------------------------------
\* The segments in memory all have their files, and no two have the same.
Loaded(segs, files) ==
  /\ \A i \in DOMAIN segs : segs[i].start \in Pairs(files)
  /\ \A i, j \in DOMAIN segs : segs[i].start = segs[j].start => i = j

\* Offsets are numbers, finitely many.
LEMMA OffsetsAre == Offset \subseteq Nat /\ 0 \in Offset /\ IsFiniteSet(Offset)
<1>1. OffsetSpan \in Nat /\ OffsetSpan - 1 \in Int /\ Offset = 0 .. OffsetSpan - 1
  BY SegmentsAssumption DEF Offset
<1>2. IsFiniteSet(0 .. OffsetSpan - 1)
  BY <1>1, FS_Interval
<1>3. QED BY <1>1, <1>2, SegmentsAssumption DEF Offset

\* So are the starts of the pairs of a directory.
LEMMA PairsAre ==
  ASSUME NEW files, NEW T \in SUBSET Pairs(files)
  PROVE  T \subseteq Offset /\ IsFiniteSet(T) /\ Cardinality(T) \in Nat
<1>1. T \subseteq Offset
  BY DEF Pairs
<1>2. IsFiniteSet(T)
  BY <1>1, OffsetsAre, FS_Subset
<1>3. QED BY <1>1, <1>2, FS_CardinalityType

\* A file written again holds what such a file may hold.
LEMMA OverlayType ==
  ASSUME NEW S, NEW old \in Seq(S) \cup {NoFile}, NEW new \in Seq(S)
  PROVE  Overlay(old, new) \in Seq(S)
<1>1. CASE old = NoFile
  BY <1>1 DEF Overlay
<1>2. CASE old # NoFile
  <2> DEFINE x == Len(new) + 1
             y == Len(old)
  <2>1. old \in Seq(S) /\ x \in Int /\ y \in Int /\ x > 0
    BY <1>2
  <2>2. \A i \in x .. y : old[i] \in S
    <3>1. \A i \in x .. y : i \in 1 .. Len(old)
      BY <2>1
    <3>2. QED BY <2>1, <3>1, ElementOfSeq
  <2> HIDE DEF x, y
  <2>3. SubSeq(old, x, y) \in Seq(S)
    BY <2>1, <2>2, SubSeqProperties
  <2>4. new \o SubSeq(old, x, y) \in Seq(S)
    BY <2>3, ConcatProperties
  <2>5. QED BY <1>2, <2>4 DEF Overlay, x, y
<1>3. QED BY <1>1, <1>2

\* The two files of a pair.
LEMMA FileTypes ==
  ASSUME NEW f \in Files
  PROVE  f.log \in Seq(Byte) \cup {NoFile} /\ f.index \in Seq(Entry) \cup {NoFile}
  BY DEF Files

\* A file that exists is not NoFile.
LEMMA NoFileIs == NoFile \notin Seq(Byte) /\ NoFile \notin Seq(Entry)
  BY SegmentsAssumption DEF Entry

\* A flush completes the pair of its segment and touches no other.
LEMMA FlushTypes ==
  ASSUME NEW files \in [Offset -> Files], NEW v \in VirtualSegment
  PROVE  /\ Flush(files, v) \in [Offset -> Files]
         /\ Pairs(files) \subseteq Pairs(Flush(files, v))
         /\ \A o \in Offset \ {v.start} : Flush(files, v)[o] = files[o]
<1> DEFINE old == files[v.start]
           new == [log |-> Overlay(old.log, v.contents), index |-> Overlay(old.index, v.entries)]
<1>1. v.start \in Offset /\ v.contents \in Seq(Byte) /\ v.entries \in Seq(Entry)
  BY DEF VirtualSegment
<1>2. old \in Files
  BY <1>1
<1>3. new.log \in Seq(Byte) /\ new.index \in Seq(Entry)
  BY <1>1, <1>2, FileTypes, OverlayType
<1>4. new \in Files
  BY <1>3 DEF Files
<1> HIDE DEF new
<1>5. Flush(files, v) = [files EXCEPT ![v.start] = new]
  BY DEF Flush, new
<1>6. Flush(files, v) \in [Offset -> Files]
  BY <1>1, <1>4, <1>5
<1>7. \A o \in Offset \ {v.start} : Flush(files, v)[o] = files[o]
  BY <1>1, <1>5
<1>8. Flush(files, v)[v.start] = new
  BY <1>1, <1>5
<1>9. Pairs(files) \subseteq Pairs(Flush(files, v))
  BY <1>3, <1>7, <1>8, NoFileIs DEF Pairs
<1>10. QED BY <1>6, <1>7, <1>9

\* What loading a pair makes, as a flushed segment and as the one in memory.
LEMMA LoadTypes ==
  ASSUME NEW files \in [Offset -> Files], NEW o \in Pairs(files)
  PROVE  /\ LoadSegment(files, o) \in Segment /\ LoadSegment(files, o).start = o
         /\ LoadVirtual(files, o) \in VirtualSegment /\ LoadVirtual(files, o).start = o
         /\ files[o].log \in Seq(Byte) /\ files[o].index \in Seq(Entry)
<1>1. o \in Offset /\ o \in Nat /\ files[o].log # NoFile /\ files[o].index # NoFile
  BY OffsetsAre DEF Pairs
<1>2. files[o].log \in Seq(Byte) /\ files[o].index \in Seq(Entry)
  BY <1>1, FileTypes
<1>3. Len(files[o].log) \in Nat /\ Len(files[o].index) \in Nat
  BY <1>2
<1>4. Len(files[o].index) + o \in Nat
  <2> DEFINE l == Len(files[o].index)
  <2>1. l \in Nat
    BY <1>3
  <2> HIDE DEF l
  <2>2. l + o \in Nat
    BY <1>1, <2>1
  <2>3. QED BY <2>2 DEF l
<1>5. U16(Len(files[o].index) + o) \in Offset
  BY <1>4, WrapsInto
<1>6. LoadSegment(files, o) \in Segment /\ LoadSegment(files, o).start = o
  BY <1>1, <1>2, <1>3, <1>5 DEF LoadSegment, Segment
<1>7. LoadVirtual(files, o) \in VirtualSegment /\ LoadVirtual(files, o).start = o
  BY <1>1, <1>2, <1>3, <1>5 DEF LoadVirtual, VirtualSegment
<1>8. QED BY <1>2, <1>6, <1>7

\* Deleting pairs leaves the others.
LEMMA DeleteTypes ==
  ASSUME NEW files \in [Offset -> Files], NEW starts
  PROVE  /\ Delete(files, starts) \in [Offset -> Files]
         /\ \A o \in Offset : Delete(files, starts)[o] = IF o \in starts THEN Missing ELSE files[o]
         /\ Pairs(Delete(files, starts)) = Pairs(files) \ starts
<1>1. Missing \in Files /\ Missing.log = NoFile
  BY DEF Missing, Files
<1>2. Delete(files, starts) \in [Offset -> Files]
  BY <1>1 DEF Delete
<1>3. \A o \in Offset : Delete(files, starts)[o] = IF o \in starts THEN Missing ELSE files[o]
  BY DEF Delete
<1>4. QED BY <1>1, <1>2, <1>3 DEF Pairs

\* What is left when the oldest n segments and their files go.
LEMMA LoadedSuffix ==
  ASSUME NEW files \in [Offset -> Files], NEW segs \in Seq(Segment), Loaded(segs, files),
         NEW n \in 0 .. Len(segs)
  PROVE  LET t == SubSeq(segs, n + 1, Len(segs))
             d == Delete(files, {segs[i].start : i \in 1 .. n})
         IN t \in Seq(Segment) /\ d \in [Offset -> Files] /\ Loaded(t, d)
<1> DEFINE t == SubSeq(segs, n + 1, Len(segs))
           gone == {segs[i].start : i \in 1 .. n}
           d == Delete(files, gone)
<1>1. t \in Seq(Segment) /\ Len(t) = Len(segs) - n /\ \A i \in 1 .. Len(segs) - n : t[i] = segs[n + i]
  BY Suffix
<1>2. d \in [Offset -> Files] /\ Pairs(d) = Pairs(files) \ gone
  BY DeleteTypes
<1> HIDE DEF t, d
<1>3. \A i \in DOMAIN t : n + i \in DOMAIN segs /\ t[i] = segs[n + i] /\ n + i \notin 1 .. n
  BY <1>1
<1>4. \A i \in DOMAIN t, j \in DOMAIN t : n + i = n + j => i = j
  BY <1>1
<1>5. ASSUME NEW i \in DOMAIN t
      PROVE  t[i].start \in Pairs(d)
  <2>1. segs[n + i].start \in Pairs(files)
    BY <1>3 DEF Loaded
  <2>2. ASSUME NEW k \in 1 .. n
        PROVE  segs[k].start # segs[n + i].start
    <3>1. k \in DOMAIN segs /\ k # n + i
      BY <1>3
    <3>2. QED BY <1>3, <3>1 DEF Loaded
  <2>3. QED BY <1>2, <1>3, <2>1, <2>2
<1>6. ASSUME NEW i \in DOMAIN t, NEW j \in DOMAIN t, t[i].start = t[j].start
      PROVE  i = j
  <2>1. n + i = n + j
    BY <1>3, <1>6 DEF Loaded
  <2>2. QED BY <1>4, <2>1
<1>7. QED BY <1>1, <1>2, <1>5, <1>6 DEF Loaded, t, d

\* A cleaning removes segments together with their files,
LEMMA LoadedCleaned ==
  ASSUME NEW files \in [Offset -> Files], NEW segs \in Seq(Segment), Loaded(segs, files)
  PROVE  /\ Retained(segs) \in Seq(Segment) /\ Cleaned(files, segs) \in [Offset -> Files]
         /\ Loaded(Retained(segs), Cleaned(files, segs))
<1>1. Excess(segs) \in 0 .. Len(segs)
  BY ExcessBounded
<1>2. QED BY <1>1, LoadedSuffix DEF Retained, Cleaned

\* and a reload adds segments that have files, none of them twice.
LEMMA LoadedReloaded ==
  ASSUME NEW files \in [Offset -> Files], segments \in Seq(Segment), Loaded(segments, files),
         NEW segs \in Reloaded(files)
  PROVE  segs \in Seq(Segment) /\ Loaded(segs, files)
<1> DEFINE loaded == {segments[i].start : i \in DOMAIN segments}
           T == Pairs(files) \ loaded
           more(order) == [i \in DOMAIN order |-> LoadSegment(files, order[i])]
<1>1. PICK order \in SetToSeqs(T) : segs = segments \o more(order)
  BY Zenon DEF Reloaded
<1> DEFINE n == Cardinality(T)
           t == more(order)
<1>2. n \in Nat
  BY PairsAre
<1>3. order \in [1 .. n -> T] /\ \A i, j \in 1 .. n : i # j => order[i] # order[j]
  BY <1>1, Zenon DEF SetToSeqs
<1> HIDE DEF n
<1>4. t = [i \in 1 .. n |-> LoadSegment(files, order[i])]
  BY <1>3
<1>5. \A i \in 1 .. n : order[i] \in Pairs(files) /\ order[i] \notin loaded
  BY <1>3
<1>6. \A i \in 1 .. n : LoadSegment(files, order[i]) \in Segment /\ LoadSegment(files, order[i]).start = order[i]
  BY <1>5, LoadTypes
<1> HIDE DEF more, T
<1>7. t \in Seq(Segment) /\ Len(t) = n /\ \A i \in 1 .. n : t[i].start = order[i]
  <2>1. t \in Seq(Segment)
    BY <1>2, <1>4, <1>6, IsASeq
  <2>2. Len(t) = n
    BY <1>2, <1>4
  <2>3. QED BY <1>4, <1>6, <2>1, <2>2
<1> HIDE DEF t
<1> DEFINE l == Len(segments)
<1>8. /\ segs \in Seq(Segment) /\ Len(segs) = l + n
      /\ \A i \in 1 .. l + n : segs[i] = IF i <= l THEN segments[i] ELSE t[i - l]
      /\ l \in Nat
  <2>1. segs = segments \o t
    BY <1>1 DEF t
  <2>2. /\ segments \o t \in Seq(Segment) /\ Len(segments \o t) = Len(segments) + Len(t)
        /\ \A i \in 1 .. Len(segments) + Len(t) :
             (segments \o t)[i] = IF i <= Len(segments) THEN segments[i] ELSE t[i - Len(segments)]
    BY <1>7, ConcatProperties
  <2>3. Len(segments) \in Nat
    OBVIOUS
  <2>4. QED BY <1>7, <2>1, <2>2, <2>3
<1>9. DOMAIN segs = 1 .. l + n /\ DOMAIN segments = 1 .. l
  BY <1>8
<1> HIDE DEF l
<1>10. \A i \in 1 .. l : segs[i] = segments[i] /\ segs[i].start \in loaded /\ segs[i].start \in Pairs(files)
  <2> SUFFICES ASSUME NEW i \in 1 .. l
               PROVE  segs[i] = segments[i] /\ segs[i].start \in loaded /\ segs[i].start \in Pairs(files)
    OBVIOUS
  <2>1. i \in 1 .. l + n /\ i <= l
    BY <1>2, <1>8
  <2>2. segs[i] = segments[i]
    BY <1>8, <2>1
  <2>3. i \in DOMAIN segments
    BY <1>9
  <2>4. segments[i].start \in loaded /\ segments[i].start \in Pairs(files)
    BY <2>3, Zenon DEF Loaded
  <2>5. QED BY <2>2, <2>4
<1>11. ASSUME NEW i \in 1 .. l + n, i \notin 1 .. l
       PROVE  /\ i - l \in 1 .. n /\ segs[i].start = order[i - l]
              /\ segs[i].start \notin loaded /\ segs[i].start \in Pairs(files)
  <2>1. i - l \in 1 .. n /\ ~(i <= l)
    BY <1>2, <1>8, <1>11
  <2>2. segs[i].start = order[i - l]
    BY <1>7, <1>8, <2>1
  <2>3. QED BY <1>5, <2>1, <2>2
<1>12. \A i \in DOMAIN segs : segs[i].start \in Pairs(files)
  BY <1>9, <1>10, <1>11
<1>13. ASSUME NEW i \in 1 .. l + n, NEW j \in 1 .. l + n, segs[i].start = segs[j].start
       PROVE  i = j
  <2>1. CASE i \in 1 .. l /\ j \in 1 .. l
    BY <1>9, <1>10, <1>13, <2>1 DEF Loaded
  <2>2. CASE i \notin 1 .. l /\ j \notin 1 .. l
    <3>1. order[i - l] = order[j - l] /\ i - l \in 1 .. n /\ j - l \in 1 .. n
      BY <1>11, <1>13, <2>2
    <3>2. i - l = j - l
      BY <1>3, <3>1
    <3>3. QED BY <1>2, <1>8, <3>2
  <2>3. QED BY <1>10, <1>11, <1>13, <2>1, <2>2
<1>14. QED BY <1>8, <1>9, <1>12, <1>13 DEF Loaded

-----------------------------------------------------------------------------
\* Increasing enumerations.
Enumerates(s, T) ==
  /\ s \in [1 .. Cardinality(T) -> T]
  /\ \A i, j \in DOMAIN s : i < j => s[i] < s[j]

\* The least element goes in front.
LEMMA EnumeratedMore ==
  ASSUME NEW T \in SUBSET Nat, IsFiniteSet(T), NEW x \in T, \A y \in T : x <= y,
         NEW s, Enumerates(s, T \ {x})
  PROVE  \E r : Enumerates(r, T)
<1> DEFINE U == T \ {x}
           n == Cardinality(U)
           r == [i \in 1 .. n + 1 |-> IF i = 1 THEN x ELSE s[i - 1]]
<1>1. IsFiniteSet(U) /\ Cardinality(U) = Cardinality(T) - 1
  BY FS_RemoveElement
<1>2. n \in Nat /\ Cardinality(T) \in Nat /\ Cardinality(T) = n + 1
  <2>1. n \in Nat /\ Cardinality(T) \in Nat
    BY <1>1, FS_CardinalityType
  <2>2. QED BY <1>1, <2>1
<1>3. s \in [1 .. n -> U] /\ \A i, j \in 1 .. n : i < j => s[i] < s[j]
  BY DEF Enumerates
<1> HIDE DEF n
<1>4. \A i \in 1 .. n + 1 : i = 1 \/ i - 1 \in 1 .. n
  BY <1>2
<1>5. \A i \in 1 .. n : s[i] \in T /\ s[i] # x
  BY <1>3
<1>6. r \in [1 .. n + 1 -> T]
  BY <1>4, <1>5
<1>7. ASSUME NEW i \in 1 .. n + 1, NEW j \in 1 .. n + 1, i < j
      PROVE  r[i] < r[j]
  <2>1. j - 1 \in 1 .. n /\ j # 1
    BY <1>2, <1>7
  <2>2. r[j] = s[j - 1] /\ r[j] \in Nat /\ x \in Nat
    BY <1>5, <2>1
  <2>3. CASE i = 1
    <3>1. r[i] = x /\ x <= r[j] /\ r[j] # x
      BY <1>5, <2>1, <2>2, <2>3
    <3>2. QED BY <2>2, <3>1
  <2>4. CASE i # 1
    <3>1. i - 1 \in 1 .. n /\ i - 1 < j - 1
      BY <1>2, <1>7, <2>1, <2>4
    <3>2. r[i] = s[i - 1]
      BY <2>4
    <3>3. QED BY <1>3, <2>1, <2>2, <3>1, <3>2
  <2>5. QED BY <2>3, <2>4
<1> HIDE DEF r
<1>8. DOMAIN r = 1 .. n + 1
  BY <1>6
<1>9. Enumerates(r, T)
  BY <1>2, <1>6, <1>7, <1>8 DEF Enumerates
<1>10. QED BY <1>9

\* Every finite set of numbers has one.
LEMMA Enumerated ==
  ASSUME NEW T \in SUBSET Nat, IsFiniteSet(T)
  PROVE  \E s : Enumerates(s, T)
<1> DEFINE Bad(U) == IsFiniteSet(U) /\ ~ \E s : Enumerates(s, U)
           Sizes == {n \in Nat : \E U \in SUBSET Nat : Bad(U) /\ Cardinality(U) = n}
<1>1. SUFFICES ASSUME Sizes # {} PROVE FALSE
  <2>1. ASSUME Bad(T)
        PROVE  Cardinality(T) \in Sizes
    <3>1. Cardinality(T) \in Nat
      BY FS_CardinalityType
    <3>2. QED BY <2>1, <3>1
  <2>2. QED BY <2>1
<1>2. PICK n \in Sizes : \A m \in Sizes : n <= m
  <2>1. Sizes \in SUBSET Nat
    OBVIOUS
  <2>2. QED BY <1>1, <2>1, LeastNat
<1>3. PICK U \in SUBSET Nat : Bad(U) /\ Cardinality(U) = n
  BY <1>2
<1>4. CASE U = {}
  <2> DEFINE s == [i \in 1 .. 0 |-> 0]
  <2>1. Cardinality({}) = 0
    BY FS_EmptySet
  <2>2. s \in [1 .. 0 -> {}] /\ DOMAIN s = {}
    OBVIOUS
  <2> HIDE DEF s
  <2>3. Enumerates(s, {})
    BY <2>1, <2>2 DEF Enumerates
  <2>4. QED BY <1>3, <1>4, <2>3
<1>5. CASE U # {}
  <2>1. PICK x \in U : \A y \in U : x <= y
    BY <1>5, LeastNat
  <2>2. IsFiniteSet(U \ {x}) /\ Cardinality(U \ {x}) = Cardinality(U) - 1
    BY <1>3, FS_RemoveElement
  <2>3. Cardinality(U \ {x}) \in Nat /\ n \in Nat /\ ~ (n <= n - 1)
    BY <1>2, <2>2, FS_CardinalityType
  <2>4. Cardinality(U \ {x}) = n - 1
    BY <1>3, <2>2
  <2>5. n - 1 \notin Sizes
    BY <1>2, <2>3
  <2>6. ~Bad(U \ {x})
    <3>1. U \ {x} \in SUBSET Nat
      OBVIOUS
    <3>2. QED BY <2>3, <2>4, <2>5, <3>1
  <2>7. PICK s : Enumerates(s, U \ {x})
    BY <2>2, <2>6
  <2>8. \E r : Enumerates(r, U)
    BY <1>3, <2>1, <2>7, EnumeratedMore
  <2>9. QED BY <1>3, <2>8
<1>6. QED BY <1>4, <1>5

\* What sort_by makes of the segments found in a directory.
LEMMA AscendingIs ==
  ASSUME NEW files
  PROVE  LET T == Pairs(files)
             s == Ascending(T)
         IN /\ s \in Seq(T) /\ Len(s) = Cardinality(T)
            /\ \A i, j \in DOMAIN s : i < j => s[i] < s[j]
            /\ \A i, j \in DOMAIN s : s[i] = s[j] => i = j
<1> DEFINE T == Pairs(files)
           n == Cardinality(T)
           s == Ascending(T)
<1>1. T \in SUBSET Nat /\ IsFiniteSet(T) /\ n \in Nat
  BY PairsAre, OffsetsAre
<1> HIDE DEF T
<1>2. PICK r : Enumerates(r, T)
  BY <1>1, Enumerated
<1>3. s \in [1 .. n -> T] /\ \A i, j \in DOMAIN s : i < j => s[i] < s[j]
  BY <1>2 DEF Ascending, Enumerates
<1> HIDE DEF s, n
<1>4. s \in Seq(T) /\ Len(s) = n /\ DOMAIN s = 1 .. n
  <2>1. s = [i \in 1 .. n |-> s[i]] /\ \A i \in 1 .. n : s[i] \in T
    BY <1>3
  <2>2. [i \in 1 .. n |-> s[i]] \in Seq(T)
    BY <1>1, <2>1, IsASeq
  <2>3. s \in Seq(T) /\ DOMAIN s = 1 .. n
    BY <2>1, <2>2
  <2>4. Len(s) = n
    BY <1>1, <2>3
  <2>5. QED BY <2>3, <2>4
<1>5. ASSUME NEW i \in 1 .. n, NEW j \in 1 .. n, s[i] = s[j]
      PROVE  i = j
  <2>1. s[i] \in Nat /\ s[j] \in Nat
    BY <1>1, <1>3
  <2>2. ~(i < j) /\ ~(j < i)
    BY <1>3, <1>4, <1>5, <2>1
  <2>3. QED BY <1>1, <2>2
<1>6. QED BY <1>3, <1>4, <1>5 DEF s, n, T

-----------------------------------------------------------------------------
(* What the operations on segments make of the types.                       *)

\* An empty segment,
LEMMA NewTypes ==
  ASSUME NEW o \in Offset
  PROVE  NewVirtual(o) \in VirtualSegment /\ NewVirtual(o).start = o
<1>1. <<>> \in Seq(Byte) /\ <<>> \in Seq(Entry)
  OBVIOUS
<1>2. QED BY <1>1, OffsetsAre DEF NewVirtual, VirtualSegment

\* a segment that was written to,
LEMMA WriteTypes ==
  ASSUME NEW v \in VirtualSegment, NEW m \in Messages
  PROVE  Write(v, m) \in VirtualSegment
<1> DEFINE e == [start |-> v.position, total |-> Len(m)]
           w == Write(v, m)
<1>1. m \in Seq(Byte) /\ Len(m) \in Nat
  <2>1. m \in Seq(Byte)
    BY SegmentsAssumption
  <2>2. QED BY <2>1
<1>2. /\ v.start \in Offset /\ v.next \in Nat /\ v.contents \in Seq(Byte) /\ v.cursor \in Nat
      /\ v.position \in Nat /\ v.entries \in Seq(Entry)
  BY OffsetsAre DEF VirtualSegment
<1>3. U16(v.next + 1) \in Offset
  BY <1>2, WrapsInto
<1>4. Put(v.contents, v.cursor, m) \in Seq(Byte)
  BY <1>1, <1>2, PutType
<1>5. e \in Entry
  BY <1>1, <1>2 DEF Entry
<1>6. Append(v.entries, e) \in Seq(Entry)
  BY <1>2, <1>5, AppendProperties
<1>7. v.cursor + Len(m) \in Nat /\ v.position + Len(m) \in Nat
  <2> DEFINE l == Len(m)
  <2>1. l \in Nat
    BY <1>1
  <2> HIDE DEF l
  <2>2. v.cursor + l \in Nat /\ v.position + l \in Nat
    BY <1>2, <2>1
  <2>3. QED BY <2>2 DEF l
<1>8. QED BY <1>2, <1>3, <1>4, <1>6, <1>7 DEF Write, AddEntry, VirtualSegment

\* the segment after a split,
LEMMA SuccessorTypes ==
  ASSUME NEW v \in VirtualSegment
  PROVE  Successor(v) \in VirtualSegment
<1>1. v.start \in Nat /\ v.next \in Nat
  BY OffsetsAre DEF VirtualSegment
<1>2. v.start + v.next \in Nat
  BY <1>1
<1>3. QED BY <1>2, WrapsInto, NewTypes DEF Successor

\* and the offset that append answers, wrapped or not.
LEMMA AcceptedTypes ==
  ASSUME accepted \in Seq([offset : Offset, data : Messages]),
         NEW v \in VirtualSegment, NEW m \in Messages,
         accepted' = Append(accepted, [offset |-> U16(v.start + v.next), data |-> m])
  PROVE  /\ accepted' \in Seq([offset : Offset, data : Messages])
         /\ Last(accepted').offset \in Offset
<1> DEFINE r == [offset |-> U16(v.start + v.next), data |-> m]
<1>1. v.start \in Nat /\ v.next \in Nat
  BY OffsetsAre DEF VirtualSegment
<1>2. U16(v.start + v.next) \in Offset
  <2>1. v.start + v.next \in Nat
    BY <1>1
  <2>2. QED BY <2>1, WrapsInto
<1>3. r \in [offset : Offset, data : Messages] /\ r.offset \in Offset
  BY <1>2
<1> HIDE DEF r
<1>4. /\ Append(accepted, r) \in Seq([offset : Offset, data : Messages])
      /\ Append(accepted, r)[Len(Append(accepted, r))] = r
  BY <1>3, AppendProperties
<1>5. QED BY <1>3, <1>4 DEF Last, r

-----------------------------------------------------------------------------
\* A directory in which, compared to files, no pair but that of p is changed otherwise
\* than by losing its log file.
Spares(files, left, p) ==
  /\ left \in [Offset -> Files]
  /\ \A o \in Offset \ {p} : left[o] = files[o] \/ left[o].log = NoFile

\* Deletions spare what is left,
LEMMA SparesDelete ==
  ASSUME NEW files, NEW p, NEW f, Spares(files, f, p), NEW starts
  PROVE  Spares(files, Delete(f, starts), p)
<1>1. Missing.log = NoFile
  BY DEF Missing
<1>2. QED BY <1>1, DeleteTypes DEF Spares

\* and so does the removal of one log file,
LEMMA SparesUnlink ==
  ASSUME NEW files, NEW p, NEW f, Spares(files, f, p), NEW q \in Offset
  PROVE  Spares(files, [f EXCEPT ![q].log = NoFile], p)
<1> DEFINE r == [f[q] EXCEPT !.log = NoFile]
<1>1. r \in Files /\ r.log = NoFile
  BY DEF Spares, Files
<1>2. [f EXCEPT ![q].log = NoFile] = [f EXCEPT ![q] = r]
  OBVIOUS
<1> HIDE DEF r
<1>3. QED BY <1>1, <1>2 DEF Spares

\* or of those that were open without a name,
LEMMA SparesVanished ==
  ASSUME NEW files, NEW p, NEW f, Spares(files, f, p)
  PROVE  Spares(files, Vanished(f), p)
<1>1. ASSUME NEW o \in Offset
      PROVE  [f[o] EXCEPT !.log = NoFile] \in Files /\ [f[o] EXCEPT !.log = NoFile].log = NoFile
  BY DEF Spares, Files
<1>2. QED BY <1>1 DEF Spares, Vanished

\* and the flush of the segment in memory.
LEMMA SparesFlush ==
  ASSUME NEW files \in [Offset -> Files], NEW v \in VirtualSegment
  PROVE  Spares(files, Flush(files, v), v.start)
  BY FlushTypes DEF Spares

\* The first part of a sequence.
LEMMA FirstPart ==
  ASSUME NEW S, NEW c \in Seq(S), NEW n \in 0 .. Len(c)
  PROVE  SubSeq(c, 1, n) \in Seq(S)
<1>1. n \in Nat /\ 0 + n = n /\ 0 + 1 = 1 /\ n <= Len(c)
  OBVIOUS
<1>2. SubSeq(c, 0 + 1, 0 + n) \in Seq(S)
  BY <1>1, PartOf
<1>3. QED BY <1>1, <1>2

\* A flush that is cut off anywhere spares the other pairs,
LEMMA SparesFlushStage ==
  ASSUME NEW files \in [Offset -> Files], NEW v \in VirtualSegment, NEW f \in FlushStages(files, v)
  PROVE  Spares(files, f, v.start)
<1> DEFINE old == files[v.start]
           log(n) == Overlay(old.log, SubSeq(v.contents, 1, n))
           index(n) == Overlay(old.index, SubSeq(v.entries, 1, n))
           stage(x) == [files EXCEPT ![v.start] = x]
<1>1. v.start \in Offset /\ v.contents \in Seq(Byte) /\ v.entries \in Seq(Entry)
  BY DEF VirtualSegment
<1>2. old \in Files
  BY <1>1
<1>3. \A n \in 0 .. Len(v.contents) : log(n) \in Seq(Byte)
  BY <1>1, <1>2, FileTypes, FirstPart, OverlayType
<1>4. \A n \in 0 .. Len(v.entries) : index(n) \in Seq(Entry)
  BY <1>1, <1>2, FileTypes, FirstPart, OverlayType
<1>5. 0 \in 0 .. Len(v.contents) /\ Len(v.entries) \in 0 .. Len(v.entries)
  <2>1. Len(v.contents) \in Nat /\ Len(v.entries) \in Nat
    BY <1>1
  <2>2. QED BY <2>1
<1>6. old.index \in Seq(Entry) \cup {NoFile}
  BY <1>2, FileTypes
<1>7. ASSUME NEW a \in Seq(Byte), NEW b \in Seq(Entry) \cup {NoFile}
      PROVE  Spares(files, stage([log |-> a, index |-> b]), v.start)
  BY <1>1 DEF Spares, Files
<1>8. \/ f = stage([log |-> log(0), index |-> old.index])
      \/ \E n \in 0 .. Len(v.entries) : f = stage([log |-> log(0), index |-> index(n)])
      \/ \E n \in 0 .. Len(v.contents) : f = stage([log |-> log(n), index |-> index(Len(v.entries))])
  BY Zenon DEF FlushStages
<1> HIDE DEF log, index, stage, old
<1>9. QED BY <1>3, <1>4, <1>5, <1>6, <1>7, <1>8

\* a cleaning that is cut off changes files only by removing them,
LEMMA SparesDeleteStage ==
  ASSUME NEW files, NEW p, NEW f, Spares(files, f, p), NEW segs \in Seq(Segment),
         NEW left \in DeleteStages(f, segs)
  PROVE  Spares(files, left, p)
<1> DEFINE done(n) == Delete(f, {segs[i].start : i \in 1 .. n})
<1>1. \A n : Spares(files, done(n), p)
  BY SparesDelete
<1>2. \/ \E n \in 0 .. Excess(segs) : left = done(n)
      \/ \E n \in 1 .. Excess(segs) : left = [done(n - 1) EXCEPT ![segs[n].start].log = NoFile]
  BY Zenon DEF DeleteStages
<1> HIDE DEF done
<1>3. Excess(segs) \in 0 .. Len(segs)
  BY ExcessBounded
<1>4. ASSUME NEW n \in 1 .. Excess(segs)
      PROVE  segs[n].start \in Offset
  <2>1. n \in 1 .. Len(segs)
    BY <1>3
  <2>2. segs[n] \in Segment
    BY <2>1, ElementOfSeq
  <2>3. QED BY <2>2 DEF Segment
<1>5. ASSUME NEW n \in 1 .. Excess(segs)
      PROVE  Spares(files, [done(n - 1) EXCEPT ![segs[n].start].log = NoFile], p)
  <2>1. Spares(files, done(n - 1), p) /\ segs[n].start \in Offset
    BY <1>1, <1>4
  <2>2. QED BY <2>1, SparesUnlink
<1>6. QED BY <1>1, <1>2, <1>5

\* also when it was doomed by a log file without a name.
LEMMA SparesCleaning ==
  ASSUME NEW files, NEW p, NEW f, Spares(files, f, p), NEW segs \in Seq(Segment),
         NEW left \in Cleanings(segs, f)
  PROVE  Spares(files, left, p)
<1>1. CASE unlinked = {}
  BY <1>1, SparesDeleteStage DEF Cleanings
<1>2. CASE unlinked # {}
  BY <1>2 DEF Cleanings
<1>3. QED BY <1>1, <1>2

\* Wherever a process stops in the middle of a batch.
LEMMA SparesStage ==
  ASSUME TypeOK, Loaded(segments, disk), NEW left \in {disk} \cup Stages
  PROVE  Spares(disk, left, current.start)
<1>1. disk \in [Offset -> Files] /\ current \in VirtualSegment /\ segments \in Seq(Segment)
  BY DEF TypeOK
<1>2. Spares(disk, disk, current.start)
  BY <1>1 DEF Spares
<1>3. CASE left = disk
  BY <1>2, <1>3
<1>4. CASE left \in Stages
  <2>1. CASE ~Unfinished \/ ~Storable(Message)
    BY <1>2, <1>4, <2>1 DEF Stages
  <2>2. CASE ~(~Unfinished \/ ~Storable(Message)) /\ Fits(current, Message)
    <3>1. left \in Cleanings(segments, disk)
      BY <1>4, <2>2 DEF Stages
    <3>2. QED BY <1>1, <1>2, <3>1, SparesCleaning
  <2>3. CASE ~(~Unfinished \/ ~Storable(Message)) /\ ~Fits(current, Message)
    <3> DEFINE f == Flush(disk, current)
    <3>1. \/ left \in FlushStages(disk, current)
          \/ \E segs \in Reloaded(f) : left \in Cleanings(segs, f)
      BY <1>4, <2>3 DEF Stages
    <3>2. /\ f \in [Offset -> Files] /\ Spares(disk, f, current.start)
          /\ Loaded(segments, f)
      BY <1>1, FlushTypes, SparesFlush DEF Loaded
    <3> HIDE DEF f
    <3>3. \A segs \in Reloaded(f) : segs \in Seq(Segment)
      BY <1>1, <3>2, LoadedReloaded
    <3>4. QED BY <1>1, <3>1, <3>2, <3>3, SparesFlushStage, SparesCleaning
  <2>4. QED BY <2>1, <2>2, <2>3
<1>5. QED BY <1>3, <1>4

-----------------------------------------------------------------------------
\* A finite set of numbers that is not empty has a maximum.
LEMMA Greatest ==
  ASSUME NEW n \in Nat, NEW T \in SUBSET (1 .. n), T # {}
  PROVE  Max(T) \in T
<1> DEFINE U == {u \in Nat : \A y \in T : y <= u}
<1>1. PICK u \in U : \A w \in U : u <= w
  <2>1. n \in U /\ U \in SUBSET Nat
    OBVIOUS
  <2>2. QED BY <2>1, LeastNat
<1>2. u \in T
  <2> SUFFICES ASSUME u \notin T PROVE FALSE
    OBVIOUS
  <2>1. PICK y \in T : TRUE
    OBVIOUS
  <2>2. u \in Nat /\ y \in 1 .. n /\ y <= u /\ y # u
    BY <1>1
  <2>3. u - 1 \in Nat
    BY <2>2
  <2>4. \A z \in T : z <= u - 1
    <3> SUFFICES ASSUME NEW z \in T PROVE z <= u - 1
      OBVIOUS
    <3>1. z \in 1 .. n /\ z <= u /\ z # u
      BY <1>1
    <3>2. QED BY <2>2, <3>1
  <2>5. u - 1 \in U
    BY <2>3, <2>4
  <2>6. u <= u - 1
    BY <1>1, <2>5
  <2>7. QED BY <2>2, <2>6
<1>3. T \in SUBSET Nat /\ \A y \in T : y <= u
  BY <1>1
<1>4. Max(T) = u
  BY <1>2, <1>3, MaxIs
<1>5. QED BY <1>2, <1>4

\* What can be extracted from bytes is bytes.
LEMMA ExtractType ==
  ASSUME NEW bytes \in Seq(Byte), NEW entry \in Entry
  PROVE  Extract(bytes, entry).data \in Seq(Byte)
<1> DEFINE a == entry.start
           n == entry.total
<1>1. a \in Nat /\ n \in Nat
  BY DEF Entry
<1>2. CASE a + n <= Len(bytes)
  <2>1. SubSeq(bytes, a + 1, a + n) \in Seq(Byte)
    BY <1>1, <1>2, PartOf
  <2>2. QED BY <1>2, <2>1 DEF Extract, Found
<1>3. CASE ~(a + n <= Len(bytes))
  BY <1>3 DEF Extract, Failed
<1>4. QED BY <1>2, <1>3

\* A read finds bytes, and in memory only under an entry.
LEMMA ReadTypes ==
  ASSUME TypeOK, Loaded(segments, disk), NEW o \in Nat
  PROVE  /\ ReadOutcome(o).data \in Seq(Byte)
         /\ ReadOutcome(o).kind = "Found" /\ current.start <= o
              => o - current.start < Len(current.entries)
<1>1. /\ current \in VirtualSegment /\ current.start \in Nat /\ current.entries \in Seq(Entry)
      /\ current.contents \in Seq(Byte) /\ segments \in Seq(Segment) /\ disk \in [Offset -> Files]
  BY OffsetsAre DEF TypeOK, VirtualSegment
<1>2. /\ OutOfBounds.data \in Seq(Byte) /\ Failed.data \in Seq(Byte)
      /\ OutOfBounds.kind # "Found" /\ Failed.kind # "Found"
  BY DEF OutOfBounds, Failed
<1>3. CASE current.start <= o
  <2> DEFINE n == o - current.start
             l == Len(current.entries)
  <2>1. n \in Nat /\ l \in Nat
    BY <1>1, <1>3
  <2> HIDE DEF n
  <2>2. ReadOutcome(o) = VirtualReadAt(current, n)
    BY <1>3 DEF ReadOutcome, n
  <2>3. CASE BeyondVirtual(current, n) \/ n >= l
    <3>1. ReadOutcome(o) \in {OutOfBounds, Failed}
      BY <2>2, <2>3 DEF VirtualReadAt
    <3>2. QED BY <1>2, <3>1
  <2>4. CASE ~(BeyondVirtual(current, n) \/ n >= l)
    <3>1. ReadOutcome(o) = Extract(current.contents, current.entries[n + 1])
      BY <2>2, <2>4 DEF VirtualReadAt
    <3>2. n < l /\ n + 1 \in 1 .. l
      BY <2>1, <2>4
    <3>3. current.entries[n + 1] \in Entry
      BY <1>1, <3>2, ElementOfSeq
    <3>4. QED BY <1>1, <3>1, <3>2, <3>3, ExtractType DEF n
  <2>5. QED BY <2>3, <2>4
<1>4. CASE ~(current.start <= o) /\ Located(o) = {}
  BY <1>2, <1>4 DEF ReadOutcome
<1>5. CASE ~(current.start <= o) /\ Located(o) # {}
  <2> DEFINE i == Max(Located(o))
             s == segments[i]
             n == o - s.start
             l == Len(s.entries)
  <2>1. Len(segments) \in Nat /\ Located(o) \in SUBSET (1 .. Len(segments))
    BY <1>1 DEF Located
  <2>2. i \in Located(o)
    BY <1>5, <2>1, Greatest
  <2>3. ReadOutcome(o) = SegmentReadAt(disk, s, n)
    BY <1>5 DEF ReadOutcome
  <2> HIDE DEF i
  <2>4. i \in 1 .. Len(segments) /\ s.start <= o
    BY <1>1, <2>2 DEF Located
  <2>5. s \in Segment /\ s.start \in Pairs(disk)
    BY <1>1, <2>4, ElementOfSeq DEF Loaded
  <2>6. s.start \in Nat /\ s.entries \in Seq(Entry) /\ disk[s.start].log \in Seq(Byte)
    BY <1>1, <2>5, OffsetsAre, LoadTypes DEF Segment
  <2>7. n \in Nat /\ l \in Nat
    BY <2>4, <2>6
  <2> HIDE DEF s, n
  <2>8. CASE BeyondSegment(s, n) \/ n >= l
    <3>1. ReadOutcome(o) \in {OutOfBounds, Failed}
      BY <2>3, <2>8 DEF SegmentReadAt
    <3>2. QED BY <1>2, <3>1
  <2>9. CASE ~(BeyondSegment(s, n) \/ n >= l)
    <3>1. ReadOutcome(o) = Extract(disk[s.start].log, s.entries[n + 1])
      BY <2>3, <2>9 DEF SegmentReadAt
    <3>2. n + 1 \in 1 .. l
      BY <2>7, <2>9
    <3>3. s.entries[n + 1] \in Entry
      BY <2>6, <3>2, ElementOfSeq
    <3>4. QED BY <1>5, <2>6, <3>1, <3>3, ExtractType
  <2>10. QED BY <2>8, <2>9
<1>6. QED BY <1>3, <1>4, <1>5

\* A poll stops somewhere, and finds everything on the way.
LEMMA StopIs ==
  ASSUME TypeOK, Loaded(segments, disk), NEW n \in Nat
  PROVE  /\ StopFrom(n) \in Nat /\ n <= StopFrom(n)
         /\ \A k \in Nat : n <= k /\ k < StopFrom(n) => ReadOutcome(k).kind = "Found"
<1> DEFINE a == current.start
           l == Len(current.entries)
           horizon == a + l
           top == IF n > horizon THEN n ELSE horizon
           S == {k \in n .. top : ReadOutcome(k).kind # "Found"}
<1>1. a \in Nat /\ l \in Nat
  <2>1. a \in Nat /\ current.entries \in Seq(Entry)
    BY OffsetsAre DEF TypeOK, VirtualSegment
  <2>2. QED BY <2>1
<1>2. \A k \in Nat : ReadOutcome(k).kind = "Found" /\ a <= k => k - a < l
  BY ReadTypes
<1>3. StopFrom(n) = Min(S)
  BY DEF StopFrom
<1> HIDE DEF a, l
<1>4. top \in Nat /\ n <= top /\ a <= top /\ ~(top - a < l)
  BY <1>1
<1>5. top \in S
  BY <1>2, <1>4
<1>6. PICK x \in S : \A y \in S : x <= y
  <2>1. S \in SUBSET Nat
    BY <1>4
  <2>2. QED BY <1>5, <2>1, LeastNat
<1>7. Min(S) \in S /\ \A y \in S : Min(S) <= y
  BY <1>6 DEF Min
<1>8. Min(S) \in Nat /\ n <= Min(S) /\ Min(S) <= top
  BY <1>4, <1>7
<1>9. ASSUME NEW k \in Nat, n <= k, k < Min(S)
      PROVE  ReadOutcome(k).kind = "Found"
  <2>1. k \in n .. top /\ ~(Min(S) <= k)
    BY <1>4, <1>8, <1>9
  <2>2. k \notin S
    BY <1>7, <2>1
  <2>3. QED BY <2>1, <2>2
<1>10. QED BY <1>3, <1>8, <1>9

\* A read leaves a cursor.
LEMMA CursorTypes ==
  ASSUME NEW v \in VirtualSegment, NEW o \in Nat
  PROVE  CursorsAfter(v, o) \subseteq Nat
<1>1. v.cursor \in Nat /\ v.entries \in Seq(Entry) /\ Len(v.contents) \in Nat
  BY DEF VirtualSegment
<1>2. CASE o >= Len(v.entries)
  BY <1>1, <1>2 DEF CursorsAfter
<1>3. CASE ~(o >= Len(v.entries))
  <2> DEFINE e == v.entries[o + 1]
  <2>1. e \in Entry
    <3>1. o + 1 \in 1 .. Len(v.entries)
      BY <1>1, <1>3
    <3>2. QED BY <1>1, <3>1, ElementOfSeq
  <2>2. e.start \in Nat /\ e.total \in Nat
    BY <2>1 DEF Entry
  <2>3. \A c \in CursorsAfter(v, o) : c \in {v.cursor, e.start + e.total, e.start, Len(v.contents)}
    BY DEF CursorsAfter
  <2> HIDE DEF e
  <2>4. QED BY <1>1, <2>2, <2>3
<1>4. QED BY <1>2, <1>3

\* A poll from n leaves a cursor.
LEMMA ScanTypes ==
  ASSUME TypeOK, Loaded(segments, disk), NEW n \in Nat, NEW c \in CursorsAfterScan(n, StopFrom(n))
  PROVE  c \in Nat
<1> DEFINE k == StopFrom(n)
           a == current.start
           last == k - 1 - a
           e == current.entries[last + 1]
           moved == IF last >= 0 /\ n < k THEN [current EXCEPT !.cursor = e.start + e.total] ELSE current
<1>1. /\ current \in VirtualSegment /\ a \in Nat /\ current.cursor \in Nat
      /\ current.entries \in Seq(Entry)
  BY OffsetsAre DEF TypeOK, VirtualSegment
<1>2. /\ k \in Nat /\ n <= k
      /\ \A i \in Nat : n <= i /\ i < k => ReadOutcome(i).kind = "Found"
  BY StopIs
<1>3. c \in IF k < a THEN {current.cursor} ELSE CursorsAfter(moved, k - a)
  BY DEF CursorsAfterScan
<1> HIDE DEF k, a
<1>4. CASE k < a
  BY <1>1, <1>3, <1>4
<1>5. CASE ~(k < a)
  <2>1. k - a \in Nat
    BY <1>1, <1>2, <1>5
  <2>2. moved \in VirtualSegment
    <3>1. CASE last >= 0 /\ n < k
      <4>1. k - 1 \in Nat /\ n <= k - 1 /\ k - 1 < k /\ a <= k - 1
        BY <1>1, <1>2, <3>1
      <4>2. (k - 1) - a < Len(current.entries)
        BY <1>2, <4>1, ReadTypes DEF a
      <4>3. last + 1 \in 1 .. Len(current.entries)
        BY <1>1, <1>2, <3>1, <4>2
      <4>4. e \in Entry
        BY <1>1, <4>3, ElementOfSeq
      <4>5. e.start + e.total \in Nat
        BY <4>4 DEF Entry
      <4> HIDE DEF e
      <4>6. [current EXCEPT !.cursor = e.start + e.total] \in VirtualSegment
        BY <1>1, <4>5 DEF VirtualSegment
      <4>7. QED BY <3>1, <4>6
    <3>2. CASE ~(last >= 0 /\ n < k)
      BY <1>1, <3>2
    <3>3. QED BY <3>1, <3>2
  <2> HIDE DEF moved
  <2>3. c \in CursorsAfter(moved, k - a)
    BY <1>3, <1>5
  <2>4. QED BY <2>1, <2>2, <2>3, CursorTypes
<1>6. QED BY <1>4, <1>5

\* The records a poll reads from n up to k.
LEMMA RecordTypes ==
  ASSUME TypeOK, Loaded(segments, disk), NEW n \in Nat, NEW k \in Nat, n <= k
  PROVE  /\ Records(n, k) \in Seq(Record) /\ Len(Records(n, k)) = k - n
         /\ \A i \in 1 .. k - n : Records(n, k)[i].offset = n + i - 1
<1> DEFINE d == k - n
           e(i) == [offset |-> n + i - 1, data |-> ReadOutcome(n + i - 1).data]
<1>1. d \in Nat /\ \A i \in 1 .. d : n + i - 1 \in Nat
  OBVIOUS
<1>2. Records(n, k) = [i \in 1 .. d |-> e(i)]
  BY DEF Records
<1>3. ASSUME NEW i \in 1 .. d
      PROVE  e(i) \in Record /\ e(i).offset = n + i - 1
  <2> DEFINE j == n + i - 1
  <2>1. j \in Nat
    BY <1>1
  <2> HIDE DEF j
  <2>2. [offset |-> j, data |-> ReadOutcome(j).data] \in Record
    BY <2>1, ReadTypes DEF Record
  <2>3. QED BY <2>2 DEF j
<1> HIDE DEF d, e
<1>4. Records(n, k) \in Seq(Record)
  BY <1>1, <1>2, <1>3, IsASeq
<1>5. Len(Records(n, k)) = d
  BY <1>1, <1>2, <1>4
<1>6. \A i \in 1 .. d : Records(n, k)[i] = e(i)
  BY <1>2
<1>7. QED BY <1>3, <1>4, <1>5, <1>6 DEF d

-----------------------------------------------------------------------------
(* What a step does to the log and to its files.                            *)

\* FlushedImmutable, as an action.
Immutable ==
  \A o \in Pairs(disk) \ {current.start} :
    \/ disk'[o] = disk[o]
    \/ disk'[o].log = NoFile

\* What every step does to the log: the types hold, the segments in memory have
\* their files, and the flushed files are not rewritten.
LogKept == TypeOK' /\ Loaded(segments', disk') /\ Immutable

\* Sparing the other pairs is never rewriting a flushed one.
LEMMA SparesImmutable ==
  ASSUME Spares(disk, disk', current.start)
  PROVE  Immutable
<1>1. Pairs(disk) \subseteq Offset
  BY DEF Pairs
<1>2. QED BY <1>1 DEF Spares, Immutable

\* The write to v that an append begins with.
LEMMA WriteKeeps ==
  ASSUME TypeOK, NEW v \in VirtualSegment, NEW m \in Messages,
         current' = Write(v, m), UNCHANGED <<up, crashes>>,
         accepted' = Append(accepted, [offset |-> U16(v.start + v.next), data |-> m]),
         NEW segs \in Seq(Segment), NEW f, segments' = segs, disk' = f,
         Loaded(segs, f), Spares(disk, f, current.start)
  PROVE  LogKept /\ Last(accepted').offset \in Offset
<1>1. current' \in VirtualSegment
  BY WriteTypes
<1>2. accepted \in Seq([offset : Offset, data : Messages])
  BY DEF TypeOK
<1>3. /\ accepted' \in Seq([offset : Offset, data : Messages])
      /\ Last(accepted').offset \in Offset
  BY <1>2, AcceptedTypes
<1>4. TypeOK'
  BY <1>1, <1>3 DEF TypeOK, Spares
<1>5. QED BY <1>3, <1>4, SparesImmutable DEF LogKept

\* An append whose cleaning succeeds.
LEMMA AppendKeeps ==
  ASSUME TypeOK, Loaded(segments, disk), NEW m \in Messages, AppendMessage(m)
  PROVE  LogKept /\ Last(accepted').offset \in Offset
<1>1. disk \in [Offset -> Files] /\ current \in VirtualSegment /\ segments \in Seq(Segment)
  BY DEF TypeOK
<1>2. ASSUME NEW v \in VirtualSegment, NEW segs \in Seq(Segment), NEW f, f \in [Offset -> Files],
             Loaded(segs, f), Spares(disk, f, current.start), Store(v, m, segs, f)
      PROVE  LogKept /\ Last(accepted').offset \in Offset
  <2>1. Retained(segs) \in Seq(Segment) /\ Loaded(Retained(segs), Cleaned(f, segs))
    BY <1>2, LoadedCleaned
  <2>2. Spares(disk, Cleaned(f, segs), current.start)
    BY <1>2, SparesDelete DEF Cleaned
  <2>3. /\ current' = Write(v, m) /\ UNCHANGED <<up, crashes>>
        /\ segments' = Retained(segs) /\ disk' = Cleaned(f, segs)
        /\ accepted' = Append(accepted, [offset |-> U16(v.start + v.next), data |-> m])
    BY <1>2 DEF Store
  <2>4. QED BY <2>1, <2>2, <2>3, WriteKeeps
<1>3. CASE AppendInPlace(m)
  <2>1. Spares(disk, disk, current.start)
    BY <1>1 DEF Spares
  <2>2. QED BY <1>1, <1>2, <1>3, <2>1 DEF AppendInPlace
<1>4. CASE AppendAfterSplit(m)
  <2> DEFINE f == Flush(disk, current)
  <2>1. /\ f \in [Offset -> Files] /\ Spares(disk, f, current.start) /\ Loaded(segments, f)
    BY <1>1, FlushTypes, SparesFlush DEF Loaded
  <2>2. PICK segs \in Reloaded(f) : Store(Successor(current), m, segs, f)
    BY <1>4 DEF AppendAfterSplit
  <2> HIDE DEF f
  <2>3. segs \in Seq(Segment) /\ Loaded(segs, f)
    BY <1>1, <2>1, LoadedReloaded
  <2>4. Successor(current) \in VirtualSegment
    BY <1>1, SuccessorTypes
  <2>5. QED BY <1>2, <2>1, <2>2, <2>3, <2>4
<1>5. QED BY <1>3, <1>4 DEF AppendMessage

\* What a cleaning that fails leaves.
LEMMA UncleanedTypes ==
  ASSUME unlinked \subseteq Offset, NEW segs \in Seq(Segment), NEW f \in [Offset -> Files],
         Loaded(segs, f), NEW p, Spares(disk, f, p), NEW left \in Uncleaned(segs, f)
  PROVE  /\ left.segs \in Seq(Segment) /\ Loaded(left.segs, left.files)
         /\ Spares(disk, left.files, p) /\ left.unlinked \subseteq Offset
<1>1. CASE unlinked # {}
  <2>1. left = [segs |-> segs, files |-> f, unlinked |-> unlinked]
    BY <1>1 DEF Uncleaned
  <2>2. QED BY <2>1
<1>2. CASE unlinked = {}
  <2> DEFINE failedAt(n, lost) ==
               [segs |-> SubSeq(segs, n, Len(segs)),
                files |-> Delete(f, {segs[i].start : i \in 1 .. n - 1}),
                unlinked |-> lost]
  <2>1. PICK n \in 1 .. Excess(segs) : left \in {failedAt(n, {}), failedAt(n, {segs[n].start})}
    BY <1>2, Zenon DEF Uncleaned
  <2>2. n - 1 \in 0 .. Len(segs) /\ (n - 1) + 1 = n /\ n \in 1 .. Len(segs)
    <3>1. Excess(segs) \in 0 .. Len(segs) /\ Len(segs) \in Nat
      BY ExcessBounded
    <3>2. QED BY <3>1
  <2>3. /\ SubSeq(segs, n, Len(segs)) \in Seq(Segment)
        /\ Loaded(SubSeq(segs, n, Len(segs)), Delete(f, {segs[i].start : i \in 1 .. n - 1}))
    <3> DEFINE t(k) == SubSeq(segs, k + 1, Len(segs))
               d(k) == Delete(f, {segs[i].start : i \in 1 .. k})
    <3>1. t(n - 1) \in Seq(Segment) /\ Loaded(t(n - 1), d(n - 1))
      BY <2>2, LoadedSuffix
    <3>2. QED BY <2>2, <3>1
  <2>4. Spares(disk, Delete(f, {segs[i].start : i \in 1 .. n - 1}), p)
    BY SparesDelete
  <2>5. segs[n].start \in Offset
    <3>1. segs[n] \in Segment
      BY <2>2, ElementOfSeq
    <3>2. QED BY <3>1 DEF Segment
  <2>6. /\ left.segs = SubSeq(segs, n, Len(segs))
        /\ left.files = Delete(f, {segs[i].start : i \in 1 .. n - 1})
        /\ left.unlinked \in {{}, {segs[n].start}}
    BY <2>1
  <2>7. QED BY <2>3, <2>4, <2>5, <2>6
<1>3. QED BY <1>1, <1>2

\* An append whose cleaning fails.
LEMMA StoreUncleanedKeeps ==
  ASSUME TypeOK, unlinked \subseteq Offset, faults \in 0 .. MaxFaults,
         NEW v \in VirtualSegment, NEW m \in Messages,
         NEW segs \in Seq(Segment), NEW f \in [Offset -> Files],
         Loaded(segs, f), Spares(disk, f, current.start), StoreUncleaned(v, m, segs, f)
  PROVE  LogKept /\ unlinked' \subseteq Offset /\ faults' \in 0 .. MaxFaults
<1>1. PICK left \in Uncleaned(segs, f) :
        segments' = left.segs /\ disk' = left.files /\ unlinked' = left.unlinked
  BY DEF StoreUncleaned
<1>2. /\ current' = Write(v, m) /\ UNCHANGED <<up, crashes>>
      /\ accepted' = Append(accepted, [offset |-> U16(v.start + v.next), data |-> m])
  BY DEF StoreUncleaned
<1>3. /\ left.segs \in Seq(Segment) /\ Loaded(left.segs, left.files)
      /\ Spares(disk, left.files, current.start) /\ left.unlinked \subseteq Offset
  BY UncleanedTypes
<1>4. LogKept
  BY <1>1, <1>2, <1>3, WriteKeeps
<1>5. faults' \in 0 .. MaxFaults
  BY BatchesAssumption DEF StoreUncleaned
<1>6. QED BY <1>1, <1>3, <1>4, <1>5

\* In memory or after a split.
LEMMA UncleanedKeeps ==
  ASSUME TypeOK, Loaded(segments, disk), unlinked \subseteq Offset, faults \in 0 .. MaxFaults,
         Message \in Messages, AppendUncleaned
  PROVE  LogKept /\ unlinked' \subseteq Offset /\ faults' \in 0 .. MaxFaults
<1>1. disk \in [Offset -> Files] /\ current \in VirtualSegment /\ segments \in Seq(Segment)
  BY DEF TypeOK
<1> DEFINE f == Flush(disk, current)
<1>2. CASE Fits(current, Message)
  <2>1. Spares(disk, disk, current.start)
    BY <1>1 DEF Spares
  <2>2. StoreUncleaned(current, Message, segments, disk)
    BY <1>2 DEF AppendUncleaned
  <2>3. QED BY <1>1, <2>1, <2>2, StoreUncleanedKeeps
<1>3. CASE ~Fits(current, Message)
  <2>1. /\ f \in [Offset -> Files] /\ Spares(disk, f, current.start) /\ Loaded(segments, f)
    BY <1>1, FlushTypes, SparesFlush DEF Loaded
  <2>2. PICK segs \in Reloaded(f) : StoreUncleaned(Successor(current), Message, segs, f)
    BY <1>3 DEF AppendUncleaned
  <2> HIDE DEF f
  <2>3. segs \in Seq(Segment) /\ Loaded(segs, f)
    BY <1>1, <2>1, LoadedReloaded
  <2>4. Successor(current) \in VirtualSegment
    BY <1>1, SuccessorTypes
  <2>5. QED BY <2>1, <2>2, <2>3, <2>4, StoreUncleanedKeeps
<1>4. QED BY <1>2, <1>3

\* A stop that spares the flushed files.
LEMMA StopKeeps ==
  ASSUME TypeOK, NEW f, Spares(disk, f, current.start), Stop(f)
  PROVE  LogKept
<1>1. NewVirtual(0) \in VirtualSegment
  BY OffsetsAre, NewTypes
<1>2. crashes' \in 0 .. MaxCrashes
  BY CommitlogAssumption DEF TypeOK, Stop
<1>3. <<>> \in Seq(Segment) /\ DOMAIN <<>> = {}
  OBVIOUS
<1>4. TypeOK'
  BY <1>1, <1>2, <1>3 DEF TypeOK, Stop, Spares
<1>5. Loaded(segments', disk')
  BY <1>3 DEF Stop, Loaded
<1>6. QED BY <1>4, <1>5, SparesImmutable DEF LogKept, Stop

\* Opening: the orphans that go are not flushed segments.
LEMMA OpenKeeps ==
  ASSUME TypeOK, Open
  PROVE  LogKept
<1> DEFINE starts == Ascending(Pairs(disk))
<1>1. disk \in [Offset -> Files] /\ current \in VirtualSegment
  BY DEF TypeOK
<1>2. /\ starts \in Seq(Pairs(disk)) /\ Len(starts) \in Nat /\ DOMAIN starts = 1 .. Len(starts)
      /\ \A i, j \in DOMAIN starts : starts[i] = starts[j] => i = j
  BY AscendingIs
<1>3. /\ segments' = [i \in DOMAIN starts |-> LoadSegment(disk, starts[i])]
      /\ current' = IF Len(starts) > 1 THEN LoadVirtual(disk, Last(starts)) ELSE current
      /\ disk' = IF starts = <<>> THEN disk ELSE Delete(disk, Orphans(disk))
      /\ up' = TRUE /\ UNCHANGED <<accepted, crashes>>
  BY DEF Open
<1> HIDE DEF starts
<1>4. \A i \in DOMAIN starts : starts[i] \in Pairs(disk)
  BY <1>2, ElementOfSeq
<1>5. \A i \in DOMAIN starts : /\ LoadSegment(disk, starts[i]) \in Segment
                               /\ LoadSegment(disk, starts[i]).start = starts[i]
  BY <1>1, <1>4, LoadTypes
<1>6. /\ segments' \in Seq(Segment) /\ DOMAIN segments' = DOMAIN starts
      /\ \A i \in DOMAIN starts : segments'[i].start = starts[i]
  <2>1. [i \in 1 .. Len(starts) |-> LoadSegment(disk, starts[i])] \in Seq(Segment)
    BY <1>2, <1>5, IsASeq
  <2>2. QED BY <1>2, <1>3, <1>5, <2>1
<1>7. current' \in VirtualSegment
  <2>1. CASE Len(starts) > 1
    <3>1. Last(starts) \in Pairs(disk)
      <4>1. Len(starts) \in DOMAIN starts
        BY <1>2, <2>1
      <4>2. QED BY <1>4, <4>1 DEF Last
    <3>2. QED BY <1>1, <1>3, <2>1, <3>1, LoadTypes
  <2>2. CASE ~(Len(starts) > 1)
    BY <1>1, <1>3, <2>2
  <2>3. QED BY <2>1, <2>2
<1>8. Spares(disk, disk', current.start) /\ Pairs(disk) \subseteq Pairs(disk')
  <2>1. Spares(disk, disk, current.start)
    BY <1>1 DEF Spares
  <2>2. Spares(disk, Delete(disk, Orphans(disk)), current.start)
    BY <2>1, SparesDelete
  <2>3. Pairs(Delete(disk, Orphans(disk))) = Pairs(disk) \ Orphans(disk)
    BY <1>1, DeleteTypes
  <2>4. Pairs(disk) \ Orphans(disk) = Pairs(disk)
    BY DEF Orphans
  <2>5. QED BY <1>3, <2>1, <2>2, <2>3, <2>4
<1>9. TypeOK'
  BY <1>3, <1>6, <1>7, <1>8 DEF TypeOK, Spares
<1>10. Loaded(segments', disk')
  BY <1>2, <1>4, <1>6, <1>8 DEF Loaded
<1>11. QED BY <1>8, <1>9, <1>10, SparesImmutable DEF LogKept

-----------------------------------------------------------------------------
(* What a step does to the groups.                                          *)

\* The variables of the groups.
GroupTypes ==
  /\ offset \in [Group -> Nat]
  /\ saved \in [Group -> Nat]
  /\ delivered \in [Group -> Seq(Record)]
  /\ dropped \in [Group -> SUBSET Nat]

\* What the broker has in memory is at least what it saved, and what it answered lies
\* below what it saved, in order.
GroupSaved(g) ==
  /\ up => saved[g] <= offset[g]
  /\ \A i \in DOMAIN delivered[g] : delivered[g][i].offset < saved[g]
  /\ \A i, j \in DOMAIN delivered[g] : i < j => delivered[g][i].offset < delivered[g][j].offset

\* The invariant of the groups.
GroupsInv == GroupTypes /\ \A g \in Group : GroupSaved(g)

\* SavedNeverBack, as an action.
SavedGrows == \A g \in Group : saved[g] <= saved'[g] /\ (up => saved[g] <= offset'[g])

\* Steps that are not about groups keep it, stops included.
LEMMA GroupsStay ==
  ASSUME GroupsInv, UNCHANGED groupVars, up' => up
  PROVE  GroupsInv' /\ SavedGrows
<1>1. UNCHANGED <<offset, saved, delivered, dropped>>
  BY DEF groupVars
<1>2. GroupsInv'
  BY <1>1 DEF GroupsInv, GroupTypes, GroupSaved
<1>3. SavedGrows
  BY <1>1 DEF GroupsInv, GroupTypes, GroupSaved, SavedGrows
<1>4. QED BY <1>2, <1>3

\* Where a poll of g starts.
LEMMA StartOfPoll ==
  ASSUME TypeOK, GroupTypes, NEW g \in Group
  PROVE  Initialized(g) \in Nat /\ offset[g] <= Initialized(g)
<1>1. offset[g] \in Nat
  BY DEF GroupTypes
<1>2. OldestOffset \in Nat
  <2>1. CASE segments = <<>>
    BY <2>1 DEF OldestOffset
  <2>2. CASE segments # <<>>
    <3>1. segments[1] \in Segment
      BY <2>2, EmptySeq DEF TypeOK
    <3>2. QED BY <2>2, <3>1, SegmentNats DEF OldestOffset
  <2>3. QED BY <2>1, <2>2
<1>3. QED BY <1>1, <1>2 DEF Initialized

\* Answering g the records from n on, which it has not passed, is in order.
LEMMA DeliveredMore ==
  ASSUME NEW old \in Seq(Record), NEW s \in Nat, NEW n \in Nat, NEW k \in Nat, s <= n, n <= k,
         NEW rs \in Seq(Record), Len(rs) = k - n, \A i \in 1 .. k - n : rs[i].offset = n + i - 1,
         \A i \in DOMAIN old : old[i].offset < s,
         \A i, j \in DOMAIN old : i < j => old[i].offset < old[j].offset
  PROVE  /\ old \o rs \in Seq(Record)
         /\ \A i \in DOMAIN (old \o rs) : (old \o rs)[i].offset < k
         /\ \A i, j \in DOMAIN (old \o rs) :
              i < j => (old \o rs)[i].offset < (old \o rs)[j].offset
<1> DEFINE l == Len(old)
           d == k - n
           c == old \o rs
<1>1. l \in Nat /\ d \in Nat /\ DOMAIN old = 1 .. l
  OBVIOUS
<1>2. /\ c \in Seq(Record) /\ Len(c) = l + d
      /\ \A i \in 1 .. l + d : c[i] = IF i <= l THEN old[i] ELSE rs[i - l]
  <2>1. /\ old \o rs \in Seq(Record) /\ Len(old \o rs) = Len(old) + Len(rs)
        /\ \A i \in 1 .. Len(old) + Len(rs) :
             (old \o rs)[i] = IF i <= Len(old) THEN old[i] ELSE rs[i - Len(old)]
    BY ConcatProperties
  <2>2. Len(rs) = d
    OBVIOUS
  <2>3. QED BY <2>1, <2>2
<1>3. DOMAIN c = 1 .. l + d
  BY <1>1, <1>2
<1>4. \A i \in 1 .. l : old[i].offset \in Nat /\ old[i].offset < s
  <2>1. \A i \in 1 .. l : old[i] \in Record
    BY ElementOfSeq
  <2>2. QED BY <1>1, <2>1 DEF Record
<1>5. \A i \in 1 .. d : rs[i].offset = n + i - 1
  OBVIOUS
<1> HIDE DEF l, d, c
<1>6. ASSUME NEW i \in 1 .. l + d
      PROVE  \/ i \in 1 .. l /\ c[i].offset = old[i].offset
             \/ i > l /\ c[i].offset = n + (i - l) - 1
  <2>1. CASE i <= l
    BY <1>1, <1>2, <2>1
  <2>2. CASE ~(i <= l)
    <3>1. i - l \in 1 .. d /\ i > l
      BY <1>1, <2>2
    <3>2. QED BY <1>2, <1>5, <2>2, <3>1
  <2>3. QED BY <2>1, <2>2
<1>7. k = n + d
  BY <1>1 DEF d
<1>8. ASSUME NEW i \in 1 .. l + d
      PROVE  c[i].offset < k
  <2>1. CASE i \in 1 .. l /\ c[i].offset = old[i].offset
    <3>1. old[i].offset \in Nat /\ old[i].offset < s
      BY <1>4, <2>1
    <3>2. QED BY <2>1, <3>1
  <2>2. CASE i > l /\ c[i].offset = n + (i - l) - 1
    BY <1>1, <1>7, <2>2
  <2>3. QED BY <1>6, <2>1, <2>2
<1>9. ASSUME NEW i \in 1 .. l + d, NEW j \in 1 .. l + d, i < j
      PROVE  c[i].offset < c[j].offset
  <2>1. CASE j \in 1 .. l /\ c[j].offset = old[j].offset
    <3>1. i \in 1 .. l /\ ~(i > l)
      BY <1>1, <1>9, <2>1
    <3>2. c[i].offset = old[i].offset
      BY <1>6, <3>1
    <3>3. old[i].offset < old[j].offset
      BY <1>1, <1>9, <2>1, <3>1
    <3>4. QED BY <2>1, <3>2, <3>3
  <2>2. CASE j > l /\ c[j].offset = n + (j - l) - 1
    <3>1. CASE i \in 1 .. l /\ c[i].offset = old[i].offset
      <4>1. old[i].offset \in Nat /\ old[i].offset < s
        BY <1>4, <3>1
      <4>2. QED BY <1>1, <2>2, <3>1, <4>1
    <3>2. CASE i > l /\ c[i].offset = n + (i - l) - 1
      BY <1>1, <1>9, <2>2, <3>2
    <3>3. QED BY <1>6, <3>1, <3>2
  <2>3. QED BY <1>6, <2>1, <2>2
<1>10. QED BY <1>2, <1>3, <1>8, <1>9 DEF c

\* A poll saves its group before it answers: what the next one brings lies above.
LEMMA ConsumeGroups ==
  ASSUME TypeOK, Loaded(segments, disk), GroupsInv, NEW g \in Group, NEW waits \in BOOLEAN,
         Consume(g, waits)
  PROVE  TypeOK' /\ UNCHANGED <<segments, disk>> /\ GroupsInv' /\ SavedGrows
<1> DEFINE n == Initialized(g)
<1>1. n \in Nat /\ offset[g] <= n
  BY StartOfPoll DEF GroupsInv
<1> HIDE DEF n
<1>2. PICK k \in IF waits THEN {StopFrom(n)} ELSE {n} :
          LET failed == waits /\ ReadOutcome(k).kind = "Failed"
          IN /\ offset' = [offset EXCEPT ![g] = k]
             /\ saved' = SavedAfter(g, n, k, failed)
             /\ delivered' = IF failed THEN delivered
                             ELSE [delivered EXCEPT ![g] = @ \o Records(n, k)]
             /\ dropped' = IF failed THEN [dropped EXCEPT ![g] = @ \cup (n .. k - 1)]
                           ELSE dropped
             /\ \E c \in IF waits THEN CursorsAfterScan(n, k) ELSE {current.cursor} :
                  current' = [current EXCEPT !.cursor = c]
  BY DEF Consume, n
<1> DEFINE failed == waits /\ ReadOutcome(k).kind = "Failed"
           rs == Records(n, k)
<1>3. k \in Nat /\ n <= k
  BY <1>1, <1>2, StopIs
<1>4. /\ offset' = [offset EXCEPT ![g] = k]
      /\ saved' = SavedAfter(g, n, k, failed)
      /\ delivered' = IF failed THEN delivered ELSE [delivered EXCEPT ![g] = @ \o rs]
      /\ dropped' = IF failed THEN [dropped EXCEPT ![g] = @ \cup (n .. k - 1)] ELSE dropped
  BY <1>2
<1>5. up /\ UNCHANGED <<up, segments, disk, accepted, crashes>>
  BY DEF Consume
<1>6. TypeOK'
  <2>1. PICK c \in IF waits THEN CursorsAfterScan(n, k) ELSE {current.cursor} :
               current' = [current EXCEPT !.cursor = c]
    BY <1>2
  <2>2. c \in Nat
    <3>1. CASE waits
      <4>1. k = StopFrom(n) /\ c \in CursorsAfterScan(n, k)
        BY <1>2, <2>1, <3>1
      <4>2. QED BY <1>1, <4>1, ScanTypes
    <3>2. CASE ~waits
      BY <2>1, <3>2 DEF TypeOK, VirtualSegment
    <3>3. QED BY <3>1, <3>2
  <2>3. current' \in VirtualSegment
    BY <2>1, <2>2 DEF TypeOK, VirtualSegment
  <2>4. QED BY <1>5, <2>3 DEF TypeOK
<1>7. rs \in Seq(Record) /\ Len(rs) = k - n /\ \A i \in 1 .. k - n : rs[i].offset = n + i - 1
  BY <1>1, <1>3, RecordTypes
<1> HIDE DEF failed, rs
<1>8. /\ offset \in [Group -> Nat] /\ saved \in [Group -> Nat]
      /\ delivered \in [Group -> Seq(Record)] /\ dropped \in [Group -> SUBSET Nat]
      /\ \A h \in Group : saved[h] <= offset[h]
  BY <1>5 DEF GroupsInv, GroupTypes, GroupSaved
<1>9. /\ saved' \in [Group -> Nat]
      /\ \A h \in Group \ {g} : saved'[h] \in {saved[h], offset[h]}
      /\ saved'[g] = IF ~failed /\ n < k THEN k ELSE IF offset[g] < n THEN n ELSE saved[g]
  BY <1>1, <1>3, <1>4, <1>8 DEF SavedAfter
<1>10. saved[g] <= n /\ saved[g] <= saved'[g] /\ saved'[g] <= k
  <2>1. saved[g] \in Nat /\ offset[g] \in Nat /\ saved[g] <= offset[g]
    BY <1>8
  <2>2. QED BY <1>1, <1>3, <1>9, <2>1
<1>11. ASSUME NEW h \in Group \ {g}
       PROVE  saved[h] <= saved'[h] /\ saved'[h] <= offset[h]
  <2>1. saved[h] \in Nat /\ offset[h] \in Nat /\ saved[h] <= offset[h]
    BY <1>8
  <2>2. saved'[h] = saved[h] \/ saved'[h] = offset[h]
    BY <1>9
  <2>3. QED BY <2>1, <2>2
<1>12. /\ offset' \in [Group -> Nat] /\ offset'[g] = k
       /\ \A h \in Group \ {g} : offset'[h] = offset[h]
  BY <1>3, <1>4, <1>8
<1>13. dropped' \in [Group -> SUBSET Nat]
  <2>1. n .. k - 1 \subseteq Nat
    BY <1>1, <1>3
  <2>2. QED BY <1>4, <1>8, <2>1
<1>14. SavedGrows
  <2> SUFFICES ASSUME NEW h \in Group
               PROVE  saved[h] <= saved'[h] /\ saved[h] <= offset'[h]
    BY DEF SavedGrows
  <2>1. CASE h = g
    <3>1. saved[g] \in Nat
      BY <1>8
    <3>2. QED BY <1>1, <1>3, <1>10, <1>12, <2>1, <3>1
  <2>2. CASE h # g
    BY <1>8, <1>11, <1>12, <2>2
  <2>3. QED BY <2>1, <2>2
<1>15. CASE failed \/ ~(n < k)
  <2>1. delivered' \in [Group -> Seq(Record)] /\ \A h \in Group : delivered'[h] = delivered[h]
    <3>1. CASE failed
      BY <1>4, <1>8, <3>1
    <3>2. CASE ~failed /\ ~(n < k)
      <4>1. rs = <<>>
        BY <1>1, <1>3, <1>7, <3>2
      <4>2. \A h \in Group : delivered[h] \o <<>> = delivered[h]
        BY <1>8
      <4>3. delivered' = [delivered EXCEPT ![g] = delivered[g] \o <<>>]
        BY <1>4, <3>2, <4>1
      <4>4. QED BY <1>8, <4>2, <4>3
    <3>3. QED BY <1>15, <3>1, <3>2
  <2>2. ASSUME NEW h \in Group
        PROVE  GroupSaved(h)'
    <3>1. /\ \A i \in DOMAIN delivered[h] : delivered[h][i].offset < saved[h]
          /\ \A i, j \in DOMAIN delivered[h] :
               i < j => delivered[h][i].offset < delivered[h][j].offset
      BY DEF GroupsInv, GroupSaved
    <3>2. saved[h] <= saved'[h] /\ saved'[h] <= offset'[h]
      BY <1>3, <1>10, <1>11, <1>12
    <3>3. saved[h] \in Nat /\ saved'[h] \in Nat
      BY <1>8, <1>9
    <3>4. \A i \in DOMAIN delivered[h] : delivered[h][i].offset \in Nat
      <4>1. delivered[h] \in Seq(Record)
        BY <1>8
      <4>2. \A i \in DOMAIN delivered[h] : delivered[h][i] \in Record
        BY <4>1
      <4>3. QED BY <4>2 DEF Record
    <3>5. \A i \in DOMAIN delivered[h] : delivered[h][i].offset < saved'[h]
      BY <3>1, <3>2, <3>3, <3>4
    <3>6. QED BY <2>1, <3>1, <3>2, <3>5 DEF GroupSaved
  <2>3. GroupsInv'
    BY <1>9, <1>12, <1>13, <2>1, <2>2 DEF GroupsInv, GroupTypes
  <2>4. QED BY <1>5, <1>6, <1>14, <2>3
<1>16. CASE ~failed /\ n < k
  <2> DEFINE old == delivered[g]
             c == old \o rs
  <2>1. /\ old \in Seq(Record) /\ saved[g] \in Nat
        /\ \A i \in DOMAIN old : old[i].offset < saved[g]
        /\ \A i, j \in DOMAIN old : i < j => old[i].offset < old[j].offset
    BY <1>8 DEF GroupsInv, GroupSaved
  <2> HIDE DEF old
  <2>2. /\ c \in Seq(Record)
        /\ \A i \in DOMAIN c : c[i].offset < k
        /\ \A i, j \in DOMAIN c : i < j => c[i].offset < c[j].offset
    BY <1>1, <1>3, <1>7, <1>10, <2>1, DeliveredMore
  <2> HIDE DEF c
  <2>3. delivered' = [delivered EXCEPT ![g] = c]
    BY <1>4, <1>16 DEF c, old
  <2>4. /\ delivered' \in [Group -> Seq(Record)] /\ delivered'[g] = c
        /\ \A h \in Group \ {g} : delivered'[h] = delivered[h]
    BY <1>8, <2>2, <2>3
  <2>5. saved'[g] = k
    BY <1>9, <1>16
  <2>6. GroupSaved(g)'
    BY <1>3, <1>12, <2>2, <2>4, <2>5 DEF GroupSaved
  <2>7. ASSUME NEW h \in Group \ {g}
        PROVE  GroupSaved(h)'
    <3>1. /\ \A i \in DOMAIN delivered[h] : delivered[h][i].offset < saved[h]
          /\ \A i, j \in DOMAIN delivered[h] :
               i < j => delivered[h][i].offset < delivered[h][j].offset
      BY DEF GroupsInv, GroupSaved
    <3>2. saved[h] <= saved'[h] /\ saved'[h] <= offset'[h]
      BY <1>11, <1>12
    <3>3. saved[h] \in Nat /\ saved'[h] \in Nat
      BY <1>8, <1>9
    <3>4. \A i \in DOMAIN delivered[h] : delivered[h][i].offset \in Nat
      <4>1. delivered[h] \in Seq(Record)
        BY <1>8
      <4>2. \A i \in DOMAIN delivered[h] : delivered[h][i] \in Record
        BY <4>1
      <4>3. QED BY <4>2 DEF Record
    <3>5. \A i \in DOMAIN delivered[h] : delivered[h][i].offset < saved'[h]
      BY <3>1, <3>2, <3>3, <3>4
    <3>6. QED BY <2>4, <3>1, <3>2, <3>5 DEF GroupSaved
  <2>8. GroupsInv'
    BY <1>9, <1>12, <1>13, <2>4, <2>6, <2>7 DEF GroupsInv, GroupTypes
  <2>9. QED BY <1>5, <1>6, <1>14, <2>8
<1>17. QED BY <1>15, <1>16

\* A poll that a stop cuts off has saved nothing, or what it would have answered.
LEMMA StopInPollGroups ==
  ASSUME TypeOK, Loaded(segments, disk), GroupsInv, NEW g \in Group, NEW files,
         StopInPoll(g, files)
  PROVE  GroupsInv' /\ SavedGrows
<1> DEFINE n == Initialized(g)
           k == StopFrom(n)
<1>1. n \in Nat /\ offset[g] <= n
  BY StartOfPoll DEF GroupsInv
<1>2. k \in Nat /\ n <= k
  BY <1>1, StopIs
<1>3. /\ saved' \in {IF offset[g] < n THEN [offset EXCEPT ![g] = n] ELSE saved,
                     [offset EXCEPT ![g] = k]}
      /\ UNCHANGED <<offset, delivered, dropped>> /\ up /\ up' = FALSE
  BY DEF StopInPoll, Stop
<1> HIDE DEF n, k
<1>4. /\ offset \in [Group -> Nat] /\ saved \in [Group -> Nat]
      /\ delivered \in [Group -> Seq(Record)]
      /\ \A h \in Group : saved[h] <= offset[h]
  BY <1>3 DEF GroupsInv, GroupTypes, GroupSaved
<1>5. /\ saved' \in [Group -> Nat]
      /\ \A h \in Group : saved'[h] \in {saved[h], offset[h]} \/ (h = g /\ saved'[h] \in {n, k})
  BY <1>1, <1>2, <1>3, <1>4
<1>6. ASSUME NEW h \in Group
      PROVE  saved[h] \in Nat /\ saved'[h] \in Nat /\ saved[h] <= saved'[h]
  <2>1. saved[h] \in Nat /\ offset[h] \in Nat /\ saved[h] <= offset[h]
    BY <1>4
  <2>2. \/ saved'[h] = saved[h] \/ saved'[h] = offset[h]
        \/ h = g /\ (saved'[h] = n \/ saved'[h] = k)
    BY <1>5
  <2>3. h = g => saved[h] <= n /\ saved[h] <= k
    BY <1>1, <1>2, <2>1
  <2>4. QED BY <1>1, <1>2, <2>1, <2>2, <2>3
<1>7. ASSUME NEW h \in Group
      PROVE  GroupSaved(h)'
  <2>1. /\ \A i \in DOMAIN delivered[h] : delivered[h][i].offset < saved[h]
        /\ \A i, j \in DOMAIN delivered[h] :
             i < j => delivered[h][i].offset < delivered[h][j].offset
    BY DEF GroupsInv, GroupSaved
  <2>2. \A i \in DOMAIN delivered[h] : delivered[h][i].offset \in Nat
    <3>1. delivered[h] \in Seq(Record)
      BY <1>4
    <3>2. \A i \in DOMAIN delivered[h] : delivered[h][i] \in Record
      BY <3>1
    <3>3. QED BY <3>2 DEF Record
  <2>3. \A i \in DOMAIN delivered[h] : delivered[h][i].offset < saved'[h]
    BY <1>6, <2>1, <2>2
  <2>4. QED BY <1>3, <2>1, <2>3 DEF GroupSaved
<1>8. GroupsInv'
  BY <1>3, <1>5, <1>7 DEF GroupsInv, GroupTypes
<1>9. SavedGrows
  BY <1>3, <1>4, <1>6 DEF SavedGrows
<1>10. QED BY <1>8, <1>9

\* A start takes the groups from lucidmq.meta.
LEMMA OpenGroups ==
  ASSUME GroupsInv, TopicOpen
  PROVE  GroupsInv' /\ SavedGrows
<1>1. offset' = saved /\ UNCHANGED <<saved, delivered, dropped>> /\ ~up
  BY DEF TopicOpen, Open
<1>2. saved \in [Group -> Nat] /\ \A g \in Group : saved[g] <= saved[g]
  BY DEF GroupsInv, GroupTypes
<1>3. \A g \in Group : GroupSaved(g)'
  BY <1>1, <1>2 DEF GroupsInv, GroupSaved
<1>4. QED BY <1>1, <1>2, <1>3 DEF GroupsInv, GroupTypes, SavedGrows

-----------------------------------------------------------------------------
(* The invariant, and all that a step keeps.                                *)

\* The variables of the handler.
RequestTypes ==
  /\ request \in Request \cup {NoRequest}
  /\ unlinked \subseteq Offset
  /\ faults \in 0 .. MaxFaults
  /\ taken \in 0 .. MaxRequests
  /\ answers \in Seq(Answer)

\* The invariant: no more than types would be too little, for a read of a segment
\* whose file is gone has no bytes to answer, and a poll that was saved too low would
\* be answered twice.
BatchesInv == TypeOK /\ Loaded(segments, disk) /\ GroupsInv /\ RequestTypes

\* What every step keeps.
BatchesKept == BatchesInv' /\ Immutable /\ SavedGrows

\* It holds when a broker starts on an empty directory.
LEMMA BatchesStarts == BatchesInit => BatchesInv
<1> SUFFICES ASSUME BatchesInit PROVE BatchesInv
  OBVIOUS
<1>1. /\ Init /\ offset = [g \in Group |-> 0] /\ saved = offset
      /\ delivered = [g \in Group |-> <<>>] /\ dropped = [g \in Group |-> {}]
      /\ request = NoRequest /\ unlinked = {} /\ faults = 0 /\ taken = 0 /\ answers = <<>>
  BY DEF BatchesInit, TopicInit
<1>2. TypeOK /\ Loaded(segments, disk)
  <2>1. NewVirtual(0) \in VirtualSegment /\ Missing \in Files
    BY OffsetsAre, NewTypes DEF Missing, Files
  <2>2. <<>> \in Seq(Segment) /\ <<>> \in Seq([offset : Offset, data : Messages]) /\ DOMAIN <<>> = {}
    OBVIOUS
  <2>3. 0 \in 0 .. MaxCrashes
    BY CommitlogAssumption
  <2>4. QED BY <1>1, <2>1, <2>2, <2>3 DEF Init, TypeOK, Loaded
<1>3. GroupsInv
  <2>1. <<>> \in Seq(Record) /\ DOMAIN <<>> = {}
    OBVIOUS
  <2>2. QED BY <1>1, <2>1 DEF GroupsInv, GroupTypes, GroupSaved
<1>4. RequestTypes
  <2>1. <<>> \in Seq(Answer)
    OBVIOUS
  <2>2. QED BY <1>1, <2>1, BatchesAssumption DEF RequestTypes
<1>5. QED BY <1>2, <1>3, <1>4 DEF BatchesInv

\* The log and the groups stay.
LEMMA NothingMoves ==
  ASSUME BatchesInv, UNCHANGED <<logVars, groupVars>>
  PROVE  LogKept /\ GroupsInv' /\ SavedGrows
<1>1. UNCHANGED <<up, segments, current, disk, accepted, crashes>> /\ UNCHANGED groupVars
  BY DEF logVars
<1>2. TypeOK' /\ Loaded(segments', disk') /\ Immutable
  BY <1>1 DEF BatchesInv, TypeOK, Loaded, Immutable
<1>3. GroupsInv' /\ SavedGrows
  BY <1>1, GroupsStay DEF BatchesInv
<1>4. QED BY <1>2, <1>3 DEF LogKept

\* A batch that is not done has a message to append.
LEMMA MessageIs ==
  ASSUME RequestTypes, Unfinished
  PROVE  request \in Request /\ Message \in Messages
<1>1. request \in Request
  BY DEF RequestTypes, Unfinished
<1>2. request.batch \in Seq(Messages) /\ request.done \in Nat
  BY <1>1, BatchesAssumption DEF Request
<1>3. request.done + 1 \in 1 .. Len(request.batch)
  BY <1>2 DEF Unfinished
<1>4. Message \in Messages
  BY <1>2, <1>3, ElementOfSeq DEF Message
<1>5. QED BY <1>1, <1>4

\* An answer ends the request.
LEMMA AnsweredTypes ==
  ASSUME request \in Request, answers \in Seq(Answer),
         NEW done \in Nat, NEW success \in BOOLEAN, NEW last \in Offset,
         Answered(done, success, last)
  PROVE  request' = NoRequest /\ answers' \in Seq(Answer)
<1> DEFINE a == [batch |-> request.batch, first |-> request.first,
                 done |-> done, success |-> success, last |-> last]
<1>1. a \in Answer
  BY DEF Answer, Request
<1>2. Append(answers, a) \in Seq(Answer)
  BY <1>1, AppendProperties
<1>3. QED BY <1>2 DEF Answered

\* Handling batches, refusals and failed cleanings included, polls, stops at any
\* point and restarts keep the invariant, the flushed files and the saved offsets.
LEMMA BatchesStep ==
  ASSUME BatchesInv, [BatchesNext]_allVars
  PROVE  BatchesKept
<1>1. TypeOK /\ Loaded(segments, disk) /\ GroupsInv /\ RequestTypes
  BY DEF BatchesInv
<1>2. ASSUME NEW b \in Batch, TakeRequest(b)
      PROVE  BatchesKept
  <2>1. LogKept /\ GroupsInv' /\ SavedGrows
    BY <1>2, NothingMoves DEF TakeRequest
  <2>2. Len(accepted) + 1 \in Nat /\ 0 \in Offset
    BY <1>1, OffsetsAre DEF TypeOK
  <2>3. request' \in Request
    BY <1>2, <2>2 DEF TakeRequest, Request
  <2>4. taken' \in 0 .. MaxRequests
    BY <1>1, <1>2, BatchesAssumption DEF TakeRequest, RequestTypes
  <2>5. RequestTypes'
    BY <1>1, <1>2, <2>3, <2>4 DEF TakeRequest, RequestTypes
  <2>6. QED BY <2>1, <2>5 DEF BatchesKept, BatchesInv, LogKept
<1>3. CASE AppendNext
  <2>1. request \in Request /\ Message \in Messages /\ AppendMessage(Message)
    BY <1>1, <1>3, MessageIs DEF AppendNext
  <2>2. LogKept /\ Last(accepted').offset \in Offset
    BY <1>1, <2>1, AppendKeeps
  <2>3. GroupsInv' /\ SavedGrows
    <3>1. up
      BY <2>1 DEF AppendMessage, Storable
    <3>2. QED BY <1>1, <1>3, <3>1, GroupsStay DEF AppendNext
  <2>4. request' \in Request
    <3> DEFINE o == Last(accepted').offset
    <3>1. o \in Offset /\ request' = [request EXCEPT !.done = @ + 1, !.last = o]
      BY <1>3, <2>2 DEF AppendNext
    <3> HIDE DEF o
    <3>2. request.done + 1 \in Nat
      BY <2>1 DEF Request
    <3>3. QED BY <2>1, <3>1, <3>2 DEF Request
  <2>5. RequestTypes'
    BY <1>1, <1>3, <2>4 DEF AppendNext, RequestTypes
  <2>6. QED BY <2>2, <2>3, <2>5 DEF BatchesKept, BatchesInv, LogKept
<1>4. CASE AppendUncleaned
  <2>1. request \in Request /\ Message \in Messages
    BY <1>1, <1>4, MessageIs DEF AppendUncleaned
  <2>2. LogKept /\ unlinked' \subseteq Offset /\ faults' \in 0 .. MaxFaults
    BY <1>1, <1>4, <2>1, UncleanedKeeps DEF RequestTypes
  <2>3. GroupsInv' /\ SavedGrows
    BY <1>1, <1>4, GroupsStay DEF AppendUncleaned, Storable
  <2>4. request' = NoRequest /\ answers' \in Seq(Answer)
    <3>1. request.done + 1 \in Nat /\ 0 \in Offset /\ FALSE \in BOOLEAN
      BY <2>1, OffsetsAre DEF Request
    <3>2. Answered(request.done + 1, FALSE, 0)
      BY <1>4 DEF AppendUncleaned
    <3>3. QED BY <1>1, <2>1, <3>1, <3>2, AnsweredTypes DEF RequestTypes
  <2>5. RequestTypes'
    BY <1>1, <1>4, <2>2, <2>4 DEF AppendUncleaned, RequestTypes
  <2>6. QED BY <2>2, <2>3, <2>5 DEF BatchesKept, BatchesInv, LogKept
<1>5. CASE RefuseNext \/ AnswerRequest
  <2>1. LogKept /\ GroupsInv' /\ SavedGrows
    BY <1>5, NothingMoves DEF RefuseNext, AnswerRequest
  <2>2. request \in Request
    BY <1>1, <1>5 DEF RefuseNext, AnswerRequest, Unfinished, RequestTypes
  <2>3. request.done \in Nat /\ request.last \in Offset /\ 0 \in Offset
    BY <2>2, OffsetsAre DEF Request
  <2>4. PICK success \in BOOLEAN, last \in Offset : Answered(request.done, success, last)
    BY <1>5, <2>3 DEF RefuseNext, AnswerRequest
  <2>5. request' = NoRequest /\ answers' \in Seq(Answer)
    BY <1>1, <2>2, <2>3, <2>4, AnsweredTypes DEF RequestTypes
  <2>6. RequestTypes'
    BY <1>1, <1>5, <2>5 DEF RefuseNext, AnswerRequest, RequestTypes
  <2>7. QED BY <2>1, <2>6 DEF BatchesKept, BatchesInv, LogKept
<1>6. ASSUME NEW g \in Group, NEW waits \in BOOLEAN, ConsumeBetween(g, waits)
      PROVE  BatchesKept
  <2>1. TypeOK' /\ UNCHANGED <<segments, disk>> /\ GroupsInv' /\ SavedGrows
    BY <1>1, <1>6, ConsumeGroups DEF ConsumeBetween
  <2>2. Loaded(segments', disk') /\ Immutable
    BY <1>1, <2>1 DEF Immutable
  <2>3. RequestTypes'
    BY <1>1, <1>6 DEF ConsumeBetween, batchVars, RequestTypes
  <2>4. QED BY <2>1, <2>2, <2>3 DEF BatchesKept, BatchesInv
<1>7. CASE BatchStop
  <2>1. PICK files \in {disk} \cup Stages : Stop(Vanished(files))
    BY <1>7 DEF BatchStop
  <2>2. Spares(disk, files, current.start)
    BY <1>1, SparesStage
  <2>3. Spares(disk, Vanished(files), current.start)
    BY <2>2, SparesVanished
  <2>4. LogKept
    BY <1>1, <2>1, <2>3, StopKeeps
  <2>5. GroupsInv' /\ SavedGrows
    BY <1>1, <1>7, <2>1, GroupsStay DEF BatchStop, Stop
  <2>6. RequestTypes'
    BY <1>1, <1>7 DEF BatchStop, Forgotten, RequestTypes
  <2>7. QED BY <2>4, <2>5, <2>6 DEF BatchesKept, BatchesInv, LogKept
<1>8. ASSUME NEW g \in Group, StopInPollBetween(g)
      PROVE  BatchesKept
  <2>1. StopInPoll(g, Vanished(disk)) /\ Stop(Vanished(disk))
    BY <1>8 DEF StopInPollBetween, StopInPoll
  <2>2. Spares(disk, disk, current.start)
    BY <1>1 DEF TypeOK, Spares
  <2>3. Spares(disk, Vanished(disk), current.start)
    BY <2>2, SparesVanished
  <2>4. LogKept
    BY <1>1, <2>1, <2>3, StopKeeps
  <2>5. GroupsInv' /\ SavedGrows
    BY <1>1, <2>1, StopInPollGroups
  <2>6. RequestTypes'
    BY <1>1, <1>8 DEF StopInPollBetween, Forgotten, RequestTypes
  <2>7. QED BY <2>4, <2>5, <2>6 DEF BatchesKept, BatchesInv, LogKept
<1>9. CASE OpenAgain
  <2>1. TopicOpen /\ Open /\ UNCHANGED batchVars
    BY <1>9 DEF OpenAgain, TopicOpen
  <2>2. LogKept
    BY <1>1, <2>1, OpenKeeps
  <2>3. GroupsInv' /\ SavedGrows
    BY <1>1, <2>1, OpenGroups
  <2>4. RequestTypes'
    BY <1>1, <2>1 DEF batchVars, RequestTypes
  <2>5. QED BY <2>2, <2>3, <2>4 DEF BatchesKept, BatchesInv, LogKept
<1>10. CASE UNCHANGED allVars
  <2>1. UNCHANGED <<logVars, groupVars>> /\ UNCHANGED batchVars
    BY <1>10 DEF allVars
  <2>2. LogKept /\ GroupsInv' /\ SavedGrows
    BY <2>1, NothingMoves
  <2>3. RequestTypes'
    BY <1>1, <2>1 DEF batchVars, RequestTypes
  <2>4. QED BY <2>2, <2>3 DEF BatchesKept, BatchesInv, LogKept
<1>11. QED
  BY <1>2, <1>3, <1>4, <1>5, <1>6, <1>7, <1>8, <1>9, <1>10 DEF BatchesNext, HandleBatch

\* The invariant holds in every life of the broker.
LEMMA BatchesInvariant == BatchesSpec => []BatchesInv
<1>1. BatchesInit => BatchesInv
  BY BatchesStarts
<1>2. BatchesInv /\ [BatchesNext]_allVars => BatchesInv'
  BY BatchesStep DEF BatchesKept
<1>3. QED BY <1>1, <1>2, PTL DEF BatchesSpec

-----------------------------------------------------------------------------
(* The first life, in which memory and directory have the same segments.    *)

\* The flushed segments are all the pairs there are, and no file lacks its partner.
Complete(segs, files) ==
  /\ Loaded(segs, files)
  /\ \A o \in Pairs(files) : \E i \in DOMAIN segs : segs[i].start = o
  /\ Orphans(files) = {}

\* A log file without a name is never the only one.
Spare(segs) == unlinked # {} => \E i \in DOMAIN segs : segs[i].start \notin unlinked

\* A reload leaves the segments there are, and finds all the others.
LEMMA ReloadedAll ==
  ASSUME NEW files \in [Offset -> Files], segments \in Seq(Segment), NEW segs \in Reloaded(files)
  PROVE  /\ \A i \in DOMAIN segments : i \in DOMAIN segs /\ segs[i] = segments[i]
         /\ \A o \in Pairs(files) : \E i \in DOMAIN segs : segs[i].start = o
<1> DEFINE loaded == {segments[i].start : i \in DOMAIN segments}
           T == Pairs(files) \ loaded
           more(order) == [i \in DOMAIN order |-> LoadSegment(files, order[i])]
<1>1. PICK order \in SetToSeqs(T) : segs = segments \o more(order)
  BY Zenon DEF Reloaded
<1> DEFINE n == Cardinality(T)
           t == more(order)
           l == Len(segments)
<1>2. n \in Nat /\ IsFiniteSet(T) /\ T \subseteq Pairs(files)
  BY PairsAre
<1>3. order \in [1 .. n -> T] /\ \A i, j \in 1 .. n : i # j => order[i] # order[j]
  BY <1>1, Zenon DEF SetToSeqs
<1>4. ASSUME NEW o \in T
      PROVE  \E k \in 1 .. n : order[k] = o
  <2> SUFFICES ASSUME \A k \in 1 .. n : order[k] # o PROVE FALSE
    OBVIOUS
  <2>1. IsFiniteSet(T \ {o}) /\ Cardinality(T \ {o}) = Cardinality(T) - 1
    BY <1>2, FS_RemoveElement
  <2>2. IsFiniteSet(1 .. n) /\ Cardinality(1 .. n) = n
    <3>0. n \in Int
      BY <1>2
    <3> HIDE DEF n
    <3>1. Cardinality(1 .. n) = IF 1 > n THEN 0 ELSE n - 1 + 1
      BY <3>0, FS_Interval
    <3>2. IsFiniteSet(1 .. n)
      BY <3>0, FS_Interval
    <3>3. (IF 1 > n THEN 0 ELSE n - 1 + 1) = n
      BY <1>2
    <3>4. QED BY <3>1, <3>2, <3>3
  <2>3. order \in [1 .. n -> T \ {o}]
    BY <1>3
  <2>4. Cardinality(T \ {o}) < Cardinality(1 .. n)
    <3>1. Cardinality(T \ {o}) = n - 1
      BY <2>1
    <3> HIDE DEF n, T
    <3>2. n - 1 < n
      BY <1>2
    <3>3. QED BY <2>2, <3>1, <3>2
  <2> HIDE DEF n, T
  <2>5. \E x, y \in 1 .. n : x # y /\ order[x] = order[y]
    BY <2>1, <2>2, <2>3, <2>4, FS_PigeonHole
  <2>6. QED BY <1>3, <2>5
<1> HIDE DEF n
<1>5. t = [i \in 1 .. n |-> LoadSegment(files, order[i])]
  BY <1>3
<1>6. \A i \in 1 .. n : order[i] \in Pairs(files)
  BY <1>2, <1>3
<1>7. \A i \in 1 .. n : LoadSegment(files, order[i]) \in Segment /\ LoadSegment(files, order[i]).start = order[i]
  BY <1>6, LoadTypes
<1> HIDE DEF more, T
<1>8. t \in Seq(Segment) /\ Len(t) = n /\ \A i \in 1 .. n : t[i].start = order[i]
  <2>1. t \in Seq(Segment)
    BY <1>2, <1>5, <1>7, IsASeq
  <2>2. Len(t) = n
    BY <1>2, <1>5
  <2>3. QED BY <1>5, <1>7, <2>1, <2>2
<1> HIDE DEF t
<1>9. /\ DOMAIN segs = 1 .. l + n /\ l \in Nat /\ DOMAIN segments = 1 .. l
      /\ \A i \in 1 .. l + n : segs[i] = IF i <= l THEN segments[i] ELSE t[i - l]
  <2>1. segs = segments \o t
    BY <1>1 DEF t
  <2>2. /\ segments \o t \in Seq(Segment) /\ Len(segments \o t) = Len(segments) + Len(t)
        /\ \A i \in 1 .. Len(segments) + Len(t) :
             (segments \o t)[i] = IF i <= Len(segments) THEN segments[i] ELSE t[i - Len(segments)]
    BY <1>8, ConcatProperties
  <2>3. Len(segments) \in Nat
    OBVIOUS
  <2>4. QED BY <1>8, <2>1, <2>2, <2>3
<1> HIDE DEF l
<1>10. \A i \in 1 .. l : i \in 1 .. l + n /\ segs[i] = segments[i]
  BY <1>2, <1>9
<1>11. ASSUME NEW o \in Pairs(files)
       PROVE  \E i \in DOMAIN segs : segs[i].start = o
  <2>1. CASE o \in loaded
    <3>1. PICK i \in 1 .. l : segments[i].start = o
      BY <1>9, <2>1
    <3>2. QED BY <1>9, <1>10, <3>1
  <2>2. CASE o \notin loaded
    <3>1. PICK k \in 1 .. n : order[k] = o
      BY <1>4, <2>2 DEF T
    <3>2. l + k \in 1 .. l + n /\ ~(l + k <= l) /\ (l + k) - l = k
      BY <1>2, <1>9, <3>1
    <3>3. segs[l + k] = t[k]
      BY <1>9, <3>2
    <3>4. QED BY <1>8, <1>9, <3>1, <3>2, <3>3
  <2>3. QED BY <2>1, <2>2
<1>12. QED BY <1>9, <1>10, <1>11

\* A flush makes a pair.
LEMMA FlushPair ==
  ASSUME NEW files \in [Offset -> Files], NEW v \in VirtualSegment
  PROVE  v.start \in Pairs(Flush(files, v))
<1> DEFINE old == files[v.start]
           a == Overlay(old.log, v.contents)
           b == Overlay(old.index, v.entries)
<1>1. v.start \in Offset /\ v.contents \in Seq(Byte) /\ v.entries \in Seq(Entry)
  BY DEF VirtualSegment
<1>2. old.log \in Seq(Byte) \cup {NoFile} /\ old.index \in Seq(Entry) \cup {NoFile}
  BY <1>1, FileTypes
<1>3. a \in Seq(Byte) /\ b \in Seq(Entry)
  BY <1>1, <1>2, OverlayType
<1>4. Flush(files, v) = [files EXCEPT ![v.start] = [log |-> a, index |-> b]]
  BY DEF Flush
<1> HIDE DEF a, b
<1>5. Flush(files, v)[v.start] = [log |-> a, index |-> b]
  BY <1>1, <1>4
<1>6. QED BY <1>1, <1>3, <1>5, NoFileIs DEF Pairs

\* A flush makes one more pair, and a reload a segment of it.
LEMMA CompleteFlush ==
  ASSUME TypeOK, Complete(segments, disk), NEW segs \in Reloaded(Flush(disk, current))
  PROVE  Complete(segs, Flush(disk, current))
<1> DEFINE f == Flush(disk, current)
<1>1. disk \in [Offset -> Files] /\ current \in VirtualSegment /\ segments \in Seq(Segment)
  BY DEF TypeOK
<1>2. /\ f \in [Offset -> Files] /\ Pairs(disk) \subseteq Pairs(f)
      /\ \A o \in Offset \ {current.start} : f[o] = disk[o]
  BY <1>1, FlushTypes
<1>3. current.start \in Pairs(f)
  BY <1>1, FlushPair
<1> HIDE DEF f
<1>4. Loaded(segments, f)
  BY <1>2 DEF Complete, Loaded
<1>5. segs \in Reloaded(f)
  BY DEF f
<1>6. Loaded(segs, f) /\ \A o \in Pairs(f) : \E i \in DOMAIN segs : segs[i].start = o
  BY <1>1, <1>2, <1>4, <1>5, LoadedReloaded, ReloadedAll
<1>7. Orphans(f) = {}
  <2> SUFFICES ASSUME NEW o \in Orphans(f) PROVE FALSE
    OBVIOUS
  <2>1. o \in Offset /\ f[o] # Missing /\ o \notin Pairs(f)
    BY DEF Orphans
  <2>2. o # current.start
    BY <1>3, <2>1
  <2>3. disk[o] # Missing /\ o \notin Pairs(disk)
    BY <1>2, <2>1, <2>2
  <2>4. QED BY <2>1, <2>3 DEF Complete, Orphans
<1>8. QED BY <1>6, <1>7 DEF Complete, f

\* Removing oldest segments together with their files leaves the others complete.
LEMMA CompleteSuffix ==
  ASSUME NEW files \in [Offset -> Files], NEW segs \in Seq(Segment), Complete(segs, files),
         NEW n \in 0 .. Len(segs)
  PROVE  Complete(SubSeq(segs, n + 1, Len(segs)),
                  Delete(files, {segs[i].start : i \in 1 .. n}))
<1> DEFINE t == SubSeq(segs, n + 1, Len(segs))
           gone == {segs[i].start : i \in 1 .. n}
           d == Delete(files, gone)
<1>1. Len(t) = Len(segs) - n /\ t \in Seq(Segment) /\ \A i \in 1 .. Len(segs) - n : t[i] = segs[n + i]
  BY Suffix
<1>2. /\ d \in [Offset -> Files] /\ Pairs(d) = Pairs(files) \ gone
      /\ \A o \in Offset : d[o] = IF o \in gone THEN Missing ELSE files[o]
  BY DeleteTypes
<1>3. Loaded(t, d)
  BY LoadedSuffix DEF Complete
<1> HIDE DEF t, d
<1>4. ASSUME NEW o \in Pairs(d)
      PROVE  \E i \in DOMAIN t : t[i].start = o
  <2>1. o \in Pairs(files) /\ o \notin gone
    BY <1>2
  <2>2. PICK k \in DOMAIN segs : segs[k].start = o
    BY <2>1 DEF Complete
  <2>3. k \notin 1 .. n
    BY <2>1, <2>2
  <2>4. k - n \in 1 .. Len(segs) - n /\ n + (k - n) = k
    BY <2>3
  <2>5. k - n \in DOMAIN t /\ t[k - n] = segs[n + (k - n)]
    BY <1>1, <2>4
  <2>6. QED BY <2>2, <2>4, <2>5
<1>5. Orphans(d) = {}
  <2> SUFFICES ASSUME NEW o \in Orphans(d) PROVE FALSE
    OBVIOUS
  <2>1. o \in Offset /\ d[o] # Missing /\ o \notin Pairs(d)
    BY DEF Orphans
  <2>2. o \notin gone /\ files[o] # Missing /\ o \notin Pairs(files)
    BY <1>2, <2>1
  <2>3. QED BY <2>1, <2>2 DEF Complete, Orphans
<1>6. QED BY <1>3, <1>4, <1>5 DEF Complete, t, d

-----------------------------------------------------------------------------
(* What the stop of a first life leaves.                                    *)

\* Without a pair, at most log files that are empty.
Lone(files) ==
  Pairs(files) = {} =>
    \A o \in Offset : files[o] \in {Missing, [log |-> <<>>, index |-> NoFile]}

\* What can lose the files without a name and still be so.
Safe(files) ==
  /\ files \in [Offset -> Files]
  /\ Lone(files)
  /\ unlinked # {} => Pairs(files) \ unlinked # {}

\* The vanishing of those files is what Safe is about.
LEMMA SafeVanished ==
  ASSUME NEW files, Safe(files)
  PROVE  Lone(Vanished(files))
<1>1. CASE unlinked = {}
  <2>1. files \in [Offset -> Files]
    BY DEF Safe
  <2>2. Vanished(files) = files
    BY <1>1, <2>1 DEF Vanished
  <2>3. QED BY <2>2 DEF Safe
<1>2. CASE unlinked # {}
  <2>1. PICK o \in Pairs(files) : o \notin unlinked
    BY <1>2 DEF Safe
  <2>2. Vanished(files)[o] = files[o] /\ o \in Offset
    BY <2>1 DEF Vanished, Pairs
  <2>3. o \in Pairs(Vanished(files))
    BY <2>1, <2>2 DEF Pairs
  <2>4. QED BY <2>3 DEF Lone
<1>3. QED BY <1>1, <1>2

\* A directory of the segments in memory,
LEMMA CompleteSafe ==
  ASSUME NEW files \in [Offset -> Files], NEW segs, Complete(segs, files), Spare(segs)
  PROVE  Safe(files)
<1>1. Lone(files)
  <2> SUFFICES ASSUME Pairs(files) = {}, NEW o \in Offset PROVE files[o] = Missing
    BY DEF Lone
  <2>1. QED BY DEF Complete, Orphans
<1>2. ASSUME unlinked # {}
      PROVE  Pairs(files) \ unlinked # {}
  BY <1>2 DEF Spare, Complete, Loaded
<1>3. QED BY <1>1, <1>2 DEF Safe

\* with a cleaning cut off: the newest of the old segments always stays,
LEMMA CleaningSafe ==
  ASSUME NEW files \in [Offset -> Files], NEW segs \in Seq(Segment),
         Complete(segs, files), Spare(segs), NEW left \in Cleanings(segs, files)
  PROVE  Safe(left)
<1>1. CASE unlinked # {}
  BY <1>1, CompleteSafe DEF Cleanings
<1>2. CASE unlinked = {}
  <2> DEFINE done(n) == Delete(files, {segs[i].start : i \in 1 .. n})
             k == Excess(segs)
             l == Len(segs)
  <2>1. \/ \E n \in 0 .. k : left = done(n)
        \/ \E n \in 1 .. k : left = [done(n - 1) EXCEPT ![segs[n].start].log = NoFile]
    BY <1>2, Zenon DEF Cleanings, DeleteStages
  <2>2. /\ k \in 0 .. l /\ (segs # <<>> => k < l) /\ l \in Nat
        /\ (segs = <<>> <=> l = 0)
    BY RetainedIs, EmptySeq
  <2>3. Spares(files, left, 0)
    <3>1. Spares(files, files, 0)
      BY DEF Spares
    <3>2. QED BY <3>1, SparesCleaning
  <2>4. left \in [Offset -> Files]
    BY <2>3 DEF Spares
  <2>5. CASE l = 0
    <3>1. k = 0
      BY <2>2, <2>5
    <3>2. left = done(0)
      BY <2>1, <3>1
    <3>3. {segs[i].start : i \in 1 .. 0} = {}
      OBVIOUS
    <3>4. left = files
      BY <3>2, <3>3 DEF Delete
    <3>5. QED BY <3>4, CompleteSafe
  <2>6. CASE l # 0
    <3> DEFINE q == segs[l].start
    <3>1. l \in 1 .. l /\ DOMAIN segs = 1 .. l /\ k < l
      BY <2>2, <2>6
    <3>2. q \in Pairs(files) /\ q \in Offset
      BY <3>1 DEF Complete, Loaded, Pairs
    <3>3. ASSUME NEW n \in 0 .. k
          PROVE  /\ done(n) \in [Offset -> Files] /\ done(n)[q] = files[q]
      <4>1. q \notin {segs[i].start : i \in 1 .. n}
        <5> SUFFICES ASSUME NEW i \in 1 .. n, segs[i].start = q PROVE FALSE
          OBVIOUS
        <5>1. i \in 1 .. l /\ i # l
          <6> HIDE DEF k, l
          <6>1. n \in Nat /\ n <= k /\ k < l /\ l \in Nat /\ k \in Nat
            BY <2>2, <3>1
          <6>2. QED BY <6>1
        <5>2. QED BY <3>1, <5>1 DEF Complete, Loaded
      <4>2. QED BY <3>2, <4>1, DeleteTypes
    <3>4. ASSUME NEW n \in 1 .. k
          PROVE  n - 1 \in 0 .. k /\ segs[n].start # q
      <4>1. n - 1 \in 0 .. k /\ n \in 1 .. l /\ n # l
        <5> HIDE DEF k, l
        <5>1. QED BY <2>2, <3>1
      <4>2. QED BY <3>1, <4>1 DEF Complete, Loaded
    <3> HIDE DEF done, k, l, q
    <3>5. left[q] = files[q]
      <4>1. CASE \E n \in 0 .. k : left = done(n)
        BY <3>3, <4>1
      <4>2. CASE \E n \in 1 .. k : left = [done(n - 1) EXCEPT ![segs[n].start].log = NoFile]
        <5>1. PICK n \in 1 .. k : left = [done(n - 1) EXCEPT ![segs[n].start].log = NoFile]
          BY <4>2
        <5>2. QED BY <3>2, <3>3, <3>4, <5>1
      <4>3. QED BY <2>1, <4>1, <4>2
    <3>6. q \in Pairs(left)
      BY <3>2, <3>5 DEF Pairs
    <3>7. QED BY <1>2, <2>4, <3>6 DEF Safe, Lone
  <2>7. QED BY <2>5, <2>6
<1>3. QED BY <1>1, <1>2

\* or with a flush cut off: its first step is the empty log file.
LEMMA FlushStageSafe ==
  ASSUME TypeOK, Complete(segments, disk), Spare(segments), NEW left \in FlushStages(disk, current)
  PROVE  Safe(left)
<1> DEFINE p == current.start
           old == disk[p]
           log(n) == Overlay(old.log, SubSeq(current.contents, 1, n))
           index(n) == Overlay(old.index, SubSeq(current.entries, 1, n))
           stage(x) == [disk EXCEPT ![p] = x]
<1>1. /\ disk \in [Offset -> Files] /\ current \in VirtualSegment
      /\ p \in Offset /\ current.contents \in Seq(Byte) /\ current.entries \in Seq(Entry)
  BY DEF TypeOK, VirtualSegment
<1>2. left \in [Offset -> Files]
  BY <1>1, SparesFlushStage DEF Spares
<1>3. old.log \in Seq(Byte) \cup {NoFile} /\ old.index \in Seq(Entry) \cup {NoFile}
  BY <1>1, FileTypes
<1>4. Len(current.contents) \in Nat /\ Len(current.entries) \in Nat
  BY <1>1
<1>5. /\ \A n \in 0 .. Len(current.contents) : log(n) \in Seq(Byte)
      /\ \A n \in 0 .. Len(current.entries) : index(n) \in Seq(Entry)
  BY <1>1, <1>3, FirstPart, OverlayType
<1>6. SubSeq(current.contents, 1, 0) = <<>>
  OBVIOUS
<1>7. \/ left = stage([log |-> log(0), index |-> old.index])
      \/ \E n \in 0 .. Len(current.entries) : left = stage([log |-> log(0), index |-> index(n)])
      \/ \E n \in 0 .. Len(current.contents) :
           left = stage([log |-> log(n), index |-> index(Len(current.entries))])
  BY Zenon DEF FlushStages
<1>8. \/ left = stage([log |-> log(0), index |-> old.index])
      \/ \E a \in Seq(Byte), b \in Seq(Entry) : left = stage([log |-> a, index |-> b])
  <2>1. 0 \in 0 .. Len(current.contents) /\ Len(current.entries) \in 0 .. Len(current.entries)
    BY <1>4
  <2> HIDE DEF log, index, stage
  <2>2. QED BY <1>5, <1>7, <2>1
<1>9. \A o \in Offset \ {p} : left[o] = disk[o]
  BY <1>1, <1>8
<1>10. \/ left[p] = [log |-> log(0), index |-> old.index]
       \/ left[p].log \in Seq(Byte) /\ left[p].index \in Seq(Entry)
  <2>1. ASSUME NEW x PROVE stage(x)[p] = x
    BY <1>1
  <2> HIDE DEF log, index, stage, old, p
  <2>2. CASE left = stage([log |-> log(0), index |-> old.index])
    <3>1. left[p] = [log |-> log(0), index |-> old.index]
      BY <2>1, <2>2, Zenon
    <3>2. QED BY <3>1
  <2>3. CASE \E a \in Seq(Byte), b \in Seq(Entry) : left = stage([log |-> a, index |-> b])
    <3>1. PICK a \in Seq(Byte), b \in Seq(Entry) : left = stage([log |-> a, index |-> b])
      BY <2>3
    <3>2. left[p] = [log |-> a, index |-> b]
      BY <2>1, <3>1, Zenon
    <3>3. QED BY <3>2
  <2>4. QED BY <1>8, <2>2, <2>3
<1>11. log(0) \in Seq(Byte)
  BY <1>4, <1>5
<1>12. Pairs(disk) \subseteq Pairs(left)
  BY <1>9, <1>10, <1>11, NoFileIs DEF Pairs
<1>13. Lone(left)
  <2> SUFFICES ASSUME Pairs(left) = {}, NEW o \in Offset
               PROVE  left[o] \in {Missing, [log |-> <<>>, index |-> NoFile]}
    BY DEF Lone
  <2>1. \A q \in Offset : disk[q] = Missing
    BY <1>12 DEF Complete, Orphans
  <2>2. CASE o # p
    BY <1>9, <2>1, <2>2
  <2>3. CASE o = p
    <3>1. left[p] = [log |-> log(0), index |-> old.index]
      BY <1>1, <1>10, NoFileIs DEF Pairs
    <3>2. old.log = NoFile /\ old.index = NoFile
      BY <1>1, <2>1 DEF Missing
    <3>3. log(0) = <<>>
      BY <1>6, <3>2 DEF Overlay
    <3>4. QED BY <2>3, <3>1, <3>2, <3>3
  <2>4. QED BY <2>2, <2>3
<1>14. ASSUME unlinked # {}
       PROVE  Pairs(left) \ unlinked # {}
  BY <1>12, <1>14, <1>1, CompleteSafe DEF Safe
<1>15. QED BY <1>2, <1>13, <1>14 DEF Safe

\* A reload keeps a log file that has its name.
LEMMA SpareReloaded ==
  ASSUME NEW files \in [Offset -> Files], segments \in Seq(Segment), NEW segs \in Reloaded(files),
         Spare(segments)
  PROVE  Spare(segs)
  BY ReloadedAll DEF Spare

\* Wherever the first life stops in the middle of a batch.
LEMMA StageSafe ==
  ASSUME TypeOK, Complete(segments, disk), Spare(segments), NEW left \in {disk} \cup Stages
  PROVE  Safe(left)
<1>1. disk \in [Offset -> Files] /\ current \in VirtualSegment /\ segments \in Seq(Segment)
  BY DEF TypeOK
<1>2. Safe(disk)
  BY <1>1, CompleteSafe
<1>3. CASE left = disk
  BY <1>2, <1>3
<1>4. CASE left \in Stages
  <2>1. CASE ~Unfinished \/ ~Storable(Message)
    BY <1>2, <1>4, <2>1 DEF Stages
  <2>2. CASE ~(~Unfinished \/ ~Storable(Message)) /\ Fits(current, Message)
    <3>1. left \in Cleanings(segments, disk)
      BY <1>4, <2>2 DEF Stages
    <3>2. QED BY <1>1, <3>1, CleaningSafe
  <2>3. CASE ~(~Unfinished \/ ~Storable(Message)) /\ ~Fits(current, Message)
    <3> DEFINE f == Flush(disk, current)
    <3>1. \/ left \in FlushStages(disk, current)
          \/ \E segs \in Reloaded(f) : left \in Cleanings(segs, f)
      BY <1>4, <2>3 DEF Stages
    <3>2. ASSUME NEW segs \in Reloaded(f)
          PROVE  Complete(segs, f) /\ Spare(segs) /\ segs \in Seq(Segment) /\ f \in [Offset -> Files]
      <4>1. Complete(segs, f)
        BY <3>2, CompleteFlush
      <4>2. f \in [Offset -> Files] /\ Loaded(segments, f)
        BY <1>1, FlushTypes DEF Complete, Loaded
      <4> HIDE DEF f
      <4>3. segs \in Seq(Segment) /\ Spare(segs)
        BY <1>1, <3>2, <4>2, LoadedReloaded, SpareReloaded
      <4>4. QED BY <4>1, <4>2, <4>3
    <3> HIDE DEF f
    <3>3. QED BY <3>1, <3>2, FlushStageSafe, CleaningSafe
  <2>4. QED BY <2>1, <2>2, <2>3
<1>5. QED BY <1>3, <1>4

-----------------------------------------------------------------------------
(* The first life and its stop.                                             *)

\* As long as nothing has stopped, memory and directory have the same segments.
FirstLife == crashes = 0 => up /\ Complete(segments, disk) /\ Spare(segments)

\* The invariant of what the first stop leaves.
LoneInv == BatchesInv /\ FirstLife /\ LoneOrphanIsEmpty

\* An append, whose cleaning removes whole segments.
LEMMA AppendComplete ==
  ASSUME TypeOK, Complete(segments, disk), unlinked = {}, NEW m, AppendMessage(m)
  PROVE  Complete(segments', disk') /\ up' = up /\ crashes' = crashes
<1>1. disk \in [Offset -> Files] /\ current \in VirtualSegment /\ segments \in Seq(Segment)
  BY DEF TypeOK
<1>2. ASSUME NEW v, NEW segs \in Seq(Segment), NEW f \in [Offset -> Files],
             Complete(segs, f), Store(v, m, segs, f)
      PROVE  Complete(segments', disk') /\ up' = up /\ crashes' = crashes
  <2>1. /\ segments' = SubSeq(segs, Excess(segs) + 1, Len(segs))
        /\ disk' = Delete(f, {segs[i].start : i \in 1 .. Excess(segs)})
        /\ up' = up /\ crashes' = crashes
    BY <1>2 DEF Store, Retained, Cleaned
  <2>2. Excess(segs) \in 0 .. Len(segs)
    BY ExcessBounded
  <2>3. QED BY <1>2, <2>1, <2>2, CompleteSuffix
<1>3. CASE AppendInPlace(m)
  BY <1>1, <1>2, <1>3 DEF AppendInPlace
<1>4. CASE AppendAfterSplit(m)
  <2> DEFINE f == Flush(disk, current)
  <2>1. PICK segs \in Reloaded(f) : Store(Successor(current), m, segs, f)
    BY <1>4 DEF AppendAfterSplit
  <2>2. Complete(segs, f)
    BY <2>1, CompleteFlush
  <2>3. f \in [Offset -> Files] /\ Loaded(segments, f)
    BY <1>1, FlushTypes DEF Complete, Loaded
  <2> HIDE DEF f
  <2>4. segs \in Seq(Segment)
    BY <1>1, <2>1, <2>3, LoadedReloaded
  <2>5. QED BY <1>2, <2>1, <2>2, <2>3, <2>4
<1>5. QED BY <1>3, <1>4 DEF AppendMessage

\* An append whose cleaning fails: it fails before it reaches the newest segment.
LEMMA StoreUncleanedComplete ==
  ASSUME NEW segs \in Seq(Segment), NEW f \in [Offset -> Files],
         Complete(segs, f), Spare(segs), NEW v, NEW m, StoreUncleaned(v, m, segs, f)
  PROVE  Complete(segments', disk') /\ Spare(segments)' /\ up' = up /\ crashes' = crashes
<1>1. PICK left \in Uncleaned(segs, f) :
        segments' = left.segs /\ disk' = left.files /\ unlinked' = left.unlinked
  BY DEF StoreUncleaned
<1>2. up' = up /\ crashes' = crashes
  BY DEF StoreUncleaned
<1>3. CASE unlinked # {}
  <2>1. left = [segs |-> segs, files |-> f, unlinked |-> unlinked]
    BY <1>3 DEF Uncleaned
  <2>2. segments' = segs /\ disk' = f /\ unlinked' = unlinked
    BY <1>1, <2>1
  <2>3. QED BY <1>2, <2>2 DEF Spare
<1>4. CASE unlinked = {}
  <2> DEFINE failedAt(n, lost) ==
               [segs |-> SubSeq(segs, n, Len(segs)),
                files |-> Delete(f, {segs[i].start : i \in 1 .. n - 1}),
                unlinked |-> lost]
             l == Len(segs)
  <2>1. PICK n \in 1 .. Excess(segs) : left \in {failedAt(n, {}), failedAt(n, {segs[n].start})}
    BY <1>4, Zenon DEF Uncleaned
  <2>2. n - 1 \in 0 .. l /\ (n - 1) + 1 = n /\ n \in 1 .. l - 1 /\ l \in Nat /\ l \in 1 .. l
    <3>1. Excess(segs) \in 0 .. l /\ l \in Nat /\ (l # 0 => Excess(segs) < l)
      BY RetainedIs, EmptySeq
    <3> HIDE DEF l
    <3>2. QED BY <3>1
  <2>3. /\ segments' = SubSeq(segs, (n - 1) + 1, l)
        /\ disk' = Delete(f, {segs[i].start : i \in 1 .. n - 1})
        /\ unlinked' \in {{}, {segs[n].start}}
    BY <1>1, <2>1, <2>2
  <2>4. Complete(segments', disk')
    BY <2>2, <2>3, CompleteSuffix
  <2>5. /\ l - (n - 1) \in 1 .. l - (n - 1) /\ (n - 1) + (l - (n - 1)) = l
        /\ n \in 1 .. l /\ n # l
    <3> HIDE DEF l
    <3>1. QED BY <2>2
  <2>6. Len(segments') = l - (n - 1) /\ segments'[l - (n - 1)] = segs[(n - 1) + (l - (n - 1))]
    BY <2>2, <2>3, <2>5, Suffix
  <2>7. l - (n - 1) \in DOMAIN segments' /\ segments'[l - (n - 1)] = segs[l]
    <3>1. segments' \in Seq(Segment)
      BY <2>2, <2>3, Suffix
    <3>2. DOMAIN segments' = 1 .. Len(segments')
      BY <3>1
    <3>3. QED BY <2>5, <2>6, <3>2
  <2>8. segs[l].start # segs[n].start
    BY <2>2, <2>5 DEF Complete, Loaded
  <2>9. Spare(segments)'
    BY <2>3, <2>7, <2>8 DEF Spare
  <2>10. QED BY <1>2, <2>4, <2>9
<1>5. QED BY <1>3, <1>4

\* In memory or after a split.
LEMMA UncleanedComplete ==
  ASSUME TypeOK, Complete(segments, disk), Spare(segments), AppendUncleaned
  PROVE  Complete(segments', disk') /\ Spare(segments)' /\ up' = up /\ crashes' = crashes
<1>1. disk \in [Offset -> Files] /\ current \in VirtualSegment /\ segments \in Seq(Segment)
  BY DEF TypeOK
<1> DEFINE f == Flush(disk, current)
<1>2. CASE Fits(current, Message)
  <2>1. StoreUncleaned(current, Message, segments, disk)
    BY <1>2 DEF AppendUncleaned
  <2>2. QED BY <1>1, <2>1, StoreUncleanedComplete
<1>3. CASE ~Fits(current, Message)
  <2>1. PICK segs \in Reloaded(f) : StoreUncleaned(Successor(current), Message, segs, f)
    BY <1>3 DEF AppendUncleaned
  <2>2. Complete(segs, f)
    BY <2>1, CompleteFlush
  <2>3. f \in [Offset -> Files] /\ Loaded(segments, f)
    BY <1>1, FlushTypes DEF Complete, Loaded
  <2> HIDE DEF f
  <2>4. segs \in Seq(Segment) /\ Spare(segs)
    BY <1>1, <2>1, <2>3, LoadedReloaded, SpareReloaded
  <2>5. QED BY <2>1, <2>2, <2>3, <2>4, StoreUncleanedComplete
<1>4. QED BY <1>2, <1>3

\* A stop leaves what its last step left; only that of the first life is looked at.
LEMMA StopLone ==
  ASSUME TypeOK, FirstLife, NEW left, crashes = 0 => Safe(left), Stop(Vanished(left))
  PROVE  FirstLife' /\ LoneOrphanIsEmpty'
<1>1. crashes \in Nat /\ crashes' = crashes + 1 /\ disk' = Vanished(left)
  BY CommitlogAssumption DEF TypeOK, Stop
<1>2. crashes' # 0 /\ (crashes' = 1 => crashes = 0)
  BY <1>1
<1>3. crashes' = 1 => Lone(disk')
  BY <1>1, <1>2, SafeVanished
<1>4. QED BY <1>2, <1>3 DEF FirstLife, LoneOrphanIsEmpty, Lone

\* A running process that does not stop.
LEMMA RunsLone ==
  ASSUME FirstLife, up, up' = up, crashes' = crashes,
         crashes = 0 => Complete(segments', disk') /\ Spare(segments)'
  PROVE  FirstLife' /\ LoneOrphanIsEmpty'
  BY DEF FirstLife, LoneOrphanIsEmpty

\* Steps that change neither files nor segments.
LEMMA StaysLone ==
  ASSUME FirstLife, LoneOrphanIsEmpty, UNCHANGED <<up, segments, disk, crashes, unlinked>>
  PROVE  FirstLife' /\ LoneOrphanIsEmpty'
<1>1. FirstLife'
  BY DEF FirstLife, Complete, Loaded, Spare
<1>2. LoneOrphanIsEmpty'
  BY DEF LoneOrphanIsEmpty
<1>3. QED BY <1>1, <1>2

\* It holds when a broker starts on an empty directory.
LEMMA LoneStarts == BatchesInit => LoneInv
<1> SUFFICES ASSUME BatchesInit PROVE LoneInv
  OBVIOUS
<1>1. /\ up = TRUE /\ segments = <<>> /\ crashes = 0 /\ unlinked = {}
      /\ disk = [o \in Offset |-> Missing]
  BY DEF BatchesInit, TopicInit, Init
<1>2. Pairs(disk) = {} /\ Orphans(disk) = {}
  BY <1>1 DEF Pairs, Orphans, Missing
<1>3. DOMAIN segments = {}
  BY <1>1
<1>4. Complete(segments, disk) /\ Spare(segments)
  BY <1>1, <1>2, <1>3 DEF Complete, Loaded, Spare
<1>5. QED BY <1>1, <1>4, BatchesStarts DEF LoneInv, FirstLife, LoneOrphanIsEmpty

\* Every step keeps it; only the stop of the first life has something to show.
LEMMA LoneStep ==
  ASSUME LoneInv, [BatchesNext]_allVars
  PROVE  LoneInv'
<1>1. BatchesInv /\ TypeOK /\ FirstLife /\ LoneOrphanIsEmpty
  BY DEF LoneInv, BatchesInv
<1>2. BatchesInv'
  BY <1>1, BatchesStep DEF BatchesKept
<1>3. SUFFICES FirstLife' /\ LoneOrphanIsEmpty'
  BY <1>2 DEF LoneInv
<1>4. ASSUME NEW b \in Batch, TakeRequest(b)
      PROVE  FirstLife' /\ LoneOrphanIsEmpty'
  BY <1>1, <1>4, StaysLone DEF TakeRequest, logVars
<1>5. CASE AppendNext
  <2>1. unlinked = {} /\ unlinked' = {} /\ AppendMessage(Message) /\ up
    BY <1>5 DEF AppendNext, AppendMessage, Storable
  <2>2. up' = up /\ crashes' = crashes
    BY <2>1 DEF AppendMessage, AppendInPlace, AppendAfterSplit, Store
  <2>3. ASSUME crashes = 0
        PROVE  Complete(segments', disk') /\ Spare(segments)'
    <3>1. Complete(segments, disk)
      BY <1>1, <2>3 DEF FirstLife
    <3>2. QED BY <1>1, <2>1, <3>1, AppendComplete DEF Spare
  <2>4. QED BY <1>1, <2>1, <2>2, <2>3, RunsLone
<1>6. CASE AppendUncleaned
  <2>1. up
    BY <1>6 DEF AppendUncleaned, Storable
  <2>2. up' = up /\ crashes' = crashes
    BY <1>6 DEF AppendUncleaned, StoreUncleaned
  <2>3. ASSUME crashes = 0
        PROVE  Complete(segments', disk') /\ Spare(segments)'
    BY <1>1, <1>6, <2>3, UncleanedComplete DEF FirstLife
  <2>4. QED BY <1>1, <2>1, <2>2, <2>3, RunsLone
<1>7. CASE RefuseNext \/ AnswerRequest
  BY <1>1, <1>7, StaysLone DEF RefuseNext, AnswerRequest, logVars
<1>8. ASSUME NEW g \in Group, NEW waits \in BOOLEAN, ConsumeBetween(g, waits)
      PROVE  FirstLife' /\ LoneOrphanIsEmpty'
  <2>1. UNCHANGED <<up, segments, disk, crashes, unlinked>>
    BY <1>8 DEF ConsumeBetween, Consume, batchVars
  <2>2. QED BY <1>1, <2>1, StaysLone
<1>9. CASE BatchStop
  <2>1. PICK left \in {disk} \cup Stages : Stop(Vanished(left))
    BY <1>9 DEF BatchStop
  <2>2. crashes = 0 => Safe(left)
    BY <1>1, StageSafe DEF FirstLife
  <2>3. QED BY <1>1, <2>1, <2>2, StopLone
<1>10. ASSUME NEW g \in Group, StopInPollBetween(g)
       PROVE  FirstLife' /\ LoneOrphanIsEmpty'
  <2>1. Stop(Vanished(disk))
    BY <1>10 DEF StopInPollBetween, StopInPoll
  <2>2. crashes = 0 => Safe(disk)
    BY <1>1, CompleteSafe DEF FirstLife, TypeOK
  <2>3. QED BY <1>1, <2>1, <2>2, StopLone
<1>11. CASE OpenAgain
  <2>1. ~up /\ up' = TRUE /\ crashes' = crashes
    BY <1>11 DEF OpenAgain, TopicOpen, Open
  <2>2. QED BY <1>1, <2>1 DEF FirstLife, LoneOrphanIsEmpty
<1>12. CASE UNCHANGED allVars
  BY <1>1, <1>12, StaysLone DEF allVars, logVars, batchVars
<1>13. QED
  BY <1>4, <1>5, <1>6, <1>7, <1>8, <1>9, <1>10, <1>11, <1>12 DEF BatchesNext, HandleBatch

-----------------------------------------------------------------------------
\* Whatever is left by crashes in the middle of a flush or of a cleaning, what a later
\* life loads of it and answers from it is of the right kind: no read leaves the
\* bounds of an index, and offsets that wrap stay offsets.
THEOREM BatchesTypes == BatchesSpec => []BatchesTypeOK
<1>1. BatchesInv => BatchesTypeOK
  BY DEF BatchesInv, GroupsInv, GroupTypes, RequestTypes, BatchesTypeOK, TopicTypeOK
<1>2. QED BY <1>1, BatchesInvariant, PTL

\* consumer.rs saves the group before the records are answered: no answer brings a
\* group an offset again, in whatever life of the broker and after whatever crash.
THEOREM BatchesOnce == BatchesSpec => []NeverRedelivered
<1>1. BatchesInv => NeverRedelivered
  BY DEF BatchesInv, GroupsInv, GroupSaved, NeverRedelivered
<1>2. QED BY <1>1, BatchesInvariant, PTL

\* What lucidmq.meta says of a group never goes back, and the running broker is never
\* behind it: polls of other groups, which save all groups, included.
THEOREM BatchesSaved == BatchesSpec => SavedNeverBack
<1>1. ASSUME BatchesInv, [BatchesNext]_allVars
      PROVE  SavedGrows
  BY <1>1, BatchesStep DEF BatchesKept
<1>2. BatchesInv /\ [BatchesNext]_allVars => [SavedGrows]_topicVars
  BY <1>1
<1>3. BatchesSpec => [][SavedGrows]_topicVars
  BY <1>2, BatchesInvariant, PTL DEF BatchesSpec
<1>4. QED BY <1>3 DEF SavedNeverBack, SavedGrows

\* Only the pair that the segment in memory is named after is ever written: whatever
\* append, failed cleaning, crash or restart comes, the files of the others stay or go.
THEOREM BatchesImmutable == BatchesSpec => FlushedImmutable
<1>1. ASSUME BatchesInv, [BatchesNext]_allVars
      PROVE  Immutable
  BY <1>1, BatchesStep DEF BatchesKept
<1>2. BatchesInv /\ [BatchesNext]_allVars => [Immutable]_vars
  BY <1>1
<1>3. BatchesSpec => [][Immutable]_vars
  BY <1>2, BatchesInvariant, PTL DEF BatchesSpec
<1>4. QED BY <1>3 DEF FlushedImmutable, Immutable

\* The first append that succeeds after cleanings have failed leaves at most the oldest
\* segment beyond the retention: clean starts over from all segments each time.
THEOREM BatchesCatchUp == BatchesSpec => CleaningCatchesUp
<1> DEFINE A == AppendNext /\ segments' # <<>> => Bytes(Tail(segments')) <= RetentionBytes
<1>1. ASSUME BatchesInv, AppendNext, segments' # <<>>
      PROVE  Bytes(Tail(segments')) <= RetentionBytes
  <2>1. /\ disk \in [Offset -> Files] /\ current \in VirtualSegment /\ segments \in Seq(Segment)
        /\ Loaded(segments, disk)
    BY <1>1 DEF BatchesInv, TypeOK
  <2>2. PICK segs \in Seq(Segment) : segments' = Retained(segs)
    <3>1. CASE AppendInPlace(Message)
      BY <2>1, <3>1 DEF AppendInPlace, Store
    <3>2. CASE AppendAfterSplit(Message)
      <4> DEFINE f == Flush(disk, current)
      <4>1. PICK segs \in Reloaded(f) : Store(Successor(current), Message, segs, f)
        BY <3>2 DEF AppendAfterSplit
      <4>2. f \in [Offset -> Files] /\ Loaded(segments, f)
        BY <2>1, FlushTypes DEF Loaded
      <4> HIDE DEF f
      <4>3. segs \in Seq(Segment)
        BY <2>1, <4>2, LoadedReloaded
      <4>4. QED BY <4>1, <4>3 DEF Store
    <3>3. QED BY <1>1, <3>1, <3>2 DEF AppendNext, AppendMessage
  <2>3. QED BY <1>1, <2>2, RetainedIs
<1>2. BatchesInv => [A]_allVars
  BY <1>1
<1> HIDE DEF A
<1>3. BatchesSpec => [][A]_allVars
  BY <1>2, BatchesInvariant, PTL DEF BatchesSpec
<1>4. QED BY <1>3 DEF CleaningCatchesUp, A

\* load_segments looks for no orphans when there is no pair, and needs not: a first life
\* that ends without one, wherever it is cut off, leaves at most an empty log file.
THEOREM BatchesLone == BatchesSpec => []LoneOrphanIsEmpty
<1>1. BatchesInit => LoneInv
  BY LoneStarts
<1>2. LoneInv /\ [BatchesNext]_allVars => LoneInv'
  BY LoneStep
<1>3. LoneInv => LoneOrphanIsEmpty
  BY DEF LoneInv
<1>4. QED BY <1>1, <1>2, <1>3, PTL DEF BatchesSpec

=============================================================================
