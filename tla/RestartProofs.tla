--------------------------- MODULE RestartProofs ----------------------------
(***************************************************************************)
(* What a broker serves when it opens the directory of a log again, for    *)
(* all messages, batches, groups, segment sizes and retentions.  A restart *)
(* makes the next offset of the segment in memory count from 0 and not     *)
(* from the segment's start, so that with each one the offsets in use can  *)
(* double.  Reads are served from the right place as long as they do not   *)
(* wrap; the invariant RoomInv says how far they can have come.            *)
(***************************************************************************)
EXTENDS BatchesProofs

-----------------------------------------------------------------------------
(* How far the offsets of a directory reach.                                *)

\* No index reaches beyond b.
Within(files, b) ==
  \A o \in Offset : files[o].index # NoFile => o + Len(files[o].index) <= b

\* A directory that is files without some of them.
Trims(files, left) ==
  /\ left \in [Offset -> Files]
  /\ \A o \in Offset : left[o].index \in {files[o].index, NoFile}

\* Removing files keeps the bound.
LEMMA WithinTrims ==
  ASSUME NEW files, NEW left, NEW b, Within(files, b), Trims(files, left)
  PROVE  Within(left, b)
  BY DEF Within, Trims

\* A larger bound will do as well.
LEMMA WithinMore ==
  ASSUME NEW files \in [Offset -> Files], NEW b \in Int, NEW c \in Int, b <= c, Within(files, b)
  PROVE  Within(files, c)
<1> SUFFICES ASSUME NEW o \in Offset, files[o].index # NoFile
             PROVE  o + Len(files[o].index) <= c
  BY DEF Within
<1> DEFINE l == Len(files[o].index)
<1>1. l \in Nat /\ o \in Nat
  <2>1. files[o] \in Files
    OBVIOUS
  <2>2. files[o].index \in Seq(Entry)
    BY <2>1, FileTypes
  <2>3. QED BY <2>2, OffsetsAre
<1>2. o + l <= b
  BY DEF Within
<1> HIDE DEF l
<1>3. o + l <= c
  BY <1>1, <1>2
<1>4. QED BY <1>3 DEF l

\* What goes: pairs,
LEMMA TrimsDelete ==
  ASSUME NEW files, NEW f, Trims(files, f), NEW starts
  PROVE  Trims(files, Delete(f, starts))
<1>1. Missing.index = NoFile
  BY DEF Missing
<1>2. QED BY <1>1, DeleteTypes DEF Trims

\* a log file,
LEMMA TrimsUnlink ==
  ASSUME NEW files, NEW f, Trims(files, f), NEW q \in Offset
  PROVE  Trims(files, [f EXCEPT ![q].log = NoFile])
<1> DEFINE r == [f[q] EXCEPT !.log = NoFile]
<1>1. r \in Files /\ r.index = f[q].index
  BY DEF Trims, Files
<1>2. [f EXCEPT ![q].log = NoFile] = [f EXCEPT ![q] = r]
  OBVIOUS
<1> HIDE DEF r
<1>3. QED BY <1>1, <1>2 DEF Trims

\* the log files that were open without a name,
LEMMA TrimsVanished ==
  ASSUME NEW files, NEW f, Trims(files, f)
  PROVE  Trims(files, Vanished(f))
<1>1. ASSUME NEW o \in Offset
      PROVE  [f[o] EXCEPT !.log = NoFile] \in Files /\ [f[o] EXCEPT !.log = NoFile].index = f[o].index
  BY DEF Trims, Files
<1>2. QED BY <1>1 DEF Trims, Vanished

\* and whatever a cleaning removes before it is cut off.
LEMMA TrimsCleaning ==
  ASSUME NEW files, NEW f, Trims(files, f), NEW segs \in Seq(Segment),
         NEW left \in Cleanings(segs, f)
  PROVE  Trims(files, left)
<1> DEFINE done(n) == Delete(f, {segs[i].start : i \in 1 .. n})
<1>1. CASE unlinked # {}
  BY <1>1 DEF Cleanings
<1>2. CASE unlinked = {}
  <2>1. \A n : Trims(files, done(n))
    BY TrimsDelete
  <2>2. \/ \E n \in 0 .. Excess(segs) : left = done(n)
        \/ \E n \in 1 .. Excess(segs) : left = [done(n - 1) EXCEPT ![segs[n].start].log = NoFile]
    BY <1>2, Zenon DEF Cleanings, DeleteStages
  <2> HIDE DEF done
  <2>3. Excess(segs) \in 0 .. Len(segs)
    BY ExcessBounded
  <2>4. ASSUME NEW n \in 1 .. Excess(segs)
        PROVE  Trims(files, [done(n - 1) EXCEPT ![segs[n].start].log = NoFile])
    <3>1. n \in 1 .. Len(segs)
      BY <2>3
    <3>2. segs[n] \in Segment
      BY <3>1, ElementOfSeq
    <3>3. segs[n].start \in Offset
      BY <3>2 DEF Segment
    <3>4. Trims(files, done(n - 1))
      BY <2>1
    <3>5. QED BY <3>3, <3>4, TrimsUnlink
  <2>5. QED BY <2>1, <2>2, <2>4
<1>3. QED BY <1>1, <1>2

\* A file written again is as long as the longer of the two contents.
LEMMA OverlayLength ==
  ASSUME NEW S, NEW old \in Seq(S) \cup {NoFile}, NEW new \in Seq(S), NEW b \in Int,
         Len(new) <= b, old # NoFile => Len(old) <= b
  PROVE  Len(Overlay(old, new)) <= b
<1>1. CASE old = NoFile
  BY <1>1 DEF Overlay
<1>2. CASE old # NoFile
  <2> DEFINE l == Len(new)
             x == l + 1
             y == Len(old)
             t == SubSeq(old, x, y)
  <2>1. old \in Seq(S) /\ l \in Nat /\ x \in Int /\ y \in Nat /\ x > 0
    BY <1>2
  <2>2. \A i \in x .. y : old[i] \in S
    <3>1. \A i \in x .. y : i \in 1 .. Len(old)
      BY <2>1
    <3>2. QED BY <2>1, <3>1, ElementOfSeq
  <2>3. t \in Seq(S) /\ Len(t) = IF x <= y THEN y - x + 1 ELSE 0
    <3> HIDE DEF x, y
    <3>1. QED BY <2>1, <2>2, SubSeqProperties
  <2>4. l <= b /\ y <= b
    BY <1>2
  <2> HIDE DEF t
  <2>5. Len(new \o t) = l + Len(t)
    BY <2>3, ConcatProperties
  <2> HIDE DEF l, y
  <2>6. l + Len(t) <= b
    BY <2>1, <2>3, <2>4
  <2>7. QED BY <1>2, <2>5, <2>6 DEF Overlay, t, x, l, y
<1>3. QED BY <1>1, <1>2

\* Writing a segment that stays below the bound keeps it:
LEMMA WithinWritten ==
  ASSUME NEW files \in [Offset -> Files], NEW b \in Int, Within(files, b), NEW p \in Offset,
         NEW a, NEW e \in Seq(Entry), p + Len(e) <= b
  PROVE  Within([files EXCEPT ![p] = [log |-> a, index |-> Overlay(files[p].index, e)]], b)
<1> DEFINE old == files[p].index
           x == Overlay(old, e)
           f == [files EXCEPT ![p] = [log |-> a, index |-> x]]
<1>1. p \in Nat /\ old \in Seq(Entry) \cup {NoFile}
  <2>1. files[p] \in Files
    OBVIOUS
  <2>2. QED BY <2>1, FileTypes, OffsetsAre
<1>2. p + Len(x) <= b
  <2> DEFINE c == b - p
  <2>1. c \in Int
    BY <1>1
  <2>2. Len(e) <= c
    <3> DEFINE l == Len(e)
    <3>1. l \in Nat /\ p + l <= b
      OBVIOUS
    <3> HIDE DEF l
    <3>2. l <= b - p
      BY <1>1, <3>1
    <3>3. QED BY <3>2 DEF l
  <2>3. ASSUME old # NoFile
        PROVE  Len(old) <= c
    <3> DEFINE l == Len(old)
    <3>1. l \in Nat /\ p + l <= b
      BY <1>1, <2>3 DEF Within
    <3> HIDE DEF l, old
    <3>2. l <= b - p
      BY <1>1, <3>1
    <3>3. QED BY <3>2 DEF l
  <2> HIDE DEF c, old
  <2>4. Len(x) <= c
    BY <1>1, <2>1, <2>2, <2>3, OverlayLength
  <2>5. x \in Seq(Entry)
    BY <1>1, OverlayType
  <2> DEFINE l == Len(x)
  <2>6. l \in Nat /\ l <= c
    BY <2>4, <2>5
  <2> HIDE DEF l, x
  <2>7. p + l <= b
    BY <1>1, <2>6 DEF c
  <2>8. QED BY <2>7 DEF l
<1> HIDE DEF x
<1>3. \A o \in Offset : f[o] = IF o = p THEN [log |-> a, index |-> x] ELSE files[o]
  OBVIOUS
<1>4. Within(f, b)
  <2> SUFFICES ASSUME NEW o \in Offset, f[o].index # NoFile
               PROVE  o + Len(f[o].index) <= b
    BY DEF Within
  <2> HIDE DEF f
  <2>1. CASE o = p
    <3>1. f[o].index = x
      BY <1>3, <2>1
    <3>2. QED BY <1>2, <2>1, <3>1
  <2>2. CASE o # p
    <3>1. f[o] = files[o]
      BY <1>3, <2>2
    <3>2. QED BY <3>1 DEF Within
  <2>3. QED BY <2>1, <2>2
<1>5. QED BY <1>4 DEF x

\* a whole flush,
LEMMA WithinFlush ==
  ASSUME NEW files \in [Offset -> Files], NEW v \in VirtualSegment, NEW b \in Int,
         Within(files, b), v.start + Len(v.entries) <= b
  PROVE  Within(Flush(files, v), b)
<1> DEFINE p == v.start
           e == v.entries
           a == Overlay(files[p].log, v.contents)
<1>1. p \in Offset /\ e \in Seq(Entry) /\ p + Len(e) <= b
  BY DEF VirtualSegment
<1>2. Flush(files, v) = [files EXCEPT ![p] = [log |-> a, index |-> Overlay(files[p].index, e)]]
  BY DEF Flush
<1> HIDE DEF p, e, a
<1>3. Within([files EXCEPT ![p] = [log |-> a, index |-> Overlay(files[p].index, e)]], b)
  BY <1>1, WithinWritten
<1>4. QED BY <1>2, <1>3

\* one that is cut off,
LEMMA WithinFlushStage ==
  ASSUME NEW files \in [Offset -> Files], NEW v \in VirtualSegment, NEW b \in Int,
         Within(files, b), v.start + Len(v.entries) <= b, NEW f \in FlushStages(files, v)
  PROVE  Within(f, b)
<1> DEFINE old == files[v.start]
           log(n) == Overlay(old.log, SubSeq(v.contents, 1, n))
           part(n) == SubSeq(v.entries, 1, n)
           index(n) == Overlay(old.index, part(n))
           stage(x) == [files EXCEPT ![v.start] = x]
           l == Len(v.entries)
<1>1. v.start \in Offset /\ v.start \in Nat /\ v.entries \in Seq(Entry)
  BY OffsetsAre DEF VirtualSegment
<1>2. l \in Nat /\ l \in 0 .. l /\ v.start + l <= b
  BY <1>1
<1>3. ASSUME NEW a, NEW n \in 0 .. l
      PROVE  Within(stage([log |-> a, index |-> index(n)]), b)
  <2>1. part(n) \in Seq(Entry) /\ Len(part(n)) = n
    <3>1. n \in Nat /\ 0 + n = n /\ 0 + 1 = 1 /\ 0 + n <= Len(v.entries)
      OBVIOUS
    <3>2. SubSeq(v.entries, 0 + 1, 0 + n) \in Seq(Entry) /\ Len(SubSeq(v.entries, 0 + 1, 0 + n)) = n
      BY <1>1, <3>1, PartOf
    <3>3. QED BY <3>1, <3>2
  <2> HIDE DEF part, l
  <2>2. v.start + n <= b
    BY <1>1, <1>2
  <2>3. v.start + Len(part(n)) <= b
    BY <2>1, <2>2
  <2>4. QED BY <1>1, <2>1, <2>3, WithinWritten
<1>4. ASSUME NEW a
      PROVE  Within(stage([log |-> a, index |-> old.index]), b)
  <2> DEFINE g == stage([log |-> a, index |-> old.index])
  <2>1. \A o \in Offset : g[o].index = files[o].index
    BY <1>1
  <2> HIDE DEF g
  <2>2. QED BY <2>1 DEF Within, g
<1>5. \/ f = stage([log |-> log(0), index |-> old.index])
      \/ \E n \in 0 .. l : f = stage([log |-> log(0), index |-> index(n)])
      \/ \E n \in 0 .. Len(v.contents) : f = stage([log |-> log(n), index |-> index(l)])
  BY Zenon DEF FlushStages
<1> HIDE DEF log, index, stage, old, l
<1>6. QED BY <1>2, <1>3, <1>4, <1>5

\* and whatever else a batch leaves when it is cut off.
LEMMA WithinStage ==
  ASSUME TypeOK, Loaded(segments, disk), NEW b \in Int, Within(disk, b),
         current.start + Len(current.entries) <= b, NEW left \in {disk} \cup Stages
  PROVE  Within(Vanished(left), b)
<1>1. disk \in [Offset -> Files] /\ current \in VirtualSegment /\ segments \in Seq(Segment)
  BY DEF TypeOK
<1>2. ASSUME NEW f \in [Offset -> Files]
      PROVE  Trims(f, f)
  BY DEF Trims
<1>3. Within(left, b)
  <2>1. CASE left = disk
    BY <2>1
  <2>2. CASE left \in Stages
    <3>1. CASE ~Unfinished \/ ~Storable(Message)
      BY <2>2, <3>1 DEF Stages
    <3>2. CASE ~(~Unfinished \/ ~Storable(Message)) /\ Fits(current, Message)
      <4>1. left \in Cleanings(segments, disk)
        BY <2>2, <3>2 DEF Stages
      <4>2. QED BY <1>1, <1>2, <4>1, TrimsCleaning, WithinTrims
    <3>3. CASE ~(~Unfinished \/ ~Storable(Message)) /\ ~Fits(current, Message)
      <4> DEFINE f == Flush(disk, current)
      <4>1. \/ left \in FlushStages(disk, current)
            \/ \E segs \in Reloaded(f) : left \in Cleanings(segs, f)
        BY <2>2, <3>3 DEF Stages
      <4>2. f \in [Offset -> Files] /\ Loaded(segments, f) /\ Within(f, b)
        BY <1>1, FlushTypes, WithinFlush DEF Loaded
      <4> HIDE DEF f
      <4>3. \A segs \in Reloaded(f) : segs \in Seq(Segment)
        BY <1>1, <4>2, LoadedReloaded
      <4>4. QED BY <1>1, <1>2, <4>1, <4>2, <4>3, WithinFlushStage, TrimsCleaning, WithinTrims
    <3>4. QED BY <3>1, <3>2, <3>3
  <2>3. QED BY <2>1, <2>2
<1>4. left \in [Offset -> Files]
  BY SparesStage DEF Spares
<1>5. Trims(left, Vanished(left))
  BY <1>2, <1>4, TrimsVanished
<1>6. QED BY <1>3, <1>5, WithinTrims

-----------------------------------------------------------------------------
(* How far the segment in memory reaches.                                   *)

\* A wrapped sum is not larger than the sum.
LEMMA WrapsDown == ASSUME NEW n \in Nat PROVE U16(n) \in Nat /\ U16(n) <= n
<1>1. U16(n) \in Offset /\ OffsetSpan \in Nat /\ Offset = 0 .. OffsetSpan - 1
  BY WrapsInto, SegmentsAssumption DEF Offset
<1>2. CASE n \in Offset
  BY <1>2, WrapsNot
<1>3. CASE n \notin Offset
  <2>1. n >= OffsetSpan
    BY <1>1, <1>3
  <2> DEFINE u == U16(n)
  <2>2. u \in 0 .. OffsetSpan - 1
    BY <1>1
  <2> HIDE DEF u
  <2>3. u \in Nat /\ u <= n
    BY <1>1, <2>1, <2>2
  <2>4. QED BY <2>3 DEF u
<1>4. QED BY <1>2, <1>3

\* Neither the next offset nor the entries of v are beyond b, nor is a file.
Reaches(v, files, b) ==
  /\ v.start + v.next <= b
  /\ v.start + Len(v.entries) <= b
  /\ Within(files, b)

\* A write moves the bound by one,
LEMMA WriteReaches ==
  ASSUME NEW v \in VirtualSegment, NEW m \in Messages, NEW files \in [Offset -> Files],
         NEW b \in Int, Reaches(v, files, b), NEW left, Trims(files, left)
  PROVE  Reaches(Write(v, m), left, b + 1)
<1> DEFINE w == Write(v, m)
           e == [start |-> v.position, total |-> Len(m)]
           s == v.start
           n == v.next
           l == Len(v.entries)
<1>1. /\ s \in Nat /\ n \in Nat /\ v.entries \in Seq(Entry) /\ l \in Nat /\ v.position \in Nat
      /\ s + n <= b /\ s + l <= b
  BY OffsetsAre DEF VirtualSegment, Reaches
<1>2. w.start = s /\ w.next = U16(n + 1) /\ w.entries = Append(v.entries, e)
  BY DEF Write, AddEntry
<1>3. Len(w.entries) = l + 1
  <2>1. Len(m) \in Nat
    <3>1. m \in Seq(Byte)
      BY SegmentsAssumption
    <3>2. QED BY <3>1
  <2>2. e \in Entry
    BY <1>1, <2>1 DEF Entry
  <2>3. QED BY <1>1, <1>2, <2>2, AppendProperties
<1> HIDE DEF w, s, n, l
<1>4. w.next \in Nat /\ w.next <= n + 1
  BY <1>1, <1>2, WrapsDown
<1>5. w.start + w.next <= b + 1 /\ w.start + Len(w.entries) <= b + 1
  <2>1. s + w.next <= b + 1
    BY <1>1, <1>4
  <2>2. s + (l + 1) <= b + 1
    BY <1>1
  <2>3. QED BY <1>2, <1>3, <2>1, <2>2
<1>6. Within(left, b + 1)
  <2>1. Within(files, b + 1) /\ b + 1 \in Int /\ b <= b + 1
    <3>1. b + 1 \in Int /\ b <= b + 1
      OBVIOUS
    <3>2. Within(files, b)
      BY DEF Reaches
    <3>3. QED BY <3>1, <3>2, WithinMore
  <2>2. QED BY <2>1, WithinTrims
<1>7. QED BY <1>5, <1>6 DEF Reaches, w

\* and a split does not move it.
LEMMA SplitReaches ==
  ASSUME NEW v \in VirtualSegment, NEW files \in [Offset -> Files],
         NEW b \in Int, Reaches(v, files, b)
  PROVE  Reaches(Successor(v), Flush(files, v), b)
<1> DEFINE s == v.start
           n == v.next
<1>1. s \in Nat /\ n \in Nat /\ s + n \in Nat /\ s + n <= b
  BY OffsetsAre DEF VirtualSegment, Reaches
<1>2. U16(s + n) \in Nat /\ U16(s + n) <= s + n
  BY <1>1, WrapsDown
<1> DEFINE u == U16(s + n)
<1>3. Successor(v).start = u /\ Successor(v).next = 0 /\ Successor(v).entries = <<>>
  BY DEF Successor, NewVirtual
<1> HIDE DEF s, n, u
<1>4. u + 0 <= b
  BY <1>1, <1>2 DEF u
<1>5. Len(<<>>) = 0
  OBVIOUS
<1>6. Within(Flush(files, v), b)
  BY WithinFlush DEF Reaches
<1>7. QED BY <1>3, <1>4, <1>5, <1>6 DEF Reaches

\* An append whose cleaning succeeds,
LEMMA AppendReaches ==
  ASSUME TypeOK, Loaded(segments, disk), NEW m \in Messages, AppendMessage(m),
         NEW b \in Int, Reaches(current, disk, b)
  PROVE  Reaches(current', disk', b + 1)
<1>1. disk \in [Offset -> Files] /\ current \in VirtualSegment
  BY DEF TypeOK
<1>2. ASSUME NEW v \in VirtualSegment, NEW f \in [Offset -> Files], NEW segs,
             Reaches(v, f, b), Store(v, m, segs, f)
      PROVE  Reaches(current', disk', b + 1)
  <2>1. current' = Write(v, m) /\ disk' = Cleaned(f, segs)
    BY <1>2 DEF Store
  <2>2. Trims(f, Cleaned(f, segs))
    <3>1. Trims(f, f)
      BY DEF Trims
    <3>2. QED BY <3>1, TrimsDelete DEF Cleaned
  <2>3. QED BY <1>2, <2>1, <2>2, WriteReaches
<1>3. CASE AppendInPlace(m)
  BY <1>1, <1>2, <1>3 DEF AppendInPlace
<1>4. CASE AppendAfterSplit(m)
  <2>1. PICK segs : Store(Successor(current), m, segs, Flush(disk, current))
    BY <1>4 DEF AppendAfterSplit
  <2>2. Successor(current) \in VirtualSegment /\ Flush(disk, current) \in [Offset -> Files]
    BY <1>1, SuccessorTypes, FlushTypes
  <2>3. Reaches(Successor(current), Flush(disk, current), b)
    BY <1>1, SplitReaches
  <2>4. QED BY <1>2, <2>1, <2>2, <2>3
<1>5. QED BY <1>3, <1>4 DEF AppendMessage

\* and one whose cleaning fails.
LEMMA UncleanedReaches ==
  ASSUME TypeOK, Loaded(segments, disk), Message \in Messages, AppendUncleaned,
         NEW b \in Int, Reaches(current, disk, b)
  PROVE  Reaches(current', disk', b + 1)
<1>1. disk \in [Offset -> Files] /\ current \in VirtualSegment
  BY DEF TypeOK
<1>2. ASSUME NEW v \in VirtualSegment, NEW f \in [Offset -> Files], NEW segs,
             Reaches(v, f, b), StoreUncleaned(v, Message, segs, f)
      PROVE  Reaches(current', disk', b + 1)
  <2>1. PICK left \in Uncleaned(segs, f) : disk' = left.files
    BY <1>2 DEF StoreUncleaned
  <2>2. current' = Write(v, Message)
    BY <1>2 DEF StoreUncleaned
  <2>3. Trims(f, f)
    BY DEF Trims
  <2>4. Trims(f, left.files)
    <3>1. CASE unlinked # {}
      <4>1. left = [segs |-> segs, files |-> f, unlinked |-> unlinked]
        BY <3>1 DEF Uncleaned
      <4>2. QED BY <2>3, <4>1
    <3>2. CASE unlinked = {}
      <4> DEFINE failedAt(n, lost) ==
                   [segs |-> SubSeq(segs, n, Len(segs)),
                    files |-> Delete(f, {segs[i].start : i \in 1 .. n - 1}),
                    unlinked |-> lost]
      <4>1. PICK n \in 1 .. Excess(segs) : left \in {failedAt(n, {}), failedAt(n, {segs[n].start})}
        BY <3>2, Zenon DEF Uncleaned
      <4>2. left.files = Delete(f, {segs[i].start : i \in 1 .. n - 1})
        BY <4>1
      <4>3. QED BY <2>3, <4>2, TrimsDelete
    <3>3. QED BY <3>1, <3>2
  <2>5. QED BY <1>2, <2>1, <2>2, <2>4, WriteReaches
<1>3. CASE Fits(current, Message)
  BY <1>1, <1>2, <1>3 DEF AppendUncleaned
<1>4. CASE ~Fits(current, Message)
  <2>1. PICK segs : StoreUncleaned(Successor(current), Message, segs, Flush(disk, current))
    BY <1>4 DEF AppendUncleaned
  <2>2. Successor(current) \in VirtualSegment /\ Flush(disk, current) \in [Offset -> Files]
    BY <1>1, SuccessorTypes, FlushTypes
  <2>3. Reaches(Successor(current), Flush(disk, current), b)
    BY <1>1, SplitReaches
  <2>4. QED BY <1>2, <2>1, <2>2, <2>3
<1>5. QED BY <1>3, <1>4

-----------------------------------------------------------------------------
(* Opening.                                                                 *)

\* A sequence of n different members of a set of n members has them all.
LEMMA AllListed ==
  ASSUME NEW T, IsFiniteSet(T), NEW n \in Nat, Cardinality(T) = n, NEW s \in [1 .. n -> T],
         \A i, j \in 1 .. n : s[i] = s[j] => i = j, NEW o \in T
  PROVE  \E k \in 1 .. n : s[k] = o
<1> SUFFICES ASSUME \A k \in 1 .. n : s[k] # o PROVE FALSE
  OBVIOUS
<1>1. IsFiniteSet(T \ {o}) /\ Cardinality(T \ {o}) = n - 1
  BY FS_RemoveElement
<1>2. IsFiniteSet(1 .. n) /\ Cardinality(1 .. n) = n
  <2>1. n \in Int /\ 1 \in Int
    OBVIOUS
  <2>2. IsFiniteSet(1 .. n) /\ Cardinality(1 .. n) = IF 1 > n THEN 0 ELSE n - 1 + 1
    BY <2>1, FS_Interval
  <2>3. (IF 1 > n THEN 0 ELSE n - 1 + 1) = n
    OBVIOUS
  <2>4. QED BY <2>2, <2>3
<1>3. s \in [1 .. n -> T \ {o}]
  OBVIOUS
<1>4. n - 1 < n
  OBVIOUS
<1>5. \E x, y \in 1 .. n : x # y /\ s[x] = s[y]
  BY <1>1, <1>2, <1>3, <1>4, FS_PigeonHole
<1>6. QED BY <1>5

\* The pairs in the order in which load_segments leaves them.
Starts(files) == Ascending(Pairs(files))

\* They are all the pairs, in ascending order.
LEMMA StartsAre ==
  ASSUME NEW files
  PROVE  /\ Starts(files) \in Seq(Pairs(files))
         /\ Len(Starts(files)) = Cardinality(Pairs(files)) /\ Len(Starts(files)) \in Nat
         /\ DOMAIN Starts(files) = 1 .. Len(Starts(files))
         /\ \A i \in 1 .. Len(Starts(files)) : Starts(files)[i] \in Pairs(files)
         /\ \A i, j \in 1 .. Len(Starts(files)) : i < j => Starts(files)[i] < Starts(files)[j]
         /\ \A o \in Pairs(files) : \E i \in 1 .. Len(Starts(files)) : Starts(files)[i] = o
<1> DEFINE T == Pairs(files)
           s == Starts(files)
           n == Len(s)
<1>1. /\ s \in Seq(T) /\ n = Cardinality(T)
      /\ \A i, j \in DOMAIN s : i < j => s[i] < s[j]
      /\ \A i, j \in DOMAIN s : s[i] = s[j] => i = j
  BY AscendingIs DEF Starts
<1>2. IsFiniteSet(T)
  BY PairsAre
<1> HIDE DEF T, s
<1>3. n \in Nat /\ DOMAIN s = 1 .. n
  BY <1>1
<1>4. \A i \in 1 .. n : s[i] \in T
  BY <1>1, ElementOfSeq
<1>5. \A o \in T : \E i \in 1 .. n : s[i] = o
  <2> HIDE DEF n
  <2>1. s \in [1 .. n -> T]
    <3>1. s = [i \in 1 .. n |-> s[i]]
      BY <1>1, <1>3
    <3>2. QED BY <1>4, <3>1
  <2>2. QED BY <1>1, <1>2, <1>3, <2>1, AllListed
<1>6. QED BY <1>1, <1>3, <1>4, <1>5 DEF T, s

\* What opening makes of a directory.
LEMMA OpenIs ==
  ASSUME Open
  PROVE  LET s == Starts(disk)
         IN /\ segments' = [i \in DOMAIN s |-> LoadSegment(disk, s[i])]
            /\ current' = IF Len(s) > 1 THEN LoadVirtual(disk, Last(s)) ELSE current
            /\ disk' = IF s = <<>> THEN disk ELSE Delete(disk, Orphans(disk))
            /\ ~up /\ up' = TRUE /\ accepted' = accepted /\ crashes' = crashes
  BY DEF Open, Starts

\* A segment opened from files within b has offsets up to twice b.
LEMMA OpenReaches ==
  ASSUME TypeOK, Open, current = NewVirtual(0), NEW b \in Nat, Within(disk, b),
         NEW c \in Int, 2 * b <= c
  PROVE  Reaches(current', disk', c)
<1> DEFINE s == Starts(disk)
<1>1. /\ current' = IF Len(s) > 1 THEN LoadVirtual(disk, Last(s)) ELSE current
      /\ disk' = IF s = <<>> THEN disk ELSE Delete(disk, Orphans(disk))
  BY OpenIs
<1>2. Len(s) \in Nat /\ \A i \in 1 .. Len(s) : s[i] \in Pairs(disk)
  BY StartsAre
<1> HIDE DEF s
<1>3. disk \in [Offset -> Files]
  BY DEF TypeOK
<1>4. Within(disk', c)
  <2>1. Trims(disk, disk)
    BY <1>3 DEF Trims
  <2>2. Trims(disk, disk')
    BY <1>1, <2>1, TrimsDelete
  <2>3. b \in Int /\ b <= c
    OBVIOUS
  <2>4. QED BY <1>3, <2>2, <2>3, WithinMore, WithinTrims
<1>5. CASE Len(s) > 1
  <2> DEFINE o == Last(s)
             l == Len(disk[o].index)
  <2>1. o \in Pairs(disk)
    <3>1. Len(s) \in 1 .. Len(s)
      BY <1>2, <1>5
    <3>2. QED BY <1>2, <3>1 DEF Last
  <2> HIDE DEF o
  <2>2. disk[o].index \in Seq(Entry) /\ o \in Nat /\ o \in Offset /\ disk[o].index # NoFile
    BY <1>3, <2>1, LoadTypes, OffsetsAre DEF Pairs
  <2>3. l \in Nat /\ o + l <= b
    BY <2>2 DEF Within
  <2>4. /\ current'.start = o /\ current'.next = U16(l + o) /\ current'.entries = disk[o].index
    BY <1>1, <1>5 DEF LoadVirtual, o
  <2> DEFINE e == Len(current'.entries)
  <2>5. e = l
    BY <2>4
  <2> HIDE DEF l, e
  <2>6. U16(l + o) \in Nat /\ U16(l + o) <= l + o
    BY <2>2, <2>3, WrapsDown
  <2> DEFINE u == U16(l + o)
  <2>7. o + u <= c /\ o + l <= c
    <3> HIDE DEF u
    <3>1. u \in Nat /\ u <= l + o
      BY <2>6 DEF u
    <3>2. o + u <= 2 * b
      BY <2>2, <2>3, <3>1
    <3>3. QED BY <2>2, <2>3, <3>1, <3>2
  <2>8. current'.start + current'.next <= c /\ current'.start + e <= c
    BY <2>4, <2>5, <2>7
  <2>9. QED BY <1>4, <2>8 DEF Reaches, e
<1>6. CASE ~(Len(s) > 1)
  <2>1. current'.start = 0 /\ current'.next = 0 /\ current'.entries = <<>>
    BY <1>1, <1>6 DEF NewVirtual
  <2>2. Len(<<>>) = 0 /\ 0 + 0 <= c
    OBVIOUS
  <2>3. QED BY <1>4, <2>1, <2>2 DEF Reaches
<1>7. QED BY <1>5, <1>6

-----------------------------------------------------------------------------
(* The invariant.                                                           *)

\* lim[c] is how far the offsets can come in the life after c restarts: as far as
\* appends can bring them in the first one, then up to twice as far each time.  All
\* of them are offsets, so that nothing wraps.
Doubling(lim) ==
  /\ lim \in [0 .. MaxCrashes -> Offset]
  /\ lim[0] = MaxAppends
  /\ \A c \in 0 .. MaxCrashes - 1 : lim[c + 1] = 2 * lim[c]

\* How far they can have come, with the appends there still can be ahead of them.
Come(lim, c) == lim[c] - (MaxAppends - Len(accepted))

\* While the broker runs, the segment in memory and the files are within what this
\* life allows; while it is down, the files are within what the last one allowed.
RoomInv(lim) ==
  /\ BatchesInv
  /\ Len(accepted) <= MaxAppends
  /\ up => Reaches(current, disk, Come(lim, crashes))
  /\ ~up => /\ crashes > 0 /\ current = NewVirtual(0)
            /\ 0 <= Come(lim, crashes - 1) /\ Within(disk, Come(lim, crashes - 1))

\* The numbers in it.
LEMMA RoomTypes ==
  ASSUME NEW lim, Doubling(lim), RoomInv(lim)
  PROVE  /\ crashes \in 0 .. MaxCrashes /\ Len(accepted) \in Nat /\ MaxAppends \in Nat
         /\ \A c \in 0 .. MaxCrashes : lim[c] \in Nat /\ Come(lim, c) \in Int /\ Come(lim, c) <= lim[c]
<1>1. crashes \in 0 .. MaxCrashes /\ accepted \in Seq([offset : Offset, data : Messages])
  BY DEF RoomInv, BatchesInv, TypeOK
<1> DEFINE n == Len(accepted)
<1>2. n \in Nat /\ MaxAppends \in Nat /\ n <= MaxAppends
  BY <1>1, CommitlogAssumption DEF RoomInv
<1>3. ASSUME NEW c \in 0 .. MaxCrashes
      PROVE  lim[c] \in Nat /\ Come(lim, c) \in Int /\ Come(lim, c) <= lim[c]
  <2>1. lim[c] \in Nat
    BY OffsetsAre DEF Doubling
  <2> DEFINE l == lim[c]
  <2> HIDE DEF n, l
  <2>2. l - (MaxAppends - n) \in Int /\ l - (MaxAppends - n) <= l
    BY <1>2, <2>1 DEF l
  <2>3. QED BY <2>1, <2>2 DEF Come, l, n
<1>4. QED BY <1>1, <1>2, <1>3

\* It holds at the start.
LEMMA RoomStarts ==
  ASSUME NEW lim, Doubling(lim), BatchesInit
  PROVE  RoomInv(lim)
<1>1. BatchesInv
  BY BatchesStarts
<1>2. /\ up = TRUE /\ current = NewVirtual(0) /\ accepted = <<>> /\ crashes = 0
      /\ disk = [o \in Offset |-> Missing]
  BY DEF BatchesInit, TopicInit, Init
<1>3. MaxAppends \in Nat /\ Len(<<>>) = 0
  BY CommitlogAssumption
<1>4. Come(lim, crashes) = 0
  BY <1>2, <1>3 DEF Come, Doubling
<1>5. current.start + current.next <= 0 /\ current.start + Len(current.entries) <= 0
  <2>1. current.start = 0 /\ current.next = 0 /\ current.entries = <<>>
    BY <1>2 DEF NewVirtual
  <2>2. 0 + 0 <= 0
    OBVIOUS
  <2>3. QED BY <1>3, <2>1, <2>2
<1>6. Within(disk, 0)
  BY <1>2 DEF Within, Missing
<1>7. QED BY <1>1, <1>2, <1>3, <1>4, <1>5, <1>6 DEF RoomInv, Reaches

\* What an append brings,
LEMMA RoomAppends ==
  ASSUME NEW lim, Doubling(lim), RoomInv(lim), BatchesInv', up, up' = up, crashes' = crashes,
         Len(accepted) < MaxAppends, Len(accepted') = Len(accepted) + 1,
         Reaches(current', disk', Come(lim, crashes) + 1)
  PROVE  RoomInv(lim)'
<1> DEFINE n == Len(accepted)
           q == Len(accepted')
<1>1. n \in Nat /\ MaxAppends \in Nat /\ lim[crashes] \in Nat /\ q = n + 1 /\ n < MaxAppends
  BY RoomTypes
<1> HIDE DEF n, q
<1>2. q <= MaxAppends /\ lim[crashes] - (MaxAppends - q) = lim[crashes] - (MaxAppends - n) + 1
  BY <1>1
<1>3. Reaches(current', disk', lim[crashes'] - (MaxAppends - q))
  BY <1>2 DEF Come, n
<1>4. QED BY <1>2, <1>3 DEF RoomInv, Come, q

\* and what a stop leaves.
LEMMA RoomStops ==
  ASSUME NEW lim, Doubling(lim), RoomInv(lim), BatchesInv', NEW f, Stop(f),
         Within(f, Come(lim, crashes))
  PROVE  RoomInv(lim)'
<1>1. /\ up /\ up' = FALSE /\ current' = NewVirtual(0) /\ disk' = f /\ crashes' = crashes + 1
      /\ accepted' = accepted
  BY DEF Stop
<1>2. crashes \in Nat /\ Come(lim, crashes) \in Int /\ crashes' - 1 = crashes /\ crashes' > 0
  BY <1>1, RoomTypes
<1>3. 0 <= Come(lim, crashes)
  <2> DEFINE b == Come(lim, crashes)
             s == current.start
             n == current.next
  <2>1. s \in Nat /\ n \in Nat
    BY OffsetsAre DEF RoomInv, BatchesInv, TypeOK, VirtualSegment
  <2>2. s + n <= b /\ b \in Int
    BY <1>1, <1>2 DEF RoomInv, Reaches
  <2> HIDE DEF b, s, n
  <2>3. 0 <= b
    BY <2>1, <2>2
  <2>4. QED BY <2>3 DEF b
<1>4. lim[crashes' - 1] - (MaxAppends - Len(accepted')) = Come(lim, crashes)
  BY <1>1, <1>2 DEF Come
<1>5. Len(accepted') <= MaxAppends
  BY <1>1 DEF RoomInv
<1>6. QED BY <1>1, <1>2, <1>3, <1>4, <1>5 DEF RoomInv, Come

\* Nothing grows that is neither appended to nor flushed.
LEMMA RoomStays ==
  ASSUME NEW lim, RoomInv(lim), BatchesInv', up, up' = up, UNCHANGED <<accepted, crashes, disk>>,
         current'.start = current.start, current'.next = current.next,
         current'.entries = current.entries
  PROVE  RoomInv(lim)'
<1> DEFINE b == Come(lim, crashes)
<1>1. Reaches(current, disk, b) /\ Len(accepted) <= MaxAppends
  BY DEF RoomInv
<1> HIDE DEF b
<1>2. Reaches(current', disk', b)
  BY <1>1 DEF Reaches
<1>3. lim[crashes'] - (MaxAppends - Len(accepted')) = b /\ Len(accepted') <= MaxAppends
  BY <1>1 DEF b, Come
<1>4. QED BY <1>2, <1>3 DEF RoomInv, Come

\* Opening the files that the last life left.
LEMMA RoomOpens ==
  ASSUME NEW lim, Doubling(lim), RoomInv(lim), BatchesInv', Open
  PROVE  RoomInv(lim)'
<1> DEFINE p == crashes - 1
           n == Len(accepted)
           r == MaxAppends - n
           b == Come(lim, p)
           c == Come(lim, crashes)
<1>1. ~up /\ up' = TRUE /\ accepted' = accepted /\ crashes' = crashes
  BY OpenIs
<1>2. /\ crashes > 0 /\ current = NewVirtual(0) /\ 0 <= b /\ Within(disk, b) /\ n <= MaxAppends
  BY <1>1 DEF RoomInv
<1>3. p \in 0 .. MaxCrashes - 1 /\ p + 1 = crashes /\ p \in 0 .. MaxCrashes
  BY <1>2, RoomTypes, CommitlogAssumption
<1>4. b \in Int /\ c \in Int /\ n \in Nat /\ MaxAppends \in Nat /\ lim[p] \in Nat /\ lim[crashes] \in Nat
  BY <1>3, RoomTypes
<1>5. lim[crashes] = 2 * lim[p]
  BY <1>3 DEF Doubling
<1>6. b = lim[p] - r /\ c = lim[crashes] - r
  BY DEF Come
<1> HIDE DEF n, b, c
<1>7. b \in Nat /\ 2 * b <= c
  BY <1>2, <1>4, <1>5, <1>6
<1>8. Reaches(current', disk', c)
  BY <1>2, <1>4, <1>7, OpenReaches DEF RoomInv, BatchesInv
<1>9. lim[crashes'] - (MaxAppends - Len(accepted')) = c /\ Len(accepted') <= MaxAppends
  BY <1>1, <1>2, <1>6 DEF n
<1>10. QED BY <1>1, <1>8, <1>9 DEF RoomInv, Come

\* The whole step.
LEMMA RoomStep ==
  ASSUME NEW lim, Doubling(lim), RoomInv(lim), [BatchesNext]_allVars
  PROVE  RoomInv(lim)'
<1>1. BatchesInv /\ BatchesInv' /\ TypeOK /\ Loaded(segments, disk) /\ RequestTypes
  BY BatchesStep DEF RoomInv, BatchesInv, BatchesKept
<1>2. up => Reaches(current, disk, Come(lim, crashes))
  BY DEF RoomInv
<1>3. Come(lim, crashes) \in Int
  BY RoomTypes
<1>4. ASSUME UNCHANGED logVars
      PROVE  RoomInv(lim)'
  BY <1>1, <1>4 DEF RoomInv, logVars, Come, Reaches, Within
<1>5. ASSUME NEW b \in Batch, TakeRequest(b)
      PROVE  RoomInv(lim)'
  BY <1>4, <1>5 DEF TakeRequest
<1>6. CASE AppendNext
  <2>1. Message \in Messages /\ AppendMessage(Message)
    BY <1>1, <1>6, MessageIs DEF AppendNext
  <2>2. up /\ Len(accepted) < MaxAppends
    BY <2>1 DEF AppendMessage, Storable
  <2>3. Reaches(current', disk', Come(lim, crashes) + 1)
    BY <1>1, <1>2, <1>3, <2>1, <2>2, AppendReaches
  <2>4. /\ UNCHANGED <<up, crashes>>
        /\ \E v \in VirtualSegment : accepted' = Append(accepted, [offset |-> U16(v.start + v.next), data |-> Message])
    BY <1>1, <2>1, SuccessorTypes
       DEF AppendMessage, AppendInPlace, AppendAfterSplit, Store, TypeOK
  <2>5. Len(accepted') = Len(accepted) + 1
    BY <1>1, <2>4 DEF TypeOK
  <2>6. QED BY <1>1, <2>2, <2>3, <2>4, <2>5, RoomAppends
<1>7. CASE AppendUncleaned
  <2>1. Message \in Messages /\ up /\ Len(accepted) < MaxAppends
    BY <1>1, <1>7, MessageIs DEF AppendUncleaned, Storable
  <2>2. Reaches(current', disk', Come(lim, crashes) + 1)
    BY <1>1, <1>2, <1>3, <1>7, <2>1, UncleanedReaches
  <2>3. /\ UNCHANGED <<up, crashes>>
        /\ \E v \in VirtualSegment : accepted' = Append(accepted, [offset |-> U16(v.start + v.next), data |-> Message])
    BY <1>1, <1>7, SuccessorTypes DEF AppendUncleaned, StoreUncleaned, TypeOK
  <2>4. Len(accepted') = Len(accepted) + 1
    BY <1>1, <2>3 DEF TypeOK
  <2>5. QED BY <1>1, <2>1, <2>2, <2>3, <2>4, RoomAppends
<1>8. CASE RefuseNext \/ AnswerRequest
  BY <1>4, <1>8 DEF RefuseNext, AnswerRequest
<1>9. ASSUME NEW g \in Group, NEW waits \in BOOLEAN, ConsumeBetween(g, waits)
      PROVE  RoomInv(lim)'
  <2>1. up /\ UNCHANGED <<up, segments, disk, accepted, crashes>>
    BY <1>9 DEF ConsumeBetween, Consume
  <2>2. \E c : current' = [current EXCEPT !.cursor = c]
    BY <1>9, Zenon DEF ConsumeBetween, Consume
  <2>3. /\ current'.start = current.start /\ current'.next = current.next
        /\ current'.entries = current.entries
    BY <1>1, <2>2 DEF TypeOK, VirtualSegment
  <2>4. QED BY <1>1, <2>1, <2>3, RoomStays
<1>10. ASSUME NEW f \in {disk} \cup Stages, Stop(Vanished(f))
       PROVE  RoomInv(lim)'
  <2>1. Reaches(current, disk, Come(lim, crashes))
    BY <1>2, <1>10 DEF Stop
  <2>2. Within(Vanished(f), Come(lim, crashes))
    BY <1>1, <1>3, <2>1, WithinStage DEF Reaches
  <2>3. QED BY <1>1, <1>10, <2>2, RoomStops
<1>11. CASE BatchStop
  BY <1>10, <1>11 DEF BatchStop
<1>12. ASSUME NEW g \in Group, StopInPollBetween(g)
       PROVE  RoomInv(lim)'
  <2>1. Stop(Vanished(disk))
    BY <1>12 DEF StopInPollBetween, StopInPoll
  <2>2. QED BY <1>10, <2>1
<1>13. CASE OpenAgain
  BY <1>1, <1>13, RoomOpens DEF OpenAgain, TopicOpen
<1>14. CASE UNCHANGED allVars
  BY <1>4, <1>14 DEF allVars
<1>15. QED
  BY <1>5, <1>6, <1>7, <1>8, <1>9, <1>11, <1>12, <1>13, <1>14 DEF BatchesNext, HandleBatch

\* It holds in every life of the broker.
LEMMA RoomInvariant ==
  ASSUME NEW lim, Doubling(lim)
  PROVE  BatchesSpec => []RoomInv(lim)
<1>1. BatchesInit => RoomInv(lim)
  BY RoomStarts
<1>2. RoomInv(lim) /\ [BatchesNext]_allVars => RoomInv(lim)'
  BY RoomStep
<1>3. QED BY <1>1, <1>2, PTL DEF BatchesSpec

-----------------------------------------------------------------------------
(* What is read of a log that was opened.                                   *)

\* A directory with at least two pairs, of which none reaches into the next, and
\* whose offsets can be counted from 0 and from the last pair's start at once.
Orderly(f) ==
  /\ f \in [Offset -> Files]
  /\ Cardinality(Pairs(f)) > 1
  /\ \A s, t \in Pairs(f) : s < t => s + Len(f[s].index) <= t
  /\ \A s \in Pairs(f) : 2 * s + Len(f[s].index) < OffsetSpan

\* The log has just been opened on the directory f.
Opened(f) ==
  /\ segments = [i \in DOMAIN Starts(f) |-> LoadSegment(f, Starts(f)[i])]
  /\ current = LoadVirtual(f, Last(Starts(f)))
  /\ \A o \in Pairs(f) : disk[o] = f[o]

\* Every offset is answered with what the files of f hold for it.
Serves(f) ==
  \A s \in Pairs(f) : \A o \in s .. s + Len(f[s].index) - 1 :
    ReadOutcome(o) = Extract(f[s].log, f[s].index[o - s + 1])

\* Opening serves what the files hold, in a form that can be used of the next state too.
OpenedServes(f) == Orderly(f) /\ Opened(f) => Serves(f)

\* An offset of the last pair, which is the segment in memory.
LEMMA ServesLast ==
  ASSUME NEW f, Orderly(f), Opened(f),
         NEW s \in Pairs(f), s = Last(Starts(f)), s > 0,
         NEW o \in s .. s + Len(f[s].index) - 1
  PROVE  ReadOutcome(o) = Extract(f[s].log, f[s].index[o - s + 1])
<1> DEFINE l == Len(f[s].index)
           k == o - s
<1>1. s \in Nat /\ f[s].index \in Seq(Entry) /\ l \in Nat
  <2>1. f[s].index \in Seq(Entry)
    BY LoadTypes DEF Orderly
  <2>2. s \in Offset
    BY DEF Pairs
  <2>3. s \in Nat
    BY <2>2, OffsetsAre
  <2>4. l \in Nat
    BY <2>1
  <2>5. QED BY <2>1, <2>3, <2>4
<1>2. /\ current.start = s /\ current.next = U16(l + s) /\ current.contents = f[s].log
      /\ current.entries = f[s].index
  BY DEF Opened, LoadVirtual
<1>3. 2 * s + l < OffsetSpan /\ OffsetSpan \in Nat
  BY SegmentsAssumption DEF Orderly
<1> DEFINE e == Len(current.entries)
<1>4. e = l
  BY <1>2
<1> HIDE DEF l, e
<1>5. o \in Int /\ s <= o /\ k \in Nat /\ k < l
  <2>1. o \in s .. s + l - 1
    BY DEF l
  <2>2. QED BY <1>1, <2>1
<1>6. l + s \in Offset /\ (l + s) + s \in Offset
  BY <1>1, <1>3 DEF Offset
<1>7. U16(l + s) = l + s /\ U16((l + s) + s) = (l + s) + s
  BY <1>6, WrapsNot
<1>8. ~(k >= (l + s) + s) /\ ~(k >= e)
  BY <1>1, <1>4, <1>5
<1>9. ReadOutcome(o) = VirtualReadAt(current, k)
  BY <1>2, <1>5 DEF ReadOutcome
<1> HIDE DEF k
<1>10. ~BeyondVirtual(current, k)
  BY <1>2, <1>7, <1>8 DEF BeyondVirtual
<1>11. VirtualReadAt(current, k) = Extract(current.contents, current.entries[k + 1])
  BY <1>8, <1>10 DEF VirtualReadAt, e
<1>12. QED BY <1>2, <1>9, <1>11 DEF k

\* An offset of any other pair, which is a segment on disk.
LEMMA ServesEarlier ==
  ASSUME NEW f, Orderly(f), Opened(f), NEW n \in Nat, n = Len(Starts(f)),
         NEW i \in 1 .. n, i < n, NEW s, s = Starts(f)[i],
         NEW o \in s .. s + Len(f[s].index) - 1
  PROVE  ReadOutcome(o) = Extract(f[s].log, f[s].index[o - s + 1])
<1> DEFINE t == Starts(f)
           l == Len(f[s].index)
           k == o - s
           seg == segments[i]
<1>1. /\ \A j \in 1 .. n : t[j] \in Pairs(f)
      /\ \A j, h \in 1 .. n : j < h => t[j] < t[h]
      /\ DOMAIN t = 1 .. n
  BY StartsAre
<1>2. \A j \in 1 .. n : t[j] \in Nat /\ t[j] \in Offset
  BY <1>1, OffsetsAre DEF Pairs
<1>3. i + 1 \in 1 .. n /\ i < i + 1 /\ n \in 1 .. n
  OBVIOUS
<1>4. s \in Pairs(f) /\ s \in Nat /\ s = t[i] /\ f[s].index \in Seq(Entry) /\ l \in Nat
  <2>1. s \in Pairs(f)
    BY <1>1
  <2>2. f[s].index \in Seq(Entry)
    BY <2>1, LoadTypes DEF Orderly
  <2>3. QED BY <1>2, <2>1, <2>2
<1>5. s + l <= t[i + 1]
  BY <1>1, <1>3, <1>4 DEF Orderly
<1>6. /\ DOMAIN segments = 1 .. n
      /\ \A j \in 1 .. n : segments[j] = LoadSegment(f, t[j])
      /\ current = LoadVirtual(f, Last(t)) /\ disk[s] = f[s]
  BY <1>1, <1>4 DEF Opened
<1>7. \A j \in 1 .. n : segments[j].start = t[j]
  BY <1>6 DEF LoadSegment
<1>8. current.start = t[n]
  BY <1>6 DEF LoadVirtual, Last
<1>9. seg.start = s /\ seg.next = U16(l + s) /\ seg.entries = f[s].index
  BY <1>4, <1>6 DEF LoadSegment
<1> DEFINE e == Len(seg.entries)
<1>10. e = l
  BY <1>9
<1> HIDE DEF l, t, e
<1>11. o \in Int /\ s <= o /\ k \in Nat /\ k < l /\ o < s + l
  <2>1. o \in s .. s + l - 1
    BY DEF l
  <2>2. QED BY <1>4, <2>1
<1>12. o < t[i + 1]
  BY <1>2, <1>3, <1>4, <1>5, <1>11
<1>13. \A j \in 1 .. n : i < j => o < t[j]
  <2> SUFFICES ASSUME NEW j \in 1 .. n, i < j PROVE o < t[j]
    OBVIOUS
  <2>1. j = i + 1 \/ i + 1 < j
    OBVIOUS
  <2>2. i + 1 < j => t[i + 1] < t[j]
    BY <1>1, <1>3
  <2>3. QED BY <1>2, <1>3, <1>11, <1>12, <2>1, <2>2
<1>14. \A j \in 1 .. i : t[j] <= o
  <2> SUFFICES ASSUME NEW j \in 1 .. i PROVE t[j] <= o
    OBVIOUS
  <2>1. j \in 1 .. n /\ (j = i \/ j < i)
    OBVIOUS
  <2>2. j < i => t[j] < t[i]
    BY <1>1, <2>1
  <2>3. QED BY <1>2, <1>4, <1>11, <2>1, <2>2
<1>15. Located(o) = 1 .. i
  <2>1. \A j \in 1 .. n : j \in Located(o) <=> \A h \in 1 .. j : t[h] <= o
    <3>1. \A j \in 1 .. n : \A h \in 1 .. j : segments[h].start = t[h]
      BY <1>7
    <3>2. QED BY <1>6, <3>1 DEF Located
  <2>2. ASSUME NEW j \in 1 .. i
        PROVE  j \in Located(o)
    <3>1. j \in 1 .. n /\ \A h \in 1 .. j : h \in 1 .. i
      OBVIOUS
    <3>2. QED BY <1>14, <2>1, <3>1
  <2>3. ASSUME NEW j \in Located(o)
        PROVE  j \in 1 .. i
    <3>1. j \in 1 .. n
      BY <1>6 DEF Located
    <3>2. j \in 1 .. j /\ t[j] <= o
      BY <2>1, <2>3, <3>1
    <3>3. ~(i < j)
      BY <1>2, <1>11, <1>13, <3>1, <3>2
    <3>4. QED BY <3>1, <3>3
  <2>4. QED BY <2>2, <2>3
<1>16. Max(Located(o)) = i /\ Located(o) # {}
  <2>1. Located(o) \in SUBSET Nat /\ i \in Located(o) /\ \A j \in Located(o) : j <= i
    BY <1>15
  <2>2. QED BY <2>1, MaxIs
<1>17. ~(current.start <= o)
  BY <1>2, <1>3, <1>8, <1>11, <1>13
<1>18. ReadOutcome(o) = SegmentReadAt(disk, seg, o - seg.start)
  BY <1>16, <1>17 DEF ReadOutcome
<1>19. l + s \in Offset /\ l \in Offset
  <2>1. t[i + 1] \in Offset /\ OffsetSpan \in Nat
    BY <1>2, <1>3, SegmentsAssumption
  <2>2. QED BY <1>4, <1>5, <2>1 DEF Offset
<1>20. seg.next = l + s /\ U16(seg.next - seg.start) = l
  <2>1. seg.next = l + s
    BY <1>9, <1>19, WrapsNot
  <2>2. (l + s) - s = l
    BY <1>4
  <2>3. QED BY <1>9, <1>19, <2>1, <2>2, WrapsNot
<1> HIDE DEF seg, k
<1>21. ~BeyondSegment(seg, k) /\ ~(k >= e)
  <2>1. ~(k >= l) /\ (s = 0 => ~(k >= l + s))
    BY <1>4, <1>11
  <2>2. QED BY <1>9, <1>10, <1>20, <2>1 DEF BeyondSegment
<1>22. SegmentReadAt(disk, seg, k) = Extract(disk[s].log, seg.entries[k + 1])
  BY <1>9, <1>21 DEF SegmentReadAt, e
<1>23. QED BY <1>6, <1>9, <1>18, <1>22 DEF k

\* It holds of a state,
LEMMA OpenedNow ==
  ASSUME NEW f
  PROVE  OpenedServes(f)
<1> SUFFICES ASSUME Orderly(f), Opened(f), NEW s \in Pairs(f),
                    NEW o \in s .. s + Len(f[s].index) - 1
             PROVE  ReadOutcome(o) = Extract(f[s].log, f[s].index[o - s + 1])
  BY DEF OpenedServes, Serves
<1> DEFINE t == Starts(f)
           n == Len(t)
<1>1. /\ n = Cardinality(Pairs(f)) /\ n \in Nat /\ n > 1
      /\ \A j \in 1 .. n : t[j] \in Pairs(f)
      /\ \A j, h \in 1 .. n : j < h => t[j] < t[h]
  BY StartsAre DEF Orderly
<1>2. PICK i \in 1 .. n : t[i] = s
  BY StartsAre
<1>3. CASE i < n
  BY <1>1, <1>2, <1>3, ServesEarlier
<1>4. CASE ~(i < n)
  <2>1. i = n /\ 1 \in 1 .. n /\ 1 < n
    BY <1>1, <1>4
  <2>2. t[1] < t[n]
    BY <1>1, <2>1
  <2>3. t[1] \in Nat /\ t[n] \in Nat
    BY <1>1, <2>1, OffsetsAre DEF Pairs
  <2>4. s = Last(t)
    BY <1>2, <2>1 DEF Last
  <2>5. s > 0
    BY <1>2, <2>1, <2>2, <2>3
  <2> HIDE DEF t
  <2>6. QED BY <2>4, <2>5, ServesLast DEF t
<1>5. QED BY <1>3, <1>4

\* and of the next one.
LEMMA OpenedNext ==
  ASSUME NEW f
  PROVE  OpenedServes(f)'
<1>1. OpenedServes(f)
  BY OpenedNow
<1>2. QED BY <1>1, PTL

-----------------------------------------------------------------------------
\* A log opened again, after any batches, failed cleanings and stops in the middle of
\* them, answers every offset of its directory with what the files hold for it: as long
\* as the restarts, each of which can double the offsets, do not make them wrap.
THEOREM BatchesOpens ==
  ASSUME NEW lim, Doubling(lim)
  PROVE  BatchesSpec => OpenServesFlushed
<1> DEFINE A == /\ Open
                /\ Cardinality(Pairs(disk)) > 1
                /\ \A s, t \in Pairs(disk) : s < t => s + Len(disk[s].index) <= t
                => \A s \in Pairs(disk) : ServedFrom(s)
<1>1. ASSUME RoomInv(lim), Open, Cardinality(Pairs(disk)) > 1,
             \A s, t \in Pairs(disk) : s < t => s + Len(disk[s].index) <= t
      PROVE  \A s \in Pairs(disk) : ServedFrom(s)
  <2>1. PICK f : f = disk
    OBVIOUS
  <2>2. Orderly(f)
    <3>1. disk \in [Offset -> Files]
      BY <1>1 DEF RoomInv, BatchesInv, TypeOK
    <3>2. \A s \in Pairs(disk) : 2 * s + Len(disk[s].index) < OffsetSpan
      <4> SUFFICES ASSUME NEW s \in Pairs(disk) PROVE 2 * s + Len(disk[s].index) < OffsetSpan
        OBVIOUS
      <4> DEFINE l == Len(disk[s].index)
                 p == crashes - 1
                 b == Come(lim, p)
      <4>1. disk[s].index \in Seq(Entry) /\ s \in Offset /\ s \in Nat /\ disk[s].index # NoFile
        BY <3>1, LoadTypes, OffsetsAre DEF Pairs
      <4>2. crashes > 0 /\ Within(disk, b)
        BY <1>1, OpenIs DEF RoomInv
      <4>3. p \in 0 .. MaxCrashes - 1 /\ p + 1 = crashes /\ p \in 0 .. MaxCrashes
        BY <1>1, <4>2, RoomTypes, CommitlogAssumption
      <4>4. l \in Nat /\ s + l <= b
        BY <4>1, <4>2 DEF Within
      <4>5. lim[crashes] = 2 * lim[p] /\ lim[crashes] \in Offset
        BY <1>1, <4>3, RoomTypes DEF Doubling
      <4>6. b \in Int /\ b <= lim[p] /\ lim[p] \in Nat
        BY <1>1, <4>3, RoomTypes
      <4> HIDE DEF l, b, p
      <4>7. 2 * s + l <= lim[crashes] /\ lim[crashes] < OffsetSpan
        BY <4>1, <4>4, <4>5, <4>6, SegmentsAssumption DEF Offset
      <4>8. 2 * s + l < OffsetSpan
        BY <4>1, <4>4, <4>5, <4>6, <4>7, SegmentsAssumption
      <4>9. QED BY <4>8 DEF l
    <3>3. QED BY <1>1, <2>1, <3>1, <3>2 DEF Orderly
  <2>3. Opened(f)'
    <3> DEFINE t == Starts(f)
    <3>1. Len(t) = Cardinality(Pairs(f)) /\ Len(t) > 1 /\ t # <<>>
      <4>1. Len(t) = Cardinality(Pairs(f)) /\ Len(t) > 1
        BY <1>1, <2>1, StartsAre
      <4>2. Len(<<>>) = 0
        OBVIOUS
      <4>3. QED BY <4>1, <4>2
    <3>2. /\ segments' = [i \in DOMAIN t |-> LoadSegment(f, t[i])]
          /\ current' = LoadVirtual(f, Last(t))
          /\ disk' = Delete(f, Orphans(f))
      BY <1>1, <2>1, <3>1, OpenIs
    <3>3. \A o \in Pairs(f) : disk'[o] = f[o]
      BY <2>2, <3>2, DeleteTypes DEF Orderly, Orphans, Pairs
    <3>4. QED BY <3>2, <3>3 DEF Opened
  <2>4. Serves(f)'
    BY <2>2, <2>3, OpenedNext DEF OpenedServes
  <2>5. QED BY <2>1, <2>4 DEF Serves, ServedFrom, Covered, Stored
<1>2. RoomInv(lim) => [A]_vars
  BY <1>1
<1> HIDE DEF A
<1>3. BatchesSpec => [][A]_vars
  BY <1>2, RoomInvariant, PTL DEF BatchesSpec
<1>4. QED BY <1>3 DEF OpenServesFlushed, A

=============================================================================
