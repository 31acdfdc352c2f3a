---------------------------- MODULE TopicProofs -----------------------------
(***************************************************************************)
(* What a topic promises in one life of the broker, for all messages,      *)
(* groups, segment sizes and retentions: every retained message reads back *)
(* as it was appended, groups skip nothing but what is accounted for, and  *)
(* all of it is a plain log of numbered events.  The argument: a poll      *)
(* reads to the end of the log, so that it puts the one cursor back at the *)
(* end of the contents, where the next write and its index entry meet.     *)
(***************************************************************************)
EXTENDS Topic, CommitlogProofs

\* The entries locate in bytes the messages that were accepted from start on.
Readable(bytes, start, entries, log) ==
  \A k \in DOMAIN entries : Extract(bytes, entries[k]) = Found(log[start + k].data)

\* The invariant of the log under polls: the cursor is where the contents end, and
\* the entries in memory and on disk locate the bytes of their messages.
LogIntact ==
  /\ LogInv
  /\ current.cursor = current.position
  /\ current.position = Len(current.contents)
  /\ Readable(current.contents, current.start, current.entries, accepted)
  /\ \A i \in DOMAIN segments :
       Readable(disk[segments[i].start].log, segments[i].start, segments[i].entries, accepted)

\* A part of a sequence, element by element.
LEMMA PartOf ==
  ASSUME NEW S, NEW c \in Seq(S), NEW a \in Nat, NEW n \in Nat, a + n <= Len(c)
  PROVE  LET t == SubSeq(c, a + 1, a + n)
         IN t \in Seq(S) /\ Len(t) = n /\ \A i \in 1 .. n : t[i] = c[a + i]
<1> DEFINE x == a + 1
           y == a + n
           t == SubSeq(c, x, y)
<1>1. \A i \in x .. y : c[i] \in S
  <2>1. \A i \in x .. y : i \in 1 .. Len(c)
    OBVIOUS
  <2>2. \A i \in 1 .. Len(c) : c[i] \in S
    OBVIOUS
  <2>3. QED BY <2>1, <2>2
<1>2. x \in Int /\ y \in Int
  OBVIOUS
<1>3. /\ SubSeq(c, x, y) \in Seq(S)
      /\ Len(SubSeq(c, x, y)) = IF x <= y THEN y - x + 1 ELSE 0
      /\ \A i \in 1 .. y - x + 1 : SubSeq(c, x, y)[i] = c[x + i - 1]
  <2> HIDE DEF x, y
  <2>1. QED BY <1>1, <1>2, SubSeqProperties
<1> HIDE DEF t
<1>4. y - x + 1 = n /\ (~(x <= y) => n = 0) /\ \A i \in 1 .. n : x + i - 1 = a + i
  OBVIOUS
<1>5. QED BY <1>3, <1>4 DEF t

\* A part of a sequence is the sequence with the same elements.
LEMMA PartIs ==
  ASSUME NEW S, NEW c \in Seq(S), NEW a \in Nat, NEW n \in Nat, a + n <= Len(c),
         NEW m \in Seq(S), Len(m) = n, \A i \in 1 .. n : c[a + i] = m[i]
  PROVE  SubSeq(c, a + 1, a + n) = m
<1> DEFINE t == SubSeq(c, a + 1, a + n)
<1>1. t \in Seq(S) /\ Len(t) = n /\ \A i \in 1 .. n : t[i] = c[a + i]
  BY PartOf
<1> HIDE DEF t
<1>2. Len(t) = Len(m) /\ \A i \in 1 .. Len(t) : t[i] = m[i]
  BY <1>1
<1>3. t = m
  BY <1>1, <1>2, SeqEqual
<1>4. QED BY <1>3 DEF t

\* A write at the end of the contents is an append.
LEMMA PutAtEnd ==
  ASSUME NEW bytes \in Seq(Byte), NEW m \in Seq(Byte)
  PROVE  Put(bytes, Len(bytes), m) = bytes \o m
<1> DEFINE b == Len(bytes)
           l == Len(m)
           p == Put(bytes, b, m)
           c == bytes \o m
<1>1. b \in Nat /\ l \in Nat
  OBVIOUS
<1>2. p \in Seq(Byte)
  BY <1>1, PutType
<1>3. c \in Seq(Byte) /\ Len(c) = b + l
      /\ \A i \in 1 .. b + l : c[i] = IF i <= b THEN bytes[i] ELSE m[i - b]
  BY ConcatProperties
<1>4. Len(p) = b + l /\ \A i \in 1 .. b + l : p[i] = IF i <= b THEN bytes[i] ELSE m[i - b]
  <2> DEFINE size == IF b + l > b THEN b + l ELSE b
             e(i) == IF i \in b + 1 .. b + l THEN m[i - b]
                     ELSE IF i <= b THEN bytes[i] ELSE ZeroByte
  <2>1. p = [i \in 1 .. size |-> e(i)]
    BY DEF Put
  <2> HIDE DEF b, l, p
  <2>2. size = b + l
    BY <1>1
  <2> HIDE DEF size, e
  <2>3. \A i \in 1 .. b + l : p[i] = e(i)
    BY <2>1, <2>2
  <2>4. Len(p) = b + l
    <3>1. DOMAIN p = 1 .. b + l /\ b + l \in Nat
      BY <1>1, <2>1, <2>2
    <3>2. QED BY <1>2, <3>1
  <2>5. \A i \in 1 .. b + l : i \in b + 1 .. b + l <=> ~(i <= b)
    BY <1>1
  <2>6. QED BY <2>3, <2>4, <2>5 DEF e
<1> HIDE DEF b, l, c, p
<1>5. Len(p) = Len(c) /\ \A i \in 1 .. Len(p) : p[i] = c[i]
  BY <1>3, <1>4
<1>6. p = c
  BY <1>2, <1>3, <1>5, SeqEqual
<1>7. QED BY <1>6 DEF p, c, b

\* What can be read stays readable when bytes are added behind it.
LEMMA ExtractGrows ==
  ASSUME NEW bytes \in Seq(Byte), NEW m \in Seq(Byte), NEW entry \in Entry, NEW data,
         Extract(bytes, entry) = Found(data)
  PROVE  Extract(bytes \o m, entry) = Found(data)
<1> DEFINE a == entry.start
           n == entry.total
           b == Len(bytes)
           l == Len(m)
           c == bytes \o m
           d == SubSeq(bytes, a + 1, a + n)
<1>1. a \in Nat /\ n \in Nat
  BY DEF Entry
<1>2. b \in Nat /\ l \in Nat
  OBVIOUS
<1>3. c \in Seq(Byte) /\ Len(c) = b + l /\ \A i \in 1 .. b : c[i] = bytes[i]
  OBVIOUS
<1>4. a + n <= b /\ d = data
  <2>1. "Found" # "Failed"
    OBVIOUS
  <2>2. QED BY <2>1 DEF Extract, Found, Failed
<1>5. d \in Seq(Byte) /\ Len(d) = n /\ \A i \in 1 .. n : d[i] = bytes[a + i]
  BY <1>1, <1>4, PartOf
<1> HIDE DEF a, n, b, l, c, d
<1>6. a + n <= Len(c) /\ \A i \in 1 .. n : c[a + i] = d[i]
  <2>1. \A i \in 1 .. n : a + i \in 1 .. b
    BY <1>1, <1>2, <1>4
  <2>2. a + n <= b + l
    BY <1>1, <1>2, <1>4
  <2>3. QED BY <1>3, <1>5, <2>1, <2>2
<1>7. SubSeq(c, a + 1, a + n) = d
  BY <1>1, <1>3, <1>5, <1>6, PartIs
<1>8. QED BY <1>4, <1>6, <1>7 DEF Extract, a, n, c

\* What is added at the end can be read there.
LEMMA ExtractNew ==
  ASSUME NEW bytes \in Seq(Byte), NEW m \in Seq(Byte), NEW entry,
         entry.start = Len(bytes), entry.total = Len(m)
  PROVE  Extract(bytes \o m, entry) = Found(m)
<1> DEFINE b == Len(bytes)
           l == Len(m)
           c == bytes \o m
<1>1. /\ b \in Nat /\ l \in Nat /\ c \in Seq(Byte) /\ Len(c) = b + l
      /\ \A i \in 1 .. l : c[b + i] = m[i]
  OBVIOUS
<1> HIDE DEF b, c
<1>2. b + l <= Len(c)
  BY <1>1
<1>3. SubSeq(c, b + 1, b + l) = m
  BY <1>1, <1>2, PartIs
<1>4. entry.start + entry.total = b + l /\ entry.start + 1 = b + 1
  BY DEF b
<1>5. QED BY <1>2, <1>3, <1>4 DEF Extract, c

\* Messages appended later do not concern the entries there are.
LEMMA ReadableGrows ==
  ASSUME NEW bytes, NEW start \in Nat, NEW entries \in Seq(Entry), NEW log, NEW more,
         start + Len(entries) <= Len(log), Len(log) \in Nat, \A i \in 1 .. Len(log) : more[i] = log[i],
         Readable(bytes, start, entries, log)
  PROVE  Readable(bytes, start, entries, more)
<1>1. \A k \in DOMAIN entries : start + k \in 1 .. Len(log)
  OBVIOUS
<1>2. QED BY <1>1 DEF Readable

\* A message written at the end is located by the entry added for it.
LEMMA ReadableAppend ==
  ASSUME NEW bytes \in Seq(Byte), NEW start \in Nat, NEW entries \in Seq(Entry), NEW log,
         NEW m \in Seq(Byte), Readable(bytes, start, entries, log),
         log[start + (Len(entries) + 1)].data = m
  PROVE  Readable(bytes \o m, start, AddEntry(entries, Len(bytes), Len(m)), log)
<1> DEFINE e == [start |-> Len(bytes), total |-> Len(m)]
           l == Len(entries)
           more == Append(entries, e)
<1>1. e \in Entry /\ e.start = Len(bytes) /\ e.total = Len(m)
  BY DEF Entry
<1> HIDE DEF e
<1>2. /\ Len(more) = l + 1 /\ more[l + 1] = e /\ \A k \in 1 .. l : more[k] = entries[k]
      /\ more \in Seq(Entry) /\ l \in Nat /\ DOMAIN entries = 1 .. l
  BY <1>1, AppendProperties
<1> HIDE DEF more
<1>3. Extract(bytes \o m, e) = Found(m)
  BY <1>1, ExtractNew
<1>4. ASSUME NEW k \in 1 .. l
      PROVE  Extract(bytes \o m, entries[k]) = Found(log[start + k].data)
  <2>1. entries[k] \in Entry
    OBVIOUS
  <2>2. Extract(bytes, entries[k]) = Found(log[start + k].data)
    BY <1>2 DEF Readable
  <2>3. QED BY <2>1, <2>2, ExtractGrows
<1>5. \A k \in DOMAIN more : k = l + 1 \/ k \in 1 .. l
  BY <1>2
<1>6. \A k \in DOMAIN more : Extract(bytes \o m, more[k]) = Found(log[start + k].data)
  BY <1>2, <1>3, <1>4, <1>5
<1>7. QED BY <1>6 DEF Readable, AddEntry, more, e

\* A write to v, whose cursor is at the end, on top of the segments segs.
LEMMA StoreIntact ==
  ASSUME TypeOK, LogInv', NEW v \in VirtualSegment, NEW m \in Messages,
         NEW segs \in Seq(Segment), NEW files,
         Chain(segs, v.start), v.next = Len(v.entries), v.start + v.next = Len(accepted),
         v.cursor = v.position, v.position = Len(v.contents),
         Readable(v.contents, v.start, v.entries, accepted),
         \A i \in DOMAIN segs :
           Readable(files[segs[i].start].log, segs[i].start, segs[i].entries, accepted),
         NEW c \in 0 .. Len(segs), StoreLeaving(v, m, segs, files, c)
  PROVE  LogIntact'
<1> DEFINE r == [offset |-> U16(v.start + v.next), data |-> m]
           n == Len(accepted)
<1>1. /\ current' = Write(v, m) /\ segments' = Newest(segs, c) /\ accepted' = Append(accepted, r)
      /\ disk' = Delete(files, Oldest(segs, c))
  BY DEF StoreLeaving
<1>2. /\ v.start \in Nat /\ v.next \in Nat /\ v.entries \in Seq(Entry)
      /\ v.contents \in Seq(Byte) /\ m \in Seq(Byte)
      /\ n \in Nat /\ accepted \in Seq([offset : Offset, data : Messages])
  <2>1. m \in Seq(Byte)
    BY SegmentsAssumption
  <2>2. v.start \in Nat /\ v.next \in Nat /\ v.entries \in Seq(Entry) /\ v.contents \in Seq(Byte)
    BY SegmentsAssumption DEF VirtualSegment, Offset
  <2>3. QED BY <2>1, <2>2 DEF TypeOK
<1>3. /\ Len(accepted') = n + 1 /\ accepted'[n + 1].data = m
      /\ \A i \in 1 .. n : accepted'[i] = accepted[i]
  <2>1. r \in [offset : Offset, data : Messages] /\ r.data = m
    BY <1>2, WrapsInto
  <2> HIDE DEF r
  <2>2. QED BY <1>1, <1>2, <2>1, AppendProperties
<1> HIDE DEF r, n
<1>4. ASSUME NEW i \in DOMAIN segs
      PROVE  Readable(files[segs[i].start].log, segs[i].start, segs[i].entries, accepted')
  <2>1. segs[i] \in Segment
    OBVIOUS
  <2>2. segs[i].start \in Nat /\ segs[i].next \in Nat /\ segs[i].entries \in Seq(Entry)
    BY <2>1, SegmentNats DEF Segment
  <2>3. Len(segs[i].entries) = segs[i].next - segs[i].start /\ segs[i].next <= v.start
    BY DEF Chain
  <2>4. segs[i].start + Len(segs[i].entries) <= n
    <3> DEFINE a == segs[i].start
               b == segs[i].next
               l == Len(segs[i].entries)
    <3>1. /\ a \in Nat /\ b \in Nat /\ l = b - a /\ b <= v.start
          /\ v.start \in Nat /\ v.next \in Nat /\ v.start + v.next = n
      BY <1>2, <2>2, <2>3 DEF n
    <3> HIDE DEF a, b, l
    <3>2. a + l <= n
      BY <3>1
    <3>3. QED BY <3>2 DEF a, l
  <2>5. QED BY <1>2, <1>3, <2>2, <2>4, ReadableGrows DEF n
<1>5. \A i \in DOMAIN segments' :
        Readable(disk'[segments'[i].start].log, segments'[i].start, segments'[i].entries, accepted')
  <2>1. ASSUME NEW i \in DOMAIN segments'
        PROVE  \E j \in DOMAIN segs :
                 /\ segments'[i] = segs[j]
                 /\ disk'[segs[j].start] = files[segs[j].start]
    BY <1>1, FilesStay
  <2>2. QED BY <1>4, <2>1
<1>6. /\ current'.start = v.start /\ current'.contents = v.contents \o m
      /\ current'.entries = AddEntry(v.entries, Len(v.contents), Len(m))
      /\ current'.cursor = current'.position /\ current'.position = Len(v.contents) + Len(m)
  BY <1>1, <1>2, PutAtEnd DEF Write
<1>7. current'.position = Len(current'.contents)
  BY <1>2, <1>6, ConcatProperties
<1>8. Readable(current'.contents, current'.start, current'.entries, accepted')
  <2>1. Readable(v.contents, v.start, v.entries, accepted')
    <3>1. v.start + Len(v.entries) <= n
      BY <1>2 DEF n
    <3>2. QED BY <1>2, <1>3, <3>1, ReadableGrows DEF n
  <2>2. accepted'[v.start + (Len(v.entries) + 1)].data = m
    <3> DEFINE a == v.start
               l == Len(v.entries)
    <3>1. a \in Nat /\ l \in Nat /\ n \in Nat /\ a + l = n
      BY <1>2 DEF n
    <3> HIDE DEF a, l, n
    <3>2. a + (l + 1) = n + 1
      BY <3>1
    <3>3. QED BY <1>3, <3>2 DEF a, l
  <2>3. QED BY <1>2, <1>6, <2>1, <2>2, ReadableAppend
<1>9. QED BY <1>5, <1>6, <1>7, <1>8 DEF LogIntact

\* An append, with or without a split, keeps the log intact, whatever its cleaning
\* leaves.
LEMMA LeavingIntact ==
  ASSUME MaxAppends < OffsetSpan, LogIntact, NEW m \in Messages, AppendLeaving(m)
  PROVE  LogIntact'
<1>1. LogInv /\ LifeInv /\ TypeOK
  BY DEF LogIntact, LogInv, LifeInv
<1>2. LogInv' /\ Storable(m) /\ Len(segments) \in Nat
  BY <1>1, LeavingDescribes DEF AppendLeaving, TypeOK
<1>3. /\ current \in VirtualSegment /\ segments \in Seq(Segment) /\ current.start \in Nat
      /\ current.next \in Nat
      /\ Chain(segments, current.start) /\ current.next = Len(current.entries)
      /\ current.start + current.next = Len(accepted)
  <2>1. current \in VirtualSegment /\ segments \in Seq(Segment)
    BY <1>1 DEF TypeOK
  <2>2. current.start \in Nat /\ current.next \in Nat
    BY <2>1, SegmentsAssumption DEF VirtualSegment, Offset
  <2>3. QED BY <1>1, <2>1, <2>2 DEF LifeInv, OffsetsConsecutive, End
<1>4. ASSUME NEW c \in 0 .. Len(segments), PlaceLeaving(m, c)
      PROVE  LogIntact'
  <2>1. StoreLeaving(current, m, segments, disk, c)
    BY <1>4 DEF PlaceLeaving
  <2>2. QED BY <1>1, <1>2, <1>3, <2>1, StoreIntact DEF LogIntact
<1>5. ASSUME NEW c \in 0 .. Len(segments), SplitLeaving(m, c)
      PROVE  LogIntact'
  <2> DEFINE f == Flush(disk, current)
             s == LoadSegment(f, current.start)
             t == Append(segments, s)
             v == Successor(current)
  <2>1. /\ t \in Seq(Segment) /\ Chain(t, v.start)
        /\ f[current.start] = [log |-> current.contents, index |-> current.entries]
        /\ \A p \in Offset \ {current.start} : f[p] = disk[p]
        /\ s \in Segment /\ s.start = current.start /\ s.entries = current.entries
        /\ v \in VirtualSegment /\ v.start = current.start + current.next
        /\ v = NewVirtual(v.start) /\ StoreLeaving(v, m, t, f, c)
    BY <1>1, <1>2, <1>5, Splits
  <2> HIDE DEF f, s, v
  <2>2. /\ Len(t) = Len(segments) + 1 /\ t[Len(segments) + 1] = s
        /\ \A i \in 1 .. Len(segments) : t[i] = segments[i]
        /\ Len(segments) \in Nat /\ DOMAIN segments = 1 .. Len(segments)
    BY <1>3, <2>1, AppendProperties
  <2> HIDE DEF t
  <2>3. /\ v.next = 0 /\ v.entries = <<>> /\ v.contents = <<>> /\ v.cursor = 0 /\ v.position = 0
    BY <2>1 DEF NewVirtual
  <2>4. ASSUME NEW i \in DOMAIN t
        PROVE  Readable(f[t[i].start].log, t[i].start, t[i].entries, accepted)
    <3>1. CASE i = Len(segments) + 1
      <4>1. f[t[i].start].log = current.contents /\ t[i] = s
        BY <2>1, <2>2, <3>1
      <4>2. QED BY <2>1, <4>1 DEF LogIntact
    <3>2. CASE i \in DOMAIN segments
      <4>1. t[i] = segments[i]
        BY <2>2, <3>2
      <4>2. segments[i].start \in Offset /\ segments[i].start < current.start
        BY <1>3, <3>2, ChainStarts
      <4>3. segments[i].start # current.start
        BY <1>3, <4>2
      <4>4. f[segments[i].start] = disk[segments[i].start]
        BY <2>1, <4>2, <4>3
      <4>5. QED BY <3>2, <4>1, <4>4 DEF LogIntact
    <3>3. i = Len(segments) + 1 \/ i \in DOMAIN segments
      BY <2>1, <2>2
    <3>4. QED BY <3>1, <3>2, <3>3
  <2>5. /\ v.next = Len(v.entries) /\ v.start + v.next = Len(accepted)
        /\ v.cursor = v.position /\ v.position = Len(v.contents)
        /\ Readable(v.contents, v.start, v.entries, accepted)
    <3>1. v.start + 0 = v.start /\ Len(<<>>) = 0
      BY <1>3, <2>1
    <3>2. QED BY <1>3, <2>1, <2>3, <3>1 DEF Readable
  <2>6. c \in 0 .. Len(t)
    BY <1>2, <2>2
  <2>7. QED BY <1>1, <1>2, <2>1, <2>4, <2>5, <2>6, StoreIntact
<1>6. QED BY <1>4, <1>5 DEF AppendLeaving

-----------------------------------------------------------------------------
\* Where the log starts and ends.
LEMMA Bounds ==
  ASSUME LogInv
  PROVE  /\ OldestOffset \in Nat /\ current.start \in Nat /\ End \in Nat
         /\ OldestOffset <= current.start /\ current.start <= End
         /\ End = Len(accepted) /\ End = current.start + Len(current.entries)
         /\ Len(current.entries) \in Nat
<1>1. /\ TypeOK /\ LifeInv
  BY DEF LogInv, LifeInv
<1>2. /\ current \in VirtualSegment /\ segments \in Seq(Segment)
      /\ Chain(segments, current.start) /\ current.next = Len(current.entries) /\ End = Len(accepted)
  BY <1>1 DEF LifeInv, TypeOK, OffsetsConsecutive
<1>3. current.start \in Nat /\ current.next \in Nat
  BY <1>2, SegmentsAssumption DEF VirtualSegment, Offset
<1>4. OldestOffset \in Nat /\ OldestOffset <= current.start
  <2>1. CASE segments = <<>>
    BY <1>3, <2>1 DEF OldestOffset
  <2>2. CASE segments # <<>>
    <3>1. 1 \in DOMAIN segments /\ segments[1] \in Segment
      BY <1>2, <2>2, EmptySeq
    <3>2. segments[1].start \in Nat /\ segments[1].start < current.start
      BY <1>2, <1>3, <3>1, SegmentNats, ChainStarts
    <3>3. QED BY <1>3, <2>2, <3>2 DEF OldestOffset
  <2>3. QED BY <2>1, <2>2
<1>5. QED BY <1>2, <1>3, <1>4 DEF End

\* So every retained offset reads back the message accepted under it.
LEMMA ReadsIntact ==
  ASSUME MaxAppends < OffsetSpan, LogIntact, NEW o \in Nat, OldestOffset <= o, o < End
  PROVE  ReadOutcome(o) = Found(accepted[o + 1].data)
<1>1. LogInv /\ LifeInv /\ current.start \in Nat
  BY Bounds DEF LogIntact, LogInv
<1>2. CASE current.start <= o
  <2> DEFINE a == current.start
             k == (o - a) + 1
  <2>1. k \in DOMAIN current.entries /\ ReadOutcome(o) = Extract(current.contents, current.entries[k])
    BY <1>1, <1>2, ReadsCurrent
  <2>2. Extract(current.contents, current.entries[k]) = Found(accepted[current.start + k].data)
    BY <2>1 DEF LogIntact, Readable
  <2>3. current.start + k = o + 1
    BY <1>1
  <2>4. QED BY <2>1, <2>2, <2>3
<1>3. CASE ~(current.start <= o)
  <2>1. o < current.start
    BY <1>1, <1>3
  <2>2. PICK i \in DOMAIN segments :
           LET s == segments[i]
           IN /\ s.start <= o /\ o < s.next
              /\ (o - s.start) + 1 \in DOMAIN s.entries
              /\ ReadOutcome(o) = Extract(disk[s.start].log, s.entries[(o - s.start) + 1])
    BY <1>1, <2>1, ReadsFlushed
  <2> DEFINE a == segments[i].start
             k == (o - a) + 1
  <2>3. segments[i] \in Segment
    BY <1>1 DEF LifeInv, TypeOK
  <2>4. a \in Nat
    BY <2>3, SegmentNats
  <2>5. Extract(disk[segments[i].start].log, segments[i].entries[k]) = Found(accepted[a + k].data)
    BY <2>2 DEF LogIntact, Readable
  <2>6. a + k = o + 1
    BY <2>4
  <2>7. QED BY <2>2, <2>5, <2>6
<1>4. QED BY <1>2, <1>3

\* What a read answers at the end of the log.
LEMMA ReadAtEnd ==
  ASSUME MaxAppends < OffsetSpan, LogInv
  PROVE  ReadOutcome(End) = IF current.start = 0 THEN OutOfBounds ELSE Failed
<1> DEFINE a == current.start
           l == Len(current.entries)
<1>1. /\ a \in Nat /\ l \in Nat /\ End = a + l /\ a <= End /\ Len(accepted) = End
  BY Bounds
<1>2. Len(accepted) <= MaxAppends /\ current.next = l
  BY DEF LogInv, LifeInv
<1> HIDE DEF a, l
<1>3. End - a = l /\ l + a \in Offset
  BY <1>1, <1>2, SegmentsAssumption, CommitlogAssumption DEF Offset
<1>4. U16(current.next + current.start) = l + a
  BY <1>2, <1>3, WrapsNot DEF a
<1>5. ReadOutcome(End) = VirtualReadAt(current, l)
  BY <1>1, <1>3 DEF ReadOutcome, a
<1>6. BeyondVirtual(current, l) <=> a = 0
  <2>1. l >= l /\ (l >= l + a <=> a = 0)
    BY <1>1
  <2>2. QED BY <1>2, <1>4, <2>1 DEF BeyondVirtual, a
<1>7. l >= Len(current.entries)
  BY <1>1 DEF l
<1>8. QED BY <1>5, <1>6, <1>7 DEF VirtualReadAt, a

\* A poll reads to the end of the log.
LEMMA StopsAtEnd ==
  ASSUME MaxAppends < OffsetSpan, LogIntact, NEW n \in Nat, OldestOffset <= n, n <= End
  PROVE  StopFrom(n) = End
<1> DEFINE horizon == current.start + Len(current.entries)
           S == {k \in n .. (IF n > horizon THEN n ELSE horizon) : ReadOutcome(k).kind # "Found"}
<1>1. End \in Nat /\ horizon = End /\ OldestOffset \in Nat
  BY Bounds DEF LogIntact
<1>2. StopFrom(n) = Min(S)
  BY DEF StopFrom
<1>3. (IF n > horizon THEN n ELSE horizon) = End
  BY <1>1
<1>4. S = {k \in n .. End : ReadOutcome(k).kind # "Found"}
  BY <1>3
<1> HIDE DEF S, horizon
<1>5. ReadOutcome(End).kind # "Found"
  BY ReadAtEnd DEF LogIntact, OutOfBounds, Failed
<1>6. ASSUME NEW k \in n .. End, k # End
      PROVE  ReadOutcome(k).kind = "Found"
  <2>1. k \in Nat /\ OldestOffset <= k /\ k < End
    BY <1>1, <1>6
  <2>2. QED BY <2>1, ReadsIntact DEF Found
<1>7. S = {End}
  <2>1. End \in n .. End
    BY <1>1
  <2>2. QED BY <1>4, <1>5, <1>6, <2>1
<1>8. \A x \in S : x = End /\ \A y \in S : x <= y
  BY <1>1, <1>7
<1>9. Min(S) = End
  BY <1>7, <1>8 DEF Min
<1>10. QED BY <1>2, <1>9

\* Where it leaves the cursor at the end of the contents.
LEMMA ScanReturns ==
  ASSUME LogIntact, NEW n \in Nat
  PROVE  CursorsAfterScan(n, End) = {current.cursor}
<1> DEFINE a == current.start
           l == Len(current.entries)
           last == End - 1 - a
           end == current.entries[last + 1].start + current.entries[last + 1].total
           moved == IF last >= 0 /\ n < End THEN [current EXCEPT !.cursor = end] ELSE current
<1>1. /\ a \in Nat /\ l \in Nat /\ End = a + l /\ ~(End < a) /\ LogInv
  BY Bounds DEF LogIntact
<1>2. current \in VirtualSegment /\ current.entries \in Seq(Entry)
  BY <1>1 DEF LogInv, LifeInv, TypeOK, VirtualSegment
<1>3. last + 1 = l /\ (last >= 0 => l # 0) /\ End - a = l
  <2> HIDE DEF a, l
  <2>1. QED BY <1>1
<1>4. last >= 0 => end = current.cursor
  <2>1. last >= 0 => current.entries # <<>>
    BY <1>3
  <2>2. QED BY <1>1, <1>3, <2>1 DEF LogIntact, LogInv, EntriesEnd
<1>5. [current EXCEPT !.cursor = current.cursor] = current
  BY <1>2 DEF VirtualSegment
<1>6. moved = current
  BY <1>4, <1>5
<1>7. CursorsAfterScan(n, End) = CursorsAfter(moved, End - a)
  BY <1>1 DEF CursorsAfterScan
<1>8. CursorsAfter(current, l) = {current.cursor}
  <2>1. l >= Len(current.entries)
    BY <1>1
  <2>2. QED BY <2>1 DEF CursorsAfter
<1> HIDE DEF moved, last, end, a, l
<1>9. QED BY <1>3, <1>6, <1>7, <1>8

-----------------------------------------------------------------------------
\* The invariant: no group is beyond the end of an intact log, and what the groups
\* passed is accounted for.
TopicInv ==
  /\ LogIntact
  /\ TopicTypeOK
  /\ \A g \in Group : offset[g] <= End
  /\ PassedAccountedFor

\* Where a poll starts.
LEMMA InitializedIs ==
  ASSUME TopicInv, NEW g \in Group
  PROVE  LET n == Initialized(g)
         IN /\ n \in Nat /\ OldestOffset <= n /\ n <= End /\ offset[g] <= n
            /\ offset[g] \in Nat /\ (offset[g] < n => n = OldestOffset)
<1>1. LogInv /\ offset[g] \in Nat /\ offset[g] <= End
  BY DEF TopicInv, LogIntact, TopicTypeOK
<1>2. OldestOffset \in Nat /\ End \in Nat /\ OldestOffset <= End
  <2>1. /\ OldestOffset \in Nat /\ current.start \in Nat /\ End \in Nat
        /\ OldestOffset <= current.start /\ current.start <= End
    BY <1>1, Bounds
  <2>2. QED BY <2>1
<1>3. QED BY <1>1, <1>2 DEF Initialized

\* The records of a poll, numbered from where it started.
LEMMA RecordsAre ==
  ASSUME MaxAppends < OffsetSpan, LogIntact, NEW n \in Nat, NEW k \in Nat,
         OldestOffset <= n, n <= k, k <= End
  PROVE  /\ Records(n, k) \in Seq(Record) /\ Len(Records(n, k)) = k - n
         /\ \A i \in 1 .. k - n :
              Records(n, k)[i] = [offset |-> (n + i) - 1, data |-> accepted[n + i].data]
<1>1. LogInv /\ OldestOffset \in Nat /\ End \in Nat /\ End = Len(accepted)
  BY Bounds DEF LogIntact
<1>2. accepted \in Seq([offset : Offset, data : Messages])
  BY <1>1 DEF LogInv, LifeInv, TypeOK
<1> DEFINE d == k - n
           e(i) == [offset |-> n + i - 1, data |-> ReadOutcome(n + i - 1).data]
           h(i) == [offset |-> (n + i) - 1, data |-> accepted[n + i].data]
<1>3. d \in Nat /\ \A i \in 1 .. d : /\ (n + i) - 1 \in Nat /\ OldestOffset <= (n + i) - 1
                                     /\ (n + i) - 1 < End /\ ((n + i) - 1) + 1 = n + i
                                     /\ n + i \in 1 .. Len(accepted)
                                     /\ n + i - 1 = (n + i) - 1
  BY <1>1
<1>4. Records(n, k) = [i \in 1 .. d |-> e(i)]
  BY DEF Records
<1> HIDE DEF d
<1>5. ASSUME NEW i \in 1 .. d
      PROVE  e(i) = h(i) /\ h(i) \in Record
  <2>1. ReadOutcome((n + i) - 1) = Found(accepted[n + i].data)
    BY <1>3, ReadsIntact
  <2>2. e(i) = h(i)
    BY <1>3, <2>1 DEF Found
  <2>3. accepted[n + i] \in [offset : Offset, data : Messages]
    <3>1. n + i \in 1 .. Len(accepted)
      BY <1>3
    <3>2. QED BY <1>2, <3>1, ElementOfSeq
  <2>4. accepted[n + i].data \in Seq(Byte)
    BY <2>3, SegmentsAssumption
  <2>5. QED BY <1>3, <2>2, <2>4 DEF Record
<1> HIDE DEF e, h
<1>6. Records(n, k) = [i \in 1 .. d |-> h(i)]
  BY <1>4, <1>5
<1>7. [i \in 1 .. d |-> h(i)] \in Seq(Record)
  BY <1>3, <1>5, IsASeq
<1>8. Len(Records(n, k)) = d
  BY <1>3, <1>6
<1>9. QED BY <1>6, <1>7, <1>8 DEF d, h

\* A poll leaves the log as it is, and takes its group to the end or, without time
\* to read, to where it starts.  It fails when the log was split before.
LEMMA ConsumeIs ==
  ASSUME MaxAppends < OffsetSpan, TopicInv, NEW g \in Group, NEW waits \in BOOLEAN,
         Consume(g, waits)
  PROVE  LET n == Initialized(g)
             k == IF waits THEN End ELSE n
             failed == waits /\ current.start # 0
         IN /\ UNCHANGED logVars
            /\ offset' = [offset EXCEPT ![g] = k]
            /\ saved' = SavedAfter(g, n, k, failed)
            /\ delivered' = IF failed THEN delivered
                            ELSE [delivered EXCEPT ![g] = @ \o Records(n, k)]
            /\ dropped' = IF failed THEN [dropped EXCEPT ![g] = @ \cup (n .. k - 1)]
                          ELSE dropped
<1> DEFINE n == Initialized(g)
           k == IF waits THEN End ELSE n
           failed == waits /\ current.start # 0
<1>1. n \in Nat /\ OldestOffset <= n /\ n <= End
  BY InitializedIs
<1>2. LogIntact /\ LogInv /\ current \in VirtualSegment
  BY DEF TopicInv, LogIntact, LogInv, LifeInv, TypeOK
<1> HIDE DEF n
<1>3. StopFrom(n) = End
  BY <1>1, <1>2, StopsAtEnd
<1>4. PICK j \in IF waits THEN {StopFrom(n)} ELSE {n} :
          LET fails == waits /\ ReadOutcome(j).kind = "Failed"
          IN /\ offset' = [offset EXCEPT ![g] = j]
             /\ saved' = SavedAfter(g, n, j, fails)
             /\ delivered' = IF fails THEN delivered
                             ELSE [delivered EXCEPT ![g] = @ \o Records(n, j)]
             /\ dropped' = IF fails THEN [dropped EXCEPT ![g] = @ \cup (n .. j - 1)]
                           ELSE dropped
             /\ \E c \in IF waits THEN CursorsAfterScan(n, j) ELSE {current.cursor} :
                  current' = [current EXCEPT !.cursor = c]
  BY DEF Consume, n
<1>5. j = k
  BY <1>3, <1>4
<1>6. (waits /\ ReadOutcome(k).kind = "Failed") <=> failed
  <2>1. waits => k = End
    OBVIOUS
  <2>2. ReadOutcome(End).kind = "Failed" <=> current.start # 0
    BY <1>2, ReadAtEnd DEF OutOfBounds, Failed
  <2>3. QED BY <2>1, <2>2
<1>7. current' = [current EXCEPT !.cursor = current.cursor]
  <2>1. CursorsAfterScan(n, End) = {current.cursor}
    BY <1>1, <1>2, ScanReturns
  <2>2. QED BY <1>4, <1>5, <2>1
<1>8. current' = current
  BY <1>2, <1>7 DEF VirtualSegment
<1>9. UNCHANGED <<up, segments, disk, accepted, crashes>>
  BY DEF Consume
<1> HIDE DEF k, failed
<1>10. /\ offset' = [offset EXCEPT ![g] = k]
       /\ saved' = SavedAfter(g, n, k, failed)
       /\ delivered' = IF failed THEN delivered
                       ELSE [delivered EXCEPT ![g] = @ \o Records(n, k)]
       /\ dropped' = IF failed THEN [dropped EXCEPT ![g] = @ \cup (n .. k - 1)]
                     ELSE dropped
  <2> DEFINE fails == waits /\ ReadOutcome(j).kind = "Failed"
  <2>1. fails <=> failed
    BY <1>5, <1>6
  <2>2. /\ offset' = [offset EXCEPT ![g] = j]
        /\ saved' = SavedAfter(g, n, j, fails)
        /\ delivered' = IF fails THEN delivered
                        ELSE [delivered EXCEPT ![g] = @ \o Records(n, j)]
        /\ dropped' = IF fails THEN [dropped EXCEPT ![g] = @ \cup (n .. j - 1)]
                      ELSE dropped
    BY <1>4
  <2>3. SavedAfter(g, n, j, fails) = SavedAfter(g, n, k, failed)
    BY <1>5, <2>1 DEF SavedAfter
  <2> HIDE DEF fails
  <2>4. QED BY <1>5, <2>1, <2>2, <2>3
<1>11. QED BY <1>8, <1>9, <1>10 DEF logVars, n, k, failed

\* The oldest offset only grows, and no further than what was in memory.
LEMMA OldestGrows ==
  ASSUME MaxAppends < OffsetSpan, LogInv, NEW m \in Messages, AppendLeaving(m)
  PROVE  OldestOffset <= OldestOffset' /\ OldestOffset' <= End /\ End' = End + 1
<1>1. /\ OldestOffset \in Nat /\ current.start \in Nat /\ End \in Nat
      /\ OldestOffset <= current.start /\ current.start <= End /\ End = Len(accepted)
  BY Bounds
<1>2. /\ LifeInv /\ segments \in Seq(Segment) /\ Chain(segments, current.start)
      /\ segments = <<>> => current.start = 0
      /\ accepted \in Seq([offset : Offset, data : Messages])
  BY DEF LogInv, LifeInv, TypeOK
<1>3. ASSUME NEW segs \in Seq(Segment), NEW end \in Nat, Chain(segs, end), end <= End,
             NEW k \in 0 .. Len(segs), segs # <<>> => k < Len(segs),
             segments' = Newest(segs, k), segs # <<>> => segs[1].start = OldestOffset,
             segs = <<>> => OldestOffset = 0
      PROVE  OldestOffset <= OldestOffset' /\ OldestOffset' <= End
  <2>1. k \in 0 .. Len(segs) /\ (segs # <<>> => k < Len(segs))
        /\ segments' = SubSeq(segs, k + 1, Len(segs))
    BY <1>3 DEF Newest
  <2>2. Len(segments') = Len(segs) - k /\ segments' \in Seq(Segment)
        /\ \A i \in 1 .. Len(segs) - k : segments'[i] = segs[k + i]
    BY <2>1, Suffix
  <2>3. CASE segs = <<>>
    <3>1. Len(segments') = 0
      BY <2>1, <2>2, <2>3
    <3>2. segments' = <<>>
      BY <2>2, <3>1, EmptySeq
    <3>3. OldestOffset' = 0
      BY <3>2 DEF OldestOffset
    <3>4. QED BY <1>1, <1>3, <2>3, <3>3
  <2>4. CASE segs # <<>>
    <3>1. k < Len(segs) /\ Len(segs) \in Nat /\ k \in Nat /\ Len(segs) - k # 0
      BY <2>1, <2>4
    <3>2. 1 \in DOMAIN segs /\ k + 1 \in DOMAIN segs /\ 1 \in 1 .. Len(segs) - k
      BY <3>1
    <3>3. segments' # <<>>
      BY <2>2, <3>1
    <3>4. OldestOffset' = segs[k + 1].start
      BY <2>2, <3>2, <3>3 DEF OldestOffset
    <3>5. /\ segs[1].start \in Offset /\ segs[k + 1].start \in Offset
          /\ segs[k + 1].start < end /\ (1 < k + 1 => segs[1].start < segs[k + 1].start)
      BY <1>3, <3>2, ChainStarts
    <3>6. segs[1].start \in Nat /\ segs[k + 1].start \in Nat
      BY <3>5, SegmentsAssumption DEF Offset
    <3>7. segs[1].start <= segs[k + 1].start
      <4>1. CASE k = 0
        BY <3>6, <4>1
      <4>2. CASE k # 0
        <5>1. 1 < k + 1
          BY <3>1, <4>2
        <5>2. QED BY <3>5, <3>6, <5>1
      <4>3. QED BY <4>1, <4>2
    <3>8. QED BY <1>1, <1>3, <2>4, <3>4, <3>5, <3>6, <3>7
  <2>5. QED BY <2>3, <2>4
<1>4. ASSUME NEW c \in 0 .. Len(segments), PlaceLeaving(m, c), c = 0 \/ c < Len(segments)
      PROVE  OldestOffset <= OldestOffset' /\ OldestOffset' <= End
  <2>1. segments' = Newest(segments, c)
    BY <1>4 DEF PlaceLeaving, StoreLeaving
  <2>2. segments # <<>> => c < Len(segments)
    BY <1>2, <1>4, EmptySeq
  <2>3. QED BY <1>1, <1>2, <1>3, <2>1, <2>2 DEF OldestOffset
<1>5. ASSUME NEW c \in 0 .. Len(segments), SplitLeaving(m, c)
      PROVE  OldestOffset <= OldestOffset' /\ OldestOffset' <= End
  <2> DEFINE f == Flush(disk, current)
             s == LoadSegment(f, current.start)
             t == Append(segments, s)
             v == Successor(current)
  <2>1. /\ t \in Seq(Segment) /\ Chain(t, v.start) /\ s \in Segment /\ s.start = current.start
        /\ v.start = current.start + current.next /\ StoreLeaving(v, m, t, f, c)
        /\ Len(t) = Len(segments) + 1
    BY <1>2, <1>5, Splits DEF AppendLeaving
  <2> HIDE DEF f, s, v
  <2>2. /\ t[Len(segments) + 1] = s /\ \A i \in 1 .. Len(segments) : t[i] = segments[i]
        /\ t # <<>> /\ Len(segments) \in Nat /\ c \in 0 .. Len(t) /\ c < Len(t)
    BY <1>2, <2>1, AppendProperties
  <2>3. t[1].start = OldestOffset
    <3>1. CASE segments = <<>>
      <4>1. Len(segments) = 0
        BY <3>1
      <4>2. t[1] = s
        BY <2>2, <4>1
      <4>3. QED BY <1>2, <2>1, <3>1, <4>2 DEF OldestOffset
    <3>2. CASE segments # <<>>
      <4>1. 1 \in 1 .. Len(segments)
        BY <1>2, <2>2, <3>2, EmptySeq
      <4>2. QED BY <2>2, <3>2, <4>1 DEF OldestOffset
    <3>3. QED BY <3>1, <3>2
  <2> HIDE DEF t
  <2>4. v.start = End /\ v.start \in Nat /\ v.start <= End
    BY <1>1, <2>1 DEF End
  <2>5. segments' = Newest(t, c)
    BY <2>1 DEF StoreLeaving
  <2>6. QED BY <1>3, <2>1, <2>2, <2>3, <2>4, <2>5
<1>6. End' = End + 1
  <2>1. LogInv'
    BY LeavingDescribes
  <2>2. End' = Len(accepted')
    BY <2>1 DEF LogInv, LifeInv, OffsetsConsecutive
  <2>3. Len(accepted') = Len(accepted) + 1
    <3>1. \E r : accepted' = Append(accepted, r)
      BY DEF AppendLeaving, PlaceLeaving, SplitLeaving, StoreLeaving
    <3>2. QED BY <1>2, <3>1
  <2>4. QED BY <1>1, <2>2, <2>3
<1>7. QED BY <1>4, <1>5, <1>6 DEF AppendLeaving

-----------------------------------------------------------------------------
\* A topic without messages.
LEMMA TopicStarts == TopicInit => TopicInv
<1> SUFFICES ASSUME TopicInit PROVE TopicInv
  OBVIOUS
<1>1. /\ Init /\ offset = [g \in Group |-> 0] /\ saved = offset
      /\ delivered = [g \in Group |-> <<>>] /\ dropped = [g \in Group |-> {}]
  BY DEF TopicInit
<1>2. LogInv /\ current = NewVirtual(0) /\ segments = <<>>
  BY <1>1, LogStarts DEF Init
<1>3. LogIntact
  BY <1>2 DEF LogIntact, NewVirtual, Readable
<1>4. TopicTypeOK
  BY <1>1, <1>2 DEF TopicTypeOK, LogInv, LifeInv
<1>5. \A g \in Group : offset[g] <= End
  BY <1>1, <1>2, Bounds
<1>6. PassedAccountedFor
  BY <1>1 DEF PassedAccountedFor
<1>7. QED BY <1>3, <1>4, <1>5, <1>6 DEF TopicInv

\* A message appended keeps the invariant.
LEMMA LeavingKeepsTopic ==
  ASSUME MaxAppends < OffsetSpan, TopicInv, NEW m \in Messages, AppendLeaving(m),
         UNCHANGED groupVars
  PROVE  TopicInv'
<1>1. LogIntact /\ LogInv
  BY DEF TopicInv, LogIntact
<1>2. LogIntact'
  BY <1>1, LeavingIntact
<1>3. TopicTypeOK'
  BY <1>1, <1>2 DEF TopicInv, TopicTypeOK, groupVars, LogIntact, LogInv, LifeInv
<1>4. /\ OldestOffset <= OldestOffset' /\ End' = End + 1 /\ OldestOffset' \in Nat
      /\ OldestOffset \in Nat /\ End \in Nat
  <2>1. OldestOffset <= OldestOffset' /\ End' = End + 1
    BY <1>1, OldestGrows
  <2>2. OldestOffset \in Nat /\ End \in Nat
    BY <1>1, Bounds
  <2>3. OldestOffset' \in Nat
    <3>1. segments' \in Seq(Segment)
      BY <1>2 DEF LogIntact, LogInv, LifeInv, TypeOK
    <3>2. segments' # <<>> => segments'[1] \in Segment
      BY <3>1, EmptySeq
    <3>3. QED BY <3>2, SegmentNats DEF OldestOffset
  <2>4. QED BY <2>1, <2>2, <2>3
<1>5. ASSUME NEW g \in Group
      PROVE  offset'[g] <= End'
  <2>1. offset' = offset /\ offset[g] \in Nat /\ offset[g] <= End
    BY <1>1 DEF groupVars, TopicInv, TopicTypeOK
  <2>2. QED BY <1>4, <2>1
<1>6. PassedAccountedFor'
  <2> SUFFICES ASSUME NEW g \in Group, NEW o \in 0 .. offset'[g] - 1
               PROVE  \/ \E i \in DOMAIN delivered'[g] : delivered'[g][i].offset = o
                      \/ o \in dropped'[g]
                      \/ o < OldestOffset'
    BY DEF PassedAccountedFor
  <2>1. offset' = offset /\ delivered' = delivered /\ dropped' = dropped /\ offset[g] \in Nat
    BY <1>1 DEF groupVars, TopicInv, TopicTypeOK
  <2>2. \/ \E i \in DOMAIN delivered[g] : delivered[g][i].offset = o
        \/ o \in dropped[g]
        \/ o < OldestOffset
    BY <2>1 DEF TopicInv, PassedAccountedFor
  <2>3. o < OldestOffset => o < OldestOffset'
    BY <1>4, <2>1
  <2>4. QED BY <2>1, <2>2, <2>3
<1>7. QED BY <1>2, <1>3, <1>5, <1>6 DEF TopicInv

\* A message produced is one.
LEMMA ProduceKeeps ==
  ASSUME MaxAppends < OffsetSpan, TopicInv, NEW m \in Messages, Produce(m)
  PROVE  TopicInv' /\ AppendLeaving(m)
<1>1. AppendLeaving(m)
  BY AppendLeaves DEF Produce, TopicInv, LogIntact, LogInv
<1>2. QED BY <1>1, LeavingKeepsTopic DEF Produce

\* A poll does: what it moves its group past it delivers, drops, or finds removed.
LEMMA ConsumeKeeps ==
  ASSUME MaxAppends < OffsetSpan, TopicInv, NEW g \in Group, NEW waits \in BOOLEAN,
         Consume(g, waits)
  PROVE  TopicInv'
<1> DEFINE n == Initialized(g)
           k == IF waits THEN End ELSE n
           failed == waits /\ current.start # 0
           rs == Records(n, k)
<1>1. /\ UNCHANGED logVars
      /\ offset' = [offset EXCEPT ![g] = k]
      /\ saved' = SavedAfter(g, n, k, failed)
      /\ delivered' = IF failed THEN delivered ELSE [delivered EXCEPT ![g] = @ \o rs]
      /\ dropped' = IF failed THEN [dropped EXCEPT ![g] = @ \cup (n .. k - 1)] ELSE dropped
  BY ConsumeIs
<1>2. /\ n \in Nat /\ OldestOffset <= n /\ n <= End /\ offset[g] <= n
      /\ offset[g] \in Nat /\ (offset[g] < n => n = OldestOffset)
  BY InitializedIs
<1>3. End \in Nat /\ OldestOffset \in Nat /\ LogIntact
  BY Bounds DEF TopicInv, LogIntact
<1> HIDE DEF n
<1>4. k \in Nat /\ n <= k /\ k <= End
  BY <1>2, <1>3
<1>5. /\ offset \in [Group -> Nat] /\ saved \in [Group -> Nat]
      /\ delivered \in [Group -> Seq(Record)] /\ dropped \in [Group -> SUBSET Nat]
  BY DEF TopicInv, TopicTypeOK
<1>6. rs \in Seq(Record) /\ Len(rs) = k - n /\ \A i \in 1 .. k - n : rs[i].offset = (n + i) - 1
  <2> HIDE DEF k
  <2>1. /\ Records(n, k) \in Seq(Record) /\ Len(Records(n, k)) = k - n
        /\ \A i \in 1 .. k - n :
             Records(n, k)[i] = [offset |-> (n + i) - 1, data |-> accepted[n + i].data]
    BY <1>2, <1>3, <1>4, RecordsAre
  <2>2. QED BY <2>1
<1> HIDE DEF k, failed, rs
<1>7. OldestOffset' = OldestOffset /\ End' = End /\ LogIntact' /\ TypeOK'
  <2>1. UNCHANGED <<up, segments, current, disk, accepted, crashes>>
    BY <1>1 DEF logVars
  <2>2. OldestOffset' = OldestOffset /\ End' = End
    BY <2>1 DEF OldestOffset, End
  <2>3. [Operate]_vars
    BY <2>1 DEF vars
  <2>4. LogInv'
    BY <1>3, <2>3, LogStep DEF LogIntact
  <2>5. LogIntact'
    BY <1>3, <2>1, <2>4 DEF LogIntact
  <2>6. QED BY <2>2, <2>4, <2>5 DEF LogInv, LifeInv
<1>8. delivered' \in [Group -> Seq(Record)]
  <2>1. delivered[g] \o rs \in Seq(Record)
    BY <1>5, <1>6, ConcatProperties
  <2>2. QED BY <1>1, <1>5, <2>1
<1>9. dropped' \in [Group -> SUBSET Nat]
  <2>1. n .. k - 1 \in SUBSET Nat
    BY <1>2, <1>4
  <2>2. dropped[g] \cup (n .. k - 1) \in SUBSET Nat
    BY <1>5, <2>1
  <2>3. QED BY <1>1, <1>5, <2>2
<1>10. saved' \in [Group -> Nat]
  BY <1>1, <1>2, <1>4, <1>5 DEF SavedAfter
<1>11. offset' \in [Group -> Nat]
  BY <1>1, <1>4, <1>5
<1>12. TopicTypeOK'
  BY <1>7, <1>8, <1>9, <1>10, <1>11 DEF TopicTypeOK
<1>13. \A h \in Group : offset'[h] <= End'
  BY <1>1, <1>4, <1>5, <1>7 DEF TopicInv
<1>14. PassedAccountedFor'
  <2> SUFFICES ASSUME NEW h \in Group, NEW o \in 0 .. offset'[h] - 1
               PROVE  \/ \E i \in DOMAIN delivered'[h] : delivered'[h][i].offset = o
                      \/ o \in dropped'[h]
                      \/ o < OldestOffset'
    BY DEF PassedAccountedFor
  <2>1. o \in Nat /\ o < offset'[h]
    BY <1>11
  <2>2. CASE o < offset[h]
    <3>1. o \in 0 .. offset[h] - 1
      BY <1>5, <2>1, <2>2
    <3>2. \/ \E i \in DOMAIN delivered[h] : delivered[h][i].offset = o
          \/ o \in dropped[h]
          \/ o < OldestOffset
      BY <3>1 DEF TopicInv, PassedAccountedFor
    <3>3. ASSUME NEW i \in DOMAIN delivered[h], delivered[h][i].offset = o
          PROVE  \E j \in DOMAIN delivered'[h] : delivered'[h][j].offset = o
      <4>1. CASE delivered'[h] = delivered[h]
        BY <3>3, <4>1
      <4>2. CASE delivered'[h] = delivered[h] \o rs
        <5> DEFINE d == delivered[h]
        <5>1. d \in Seq(Record) /\ i \in 1 .. Len(d)
          BY <1>5
        <5> HIDE DEF d
        <5>2. i \in 1 .. Len(d \o rs) /\ (d \o rs)[i] = d[i] /\ DOMAIN (d \o rs) = 1 .. Len(d \o rs)
          BY <1>6, <5>1
        <5>3. QED BY <3>3, <4>2, <5>2 DEF d
      <4>3. delivered'[h] = delivered[h] \/ delivered'[h] = delivered[h] \o rs
        BY <1>1, <1>5
      <4>4. QED BY <4>1, <4>2, <4>3
    <3>4. dropped[h] \subseteq dropped'[h]
      BY <1>1, <1>5
    <3>5. QED BY <1>7, <3>2, <3>3, <3>4
  <2>3. CASE ~(o < offset[h])
    <3>1. h = g /\ o < k
      <4>1. h # g => offset'[h] = offset[h]
        BY <1>1, <1>5
      <4>2. h = g => offset'[h] = k
        BY <1>1, <1>5
      <4>3. QED BY <2>1, <2>3, <4>1, <4>2
    <3>2. CASE o < n
      <4>1. offset[g] < n
        BY <1>2, <2>1, <2>3, <3>1, <3>2
      <4>2. QED BY <1>2, <1>7, <3>2, <4>1
    <3>3. CASE ~(o < n)
      <4>1. o \in n .. k - 1
        BY <1>2, <1>4, <2>1, <3>1, <3>3
      <4>2. CASE failed
        BY <1>1, <1>5, <3>1, <4>1, <4>2
      <4>3. CASE ~failed
        <5> DEFINE d == delivered[g]
                   i == (o - n) + 1
                   j == Len(d) + i
        <5>1. d \in Seq(Record)
          BY <1>5
        <5>2. delivered'[g] = d \o rs
          BY <1>1, <1>5, <4>3
        <5> HIDE DEF d
        <5>3. i \in 1 .. k - n /\ (n + i) - 1 = o /\ i \in 1 .. Len(rs)
          BY <1>2, <1>4, <1>6, <2>1, <4>1
        <5> HIDE DEF i
        <5>4. j \in 1 .. Len(d \o rs) /\ (d \o rs)[j] = rs[i] /\ DOMAIN (d \o rs) = 1 .. Len(d \o rs)
          BY <1>6, <5>1, <5>3
        <5>5. rs[i].offset = o
          BY <1>6, <5>3
        <5> HIDE DEF j
        <5>6. QED BY <3>1, <5>2, <5>4, <5>5
      <4>4. QED BY <4>2, <4>3
    <3>4. QED BY <3>2, <3>3
  <2>4. QED BY <2>2, <2>3
<1>15. QED BY <1>7, <1>12, <1>13, <1>14 DEF TopicInv

\* No request disturbs the invariant.
LEMMA TopicStep ==
  ASSUME MaxAppends < OffsetSpan, TopicInv, [Serve]_topicVars
  PROVE  TopicInv'
<1>1. CASE \E m \in Messages : Produce(m)
  BY <1>1, ProduceKeeps
<1>2. CASE \E g \in Group, waits \in BOOLEAN : Consume(g, waits)
  BY <1>2, ConsumeKeeps
<1>3. CASE UNCHANGED topicVars
  <2>1. UNCHANGED <<up, segments, current, disk, accepted, crashes>>
    BY <1>3 DEF topicVars, logVars
  <2>2. UNCHANGED <<offset, saved, delivered, dropped>>
    BY <1>3 DEF topicVars, groupVars
  <2>3. LogInv'
    BY <2>1, LogStep DEF TopicInv, LogIntact, vars
  <2>4. LogIntact' /\ TopicTypeOK'
    BY <2>1, <2>2, <2>3 DEF TopicInv, LogIntact, TopicTypeOK, LogInv, LifeInv
  <2>5. (\A g \in Group : offset[g] <= End)' /\ PassedAccountedFor'
    BY <2>1, <2>2 DEF TopicInv, End, OldestOffset, PassedAccountedFor
  <2>6. QED BY <2>4, <2>5 DEF TopicInv
<1>4. QED BY <1>1, <1>2, <1>3 DEF Serve

\* The invariant holds all through a life.
LEMMA TopicInvariant ==
  ASSUME MaxAppends < OffsetSpan PROVE TopicLifeSpec => []TopicInv
<1>1. TopicInit => TopicInv
  BY TopicStarts
<1>2. TopicInv /\ [Serve]_topicVars => TopicInv'
  BY TopicStep
<1>3. QED BY <1>1, <1>2, PTL DEF TopicLifeSpec

-----------------------------------------------------------------------------
\* The values of the variables of a topic, groups and histories included.
THEOREM TopicTypes ==
  ASSUME MaxAppends < OffsetSpan PROVE TopicLifeSpec => []TopicTypeOK
<1>1. TopicInv => TopicTypeOK
  BY DEF TopicInv
<1>2. QED BY <1>1, TopicInvariant, PTL

\* Whatever is produced and polled, in any order and by any groups, every retained
\* message reads back as it was appended: polls share the cursor of the segment in
\* memory with writes, and never leave it where a write would damage anything.
THEOREM TopicIntact ==
  ASSUME MaxAppends < OffsetSpan PROVE TopicLifeSpec => []Intact
<1>1. ASSUME TopicInv
      PROVE  Intact
  <2> SUFFICES ASSUME NEW o \in OldestOffset .. End - 1
               PROVE  ReadOutcome(o) = Found(accepted[o + 1].data)
    BY DEF Intact
  <2>1. LogIntact /\ OldestOffset \in Nat /\ End \in Nat
    BY <1>1, Bounds DEF TopicInv, LogIntact
  <2>2. o \in Nat /\ OldestOffset <= o /\ o < End
    BY <2>1
  <2>3. QED BY <2>1, <2>2, ReadsIntact
<1>2. QED BY <1>1, TopicInvariant, PTL

\* A group never passes a message but by receiving it, by a poll that failed, or
\* because retention removed it first.
THEOREM TopicAccounts ==
  ASSUME MaxAppends < OffsetSpan PROVE TopicLifeSpec => []PassedAccountedFor
<1>1. TopicInv => PassedAccountedFor
  BY DEF TopicInv
<1>2. QED BY <1>1, TopicInvariant, PTL

-----------------------------------------------------------------------------
(* One life of a topic is an EventLog.                                      *)

\* What is kept, as the messages that were accepted.
KeptAccepted ==
  LogIntact =>
    /\ Kept = [i \in 1 .. End - OldestOffset |-> accepted[OldestOffset + i].data]
    /\ Kept \in Seq(Messages) /\ Len(Kept) = End - OldestOffset
    /\ OldestOffset \in Nat /\ End \in Nat /\ OldestOffset <= End

\* Reads return what was accepted, in order.
LEMMA KeptIs == ASSUME MaxAppends < OffsetSpan PROVE KeptAccepted
<1> SUFFICES ASSUME LogIntact
    PROVE /\ Kept = [i \in 1 .. End - OldestOffset |-> accepted[OldestOffset + i].data]
          /\ Kept \in Seq(Messages) /\ Len(Kept) = End - OldestOffset
          /\ OldestOffset \in Nat /\ End \in Nat /\ OldestOffset <= End
  BY DEF KeptAccepted
<1> DEFINE f == OldestOffset
           d == End - f
           e(i) == ReadOutcome(f + i - 1).data
           h(i) == accepted[f + i].data
<1>1. f \in Nat /\ End \in Nat /\ f <= End /\ End = Len(accepted) /\ LogInv
  <2>1. /\ OldestOffset \in Nat /\ current.start \in Nat /\ End \in Nat
        /\ OldestOffset <= current.start /\ current.start <= End /\ End = Len(accepted)
    BY Bounds DEF LogIntact
  <2>2. QED BY <2>1 DEF LogIntact
<1>2. accepted \in Seq([offset : Offset, data : Messages])
  BY <1>1 DEF LogInv, LifeInv, TypeOK
<1>3. d \in Nat /\ \A i \in 1 .. d : /\ f + i - 1 \in Nat /\ f <= f + i - 1
                                     /\ f + i - 1 < End /\ (f + i - 1) + 1 = f + i
                                     /\ f + i \in 1 .. Len(accepted)
  BY <1>1
<1>4. Kept = [i \in 1 .. d |-> e(i)]
  BY DEF Kept
<1> HIDE DEF d
<1>5. ASSUME NEW i \in 1 .. d
      PROVE  e(i) = h(i) /\ h(i) \in Messages
  <2>1. ReadOutcome(f + i - 1) = Found(accepted[f + i].data)
    BY <1>3, ReadsIntact
  <2>2. f + i \in 1 .. Len(accepted)
    BY <1>3
  <2>3. accepted[f + i] \in [offset : Offset, data : Messages]
    BY <1>2, <2>2, ElementOfSeq
  <2>4. QED BY <2>1, <2>3 DEF Found
<1> HIDE DEF e, h
<1>6. Kept = [i \in 1 .. d |-> h(i)]
  BY <1>4, <1>5
<1>7. [i \in 1 .. d |-> h(i)] \in Seq(Messages)
  BY <1>3, <1>5, IsASeq
<1>8. Len(Kept) = d
  BY <1>3, <1>6
<1>9. QED BY <1>1, <1>6, <1>7, <1>8 DEF d, h

\* The same of the next state.
LEMMA KeptNext == ASSUME MaxAppends < OffsetSpan PROVE KeptAccepted'
<1>1. KeptAccepted
  BY KeptIs
<1>2. QED BY <1>1, PTL

\* The log starts empty.
LEMMA StartsAsEventLog == TopicInit => Promised!LogInit
<1> SUFFICES ASSUME TopicInit PROVE Promised!LogInit
  OBVIOUS
<1>1. OldestOffset = 0 /\ End = 0
  BY DEF TopicInit, Init, OldestOffset, End, NewVirtual
<1>2. Kept = <<>>
  BY <1>1 DEF Kept
<1>3. QED BY <1>1, <1>2 DEF TopicInit, Promised!LogInit

\* Producing a message publishes an event, and forgets only oldest ones.
LEMMA ProducePublishes ==
  ASSUME MaxAppends < OffsetSpan, TopicInv, TopicInv', NEW m \in Messages, Produce(m)
  PROVE  Promised!Publish(m)
<1> DEFINE f == OldestOffset
           n == f' - f
           t == SubSeq(Kept, n + 1, Len(Kept))
<1>1. /\ AppendMessage(m) /\ UNCHANGED groupVars /\ LogIntact /\ LogIntact' /\ LogInv
      /\ AppendLeaving(m)
  BY ProduceKeeps DEF Produce, TopicInv, LogIntact
<1>2. f <= f' /\ f' <= End /\ End' = End + 1
  BY <1>1, OldestGrows
<1>3. /\ Kept = [i \in 1 .. End - f |-> accepted[f + i].data]
      /\ Kept \in Seq(Messages) /\ Len(Kept) = End - f
      /\ f \in Nat /\ End \in Nat
  BY <1>1, KeptIs DEF KeptAccepted
<1>4. /\ Kept' = [i \in 1 .. End' - f' |-> accepted'[f' + i].data]
      /\ Kept' \in Seq(Messages) /\ Len(Kept') = End' - f' /\ f' \in Nat
  BY <1>1, KeptNext DEF KeptAccepted
<1>5. \E r : accepted' = Append(accepted, r) /\ r.data = m
  BY <1>1 DEF AppendMessage, AppendInPlace, AppendAfterSplit, Store
<1>6. /\ \A i \in 1 .. End : accepted'[i] = accepted[i]
      /\ accepted'[End + 1].data = m
  <2>1. End = Len(accepted) /\ accepted \in Seq([offset : Offset, data : Messages])
    BY <1>1, Bounds DEF LogInv, LifeInv, TypeOK
  <2>2. QED BY <1>5, <2>1
<1> HIDE DEF f
<1>7. n \in 0 .. Len(Kept) /\ f' = f + n
  <2> DEFINE a == f'
             b == f
             c == End
             l == Len(Kept)
  <2>1. a \in Nat /\ b \in Nat /\ c \in Nat /\ b <= a /\ a <= c /\ l = c - b
    BY <1>2, <1>3, <1>4
  <2> HIDE DEF a, b, c, l
  <2>2. a - b \in 0 .. l /\ a = b + (a - b)
    BY <2>1
  <2>3. QED BY <2>2 DEF a, b, l
<1>8. t \in Seq(Messages) /\ Len(t) = Len(Kept) - n /\ \A i \in 1 .. Len(Kept) - n : t[i] = Kept[n + i]
  BY <1>3, <1>7, Suffix
<1> HIDE DEF t, n
<1>9. /\ Append(t, m) \in Seq(Messages) /\ Len(Append(t, m)) = Len(t) + 1
      /\ \A i \in 1 .. Len(t) : Append(t, m)[i] = t[i]
      /\ Append(t, m)[Len(t) + 1] = m
  BY <1>8, AppendProperties
<1> DEFINE l == Len(t)
<1>10. l = (End - f) - n /\ l \in Nat /\ Len(Kept') = l + 1 /\ n \in Nat
  BY <1>2, <1>3, <1>4, <1>7, <1>8
<1> HIDE DEF l
<1>11. ASSUME NEW i \in 1 .. l + 1
       PROVE  Kept'[i] = Append(t, m)[i]
  <2>1. Kept'[i] = accepted'[f' + i].data
    BY <1>2, <1>4, <1>10
  <2>2. CASE i = l + 1
    <3>1. f' + i = End + 1
      BY <1>3, <1>7, <1>10, <2>2
    <3>2. QED BY <1>6, <1>9, <2>1, <2>2, <3>1 DEF l
  <2>3. CASE i # l + 1
    <3>1. /\ i \in 1 .. l /\ n + i \in 1 .. End - f /\ f + (n + i) = f' + i
          /\ f' + i \in 1 .. End /\ i \in 1 .. Len(Kept) - n
      BY <1>3, <1>7, <1>10, <2>3
    <3>2. Append(t, m)[i] = Kept[n + i]
      BY <1>8, <1>9, <3>1 DEF l
    <3>3. Kept[n + i] = accepted[f + (n + i)].data
      BY <1>3, <3>1
    <3>4. accepted'[f' + i] = accepted[f' + i]
      BY <1>6, <3>1
    <3>5. QED BY <2>1, <3>1, <3>2, <3>3, <3>4
  <2>4. QED BY <2>2, <2>3
<1>12. Kept' = Append(t, m)
  <2>1. Len(Kept') = Len(Append(t, m)) /\ \A i \in 1 .. Len(Kept') : Kept'[i] = Append(t, m)[i]
    BY <1>9, <1>10, <1>11 DEF l
  <2>2. QED BY <1>4, <1>9, <2>1, SeqEqual
<1>13. UNCHANGED <<offset, delivered>>
  BY <1>1 DEF groupVars
<1>14. \E forgotten \in 0 .. Len(Kept) :
         /\ f' = f + forgotten
         /\ Kept' = Append(SubSeq(Kept, forgotten + 1, Len(Kept)), m)
  BY <1>7, <1>12 DEF t
<1>15. QED BY <1>13, <1>14 DEF Promised!Publish, f

\* A consume request is a poll, one that fails, or one without time to read.
LEMMA ConsumePolls ==
  ASSUME MaxAppends < OffsetSpan, TopicInv, NEW g \in Group, NEW waits \in BOOLEAN,
         Consume(g, waits)
  PROVE  Promised!Poll(g) \/ Promised!PollFails(g) \/ Promised!PollInVain(g)
<1> DEFINE n == Initialized(g)
           k == IF waits THEN End ELSE n
           failed == waits /\ current.start # 0
<1>1. /\ UNCHANGED logVars
      /\ offset' = [offset EXCEPT ![g] = k]
      /\ delivered' = IF failed THEN delivered ELSE [delivered EXCEPT ![g] = @ \o Records(n, k)]
  BY ConsumeIs
<1>2. /\ n \in Nat /\ OldestOffset <= n /\ n <= End
  BY InitializedIs
<1>3. LogIntact /\ delivered \in [Group -> Seq(Record)]
  BY DEF TopicInv, TopicTypeOK
<1>4. /\ Kept = [i \in 1 .. End - OldestOffset |-> accepted[OldestOffset + i].data]
      /\ Len(Kept) = End - OldestOffset
      /\ OldestOffset \in Nat /\ End \in Nat
  BY <1>3, KeptIs DEF KeptAccepted
<1>5. UNCHANGED <<OldestOffset, Kept>>
  <2>1. UNCHANGED <<up, segments, current, disk, accepted, crashes>>
    BY <1>1 DEF logVars
  <2>2. UNCHANGED End /\ UNCHANGED OldestOffset
    BY <2>1 DEF End, OldestOffset
  <2>3. \A o : ReadOutcome(o)' = ReadOutcome(o)
    BY <2>1 DEF ReadOutcome, Located
  <2>4. Kept' = Kept
    BY <2>2, <2>3 DEF Kept
  <2>5. QED BY <2>2, <2>4
<1>6. Promised!NextNumber = End /\ Promised!Resume(g) = n
  <2>1. Promised!NextNumber = OldestOffset + Len(Kept)
    BY DEF Promised!NextNumber
  <2> DEFINE a == OldestOffset
             c == End
             l == Len(Kept)
  <2>2. a \in Nat /\ c \in Nat /\ l = c - a
    BY <1>4
  <2> HIDE DEF a, c, l
  <2>3. a + l = c
    BY <2>2
  <2> USE DEF a, c, l
  <2>4. Promised!Resume(g) = n
    BY DEF Promised!Resume, Initialized
  <2>5. QED BY <2>1, <2>3, <2>4
<1> HIDE DEF n
<1>7. CASE ~waits
  <2>1. k = n /\ ~failed
    BY <1>7
  <2>2. Len(Records(n, n)) = 0 /\ Records(n, n) \in Seq(Record)
    BY <1>2, <1>3, RecordsAre
  <2>3. Records(n, n) = <<>>
    BY <2>2, EmptySeq
  <2>4. delivered[g] \o Records(n, n) = delivered[g]
    BY <1>3, <2>3, ConcatEmptySeq
  <2>5. delivered' = delivered
    BY <1>1, <1>3, <2>1, <2>4
  <2>6. QED BY <1>1, <1>5, <1>6, <2>1, <2>5 DEF Promised!PollInVain
<1>8. CASE waits /\ failed
  <2>1. k = End /\ delivered' = delivered
    BY <1>1, <1>8
  <2>2. QED BY <1>1, <1>5, <1>6, <2>1 DEF Promised!PollFails
<1>9. CASE waits /\ ~failed
  <2>1. k = End /\ delivered' = [delivered EXCEPT ![g] = @ \o Records(n, End)]
    BY <1>1, <1>9
  <2> DEFINE d == End - n
             u == [i \in 1 .. d |-> [offset |-> n + i - 1, data |-> Kept[n - OldestOffset + i]]]
             e(i) == [offset |-> n + i - 1, data |-> ReadOutcome(n + i - 1).data]
  <2>2. Records(n, End) = [i \in 1 .. d |-> e(i)]
    BY DEF Records
  <2>3. ASSUME NEW i \in 1 .. d
        PROVE  Kept[n - OldestOffset + i] = ReadOutcome(n + i - 1).data
    <3> DEFINE f == OldestOffset
               j == n - f + i
    <3>1. j \in 1 .. End - f /\ f + j - 1 = n + i - 1
      BY <1>2, <1>4
    <3>2. Kept = [x \in 1 .. End - f |-> ReadOutcome(f + x - 1).data]
      BY DEF Kept
    <3> HIDE DEF j
    <3>3. Kept[j] = ReadOutcome(f + j - 1).data
      BY <3>1, <3>2
    <3>4. QED BY <3>1, <3>3 DEF j
  <2>4. u = [i \in 1 .. d |-> e(i)]
    BY <2>3
  <2> HIDE DEF e, d
  <2>5. Promised!Unread(g) = u
    BY <1>6 DEF Promised!Unread, d
  <2>6. Promised!Unread(g) = Records(n, End)
    BY <2>2, <2>4, <2>5
  <2>7. QED BY <1>1, <1>5, <1>6, <2>1, <2>6 DEF Promised!Poll
<1>10. QED BY <1>7, <1>8, <1>9

\* One life of a topic, seen through its reads, implements EventLog: events keep
\* their numbers and contents, only oldest ones go, and a poll hands out all that its
\* group has not passed.
THEOREM TopicIsEventLog ==
  ASSUME MaxAppends < OffsetSpan PROVE TopicLifeSpec => ImplementsEventLog
<1>1. TopicInit => Promised!LogInit
  BY StartsAsEventLog
<1>2. ASSUME TopicInv, TopicInv', [Serve]_topicVars
      PROVE  [Promised!LogNext]_Promised!logVars
  <2>1. CASE \E m \in Messages : Produce(m)
    BY <1>2, <2>1, ProducePublishes DEF Promised!LogNext
  <2>2. CASE \E g \in Group, waits \in BOOLEAN : Consume(g, waits)
    BY <1>2, <2>2, ConsumePolls DEF Promised!LogNext
  <2>3. CASE UNCHANGED topicVars
    <3>1. UNCHANGED <<up, segments, current, disk, accepted, crashes>>
      BY <2>3 DEF topicVars, logVars
    <3>2. UNCHANGED <<offset, delivered>>
      BY <2>3 DEF topicVars, groupVars
    <3>3. UNCHANGED End /\ UNCHANGED OldestOffset
      BY <3>1 DEF End, OldestOffset
    <3>4. \A o : ReadOutcome(o)' = ReadOutcome(o)
      BY <3>1 DEF ReadOutcome, Located
    <3>5. Kept' = Kept
      BY <3>3, <3>4 DEF Kept
    <3>6. QED BY <3>2, <3>3, <3>5 DEF Promised!logVars
  <2>4. QED BY <1>2, <2>1, <2>2, <2>3 DEF Serve
<1>3. TopicInv /\ TopicInv' /\ [Serve]_topicVars => [Promised!LogNext]_Promised!logVars
  BY <1>2
<1>4. TopicLifeSpec => Promised!LogSpec
  BY <1>1, <1>3, TopicInvariant, PTL DEF TopicLifeSpec, Promised!LogSpec
<1>5. QED BY <1>4 DEF ImplementsEventLog

=============================================================================
