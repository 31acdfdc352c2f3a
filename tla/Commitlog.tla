----------------------------- MODULE Commitlog ------------------------------
(***************************************************************************)
(* nolan's Commitlog: an append-only log kept as one segment in memory and *)
(* the flushed segments on disk.  One action per public operation          *)
(* (append, read, reload_segments), each the whole call; a crash loses     *)
(* everything but the directory, and Open is Commitlog::new on what a      *)
(* crash left there.                                                       *)
(***************************************************************************)
EXTENDS Segments

CONSTANTS
  MaxAppends,  \* bound on the appends of a behaviour
  MaxCrashes   \* bound on the crashes of a behaviour

ASSUME CommitlogAssumption == MaxAppends \in Nat /\ MaxCrashes \in Nat

VARIABLES
  up,        \* is there a process that holds the log
  segments,  \* Commitlog.segments: the flushed segments loaded in memory
  current,   \* Commitlog.current_segment
  disk,      \* the directory: the files of every starting offset
  accepted,  \* history: every message written, with the offset that append makes of it
  crashes    \* history: how often the process stopped

vars == <<up, segments, current, disk, accepted, crashes>>

TypeOK ==
  /\ up \in BOOLEAN
  /\ segments \in Seq(Segment)
  /\ current \in VirtualSegment
  /\ disk \in [Offset -> Files]
  /\ accepted \in Seq([offset : Offset, data : Messages])
  /\ crashes \in 0 .. MaxCrashes

Init ==
  /\ up = TRUE
  /\ segments = <<>>
  /\ current = NewVirtual(0)
  /\ disk = [o \in Offset |-> Missing]
  /\ accepted = <<>>
  /\ crashes = 0

-----------------------------------------------------------------------------
(* Reading.                                                                 *)

\* Mutant of Located: the first offset of a segment is looked up in the one before.
LocatedStrictly(o) == {i \in DOMAIN segments : \A j \in 1 .. i : segments[j].start < o}

\* The scan stops at the first segment that starts beyond the offset.
Located(o) == {i \in DOMAIN segments : \A j \in 1 .. i : segments[j].start <= o}

ReadOutcome(o) ==
  IF current.start <= o THEN VirtualReadAt(current, o - current.start)
  ELSE IF Located(o) = {} THEN OutOfBounds
  ELSE LET s == segments[Max(Located(o))]
       IN SegmentReadAt(disk, s, o - s.start)

OldestOffset == IF segments = <<>> THEN 0 ELSE segments[1].start

\* A read of the current segment moves the cursor that writes use.
Read(o) ==
  /\ up
  /\ \E c \in IF current.start <= o THEN CursorsAfter(current, o - current.start)
               ELSE {current.cursor} :
       current' = [current EXCEPT !.cursor = c]
  /\ UNCHANGED <<up, segments, disk, accepted, crashes>>

-----------------------------------------------------------------------------
(* Appending.                                                               *)

\* The pairs of files not loaded yet are pushed in the order of the directory.
Reloaded(files) ==
  LET loaded == {segments[i].start : i \in DOMAIN segments}
  IN {segments \o [i \in DOMAIN order |-> LoadSegment(files, order[i])] :
        order \in SetToSeqs(Pairs(files) \ loaded)}

Reload ==
  /\ up
  /\ segments' \in Reloaded(disk)
  /\ UNCHANGED <<up, current, disk, accepted, crashes>>

\* Mutant of Store: the offset returned counts from the start of the segment.
StoreReturnsRelative(v, m, segs, files) ==
  /\ current' = Write(v, m)
  /\ segments' = Retained(segs)
  /\ disk' = Cleaned(files, segs)
  /\ accepted' = Append(accepted, [offset |-> v.next, data |-> m])
  /\ UNCHANGED <<up, crashes>>

\* The write to segment v, and the cleaning that follows every write.
Store(v, m, segs, files) ==
  /\ current' = Write(v, m)
  /\ segments' = Retained(segs)
  /\ disk' = Cleaned(files, segs)
  /\ accepted' = Append(accepted, [offset |-> U16(v.start + v.next), data |-> m])
  /\ UNCHANGED <<up, crashes>>

\* Mutant of Successor: the start of the segment before is forgotten.
SuccessorOfNext(v) == NewVirtual(v.next)

Successor(v) == NewVirtual(U16(v.start + v.next))

AppendInPlace(m) ==
  /\ Fits(current, m)
  /\ Store(current, m, segments, disk)

AppendAfterSplit(m) ==
  /\ ~Fits(current, m)
  /\ \E segs \in Reloaded(Flush(disk, current)) :
       Store(Successor(current), m, segs, Flush(disk, current))

Storable(m) == up /\ Len(accepted) < MaxAppends /\ Len(m) <= MaxSegmentBytes

AppendMessage(m) ==
  /\ Storable(m)
  /\ AppendInPlace(m) \/ AppendAfterSplit(m)

-----------------------------------------------------------------------------
(* Stopping and starting again.                                             *)

Stop(files) ==
  /\ up /\ crashes < MaxCrashes
  /\ up' = FALSE
  /\ segments' = <<>>
  /\ current' = NewVirtual(0)
  /\ disk' = files
  /\ crashes' = crashes + 1
  /\ UNCHANGED accepted

\* The process stops between two operations; inside of one it does in Batches.
Crash == Stop(disk)

\* The segments in the order of their offsets, whatever read_dir lists first.
Ascending(starts) ==
  CHOOSE s \in [1 .. Cardinality(starts) -> starts] :
    \A i, j \in DOMAIN s : i < j => s[i] < s[j]

\* load_segments, when the directory can be listed.  The last segment becomes
\* the current one only when there are two; without any, the orphan files are
\* not looked at.
Open ==
  /\ ~up
  /\ up' = TRUE
  /\ LET starts == Ascending(Pairs(disk))
     IN /\ segments' = [i \in DOMAIN starts |-> LoadSegment(disk, starts[i])]
        /\ current' = IF Len(starts) > 1 THEN LoadVirtual(disk, Last(starts)) ELSE current
        /\ disk' = IF starts = <<>> THEN disk ELSE Delete(disk, Orphans(disk))
  /\ UNCHANGED <<accepted, crashes>>

-----------------------------------------------------------------------------
Operate ==
  \/ \E m \in Messages : AppendMessage(m)
  \/ \E o \in Offset : Read(o)
  \/ Reload

Next ==
  \/ Operate
  \/ Crash
  \/ Open

\* One life of the process, from an empty directory to its stop.
LifeSpec == Init /\ [][Operate]_vars

Spec == Init /\ [][Next]_vars

-----------------------------------------------------------------------------
(* Correctness of one life of the process (LifeSpec).                       *)

\* The first offset that no message has.
End == current.start + current.next

\* The segments partition the offsets: each one ends where the next begins,
\* the last where the segment in memory begins, and an index has one entry
\* for every offset.  (split, reload_segments and clean rebuild the chain.)
Contiguous ==
  /\ \A i \in DOMAIN segments :
       /\ segments[i].start < segments[i].next
       /\ segments[i].next =
            IF i < Len(segments) THEN segments[i + 1].start ELSE current.start
       /\ Len(segments[i].entries) = segments[i].next - segments[i].start
  /\ current.next = Len(current.entries)

\* What was cached when a segment was loaded is what its files hold, and the
\* directory has no file but those of the loaded segments.
SegmentsMirrorFiles ==
  /\ {segments[i].start : i \in DOMAIN segments} = Pairs(disk)
  /\ \A i \in DOMAIN segments : segments[i] = LoadSegment(disk, segments[i].start)
  /\ Orphans(disk) = {}

\* append returns 0, 1, 2, ... whatever splits, cleanings and reads intervene.
OffsetsConsecutive ==
  /\ \A i \in DOMAIN accepted : accepted[i].offset = i - 1
  /\ End = Len(accepted)

\* The index entries of a segment tile its log, each as long as the message
\* that was appended under its offset, even after reads moved the cursor.
Tiles(s) ==
  \A k \in DOMAIN s.entries :
    /\ s.entries[k].start =
         IF k = 1 THEN 0 ELSE s.entries[k - 1].start + s.entries[k - 1].total
    /\ s.entries[k].total = Len(accepted[s.start + k].data)

EntriesDescribeMessages ==
  Tiles(current) /\ \A i \in DOMAIN segments : Tiles(segments[i])

\* Every retained offset is found in the segment that holds it: a read never
\* says that it does not exist.
NoHoles ==
  \A o \in OldestOffset .. End - 1 : ReadOutcome(o).kind # "OutOfBounds"

\* The cleaner removes enough and never more than it must: without the oldest
\* segment the rest is within the retention, and once something was removed
\* what is left exceeds it.
RetentionRespected ==
  /\ segments # <<>> => Bytes(Tail(segments)) <= RetentionBytes
  /\ OldestOffset > 0 => Bytes(segments) > RetentionBytes

\* The files of a segment are written only while it is the one in memory, by
\* whatever sequence of appends, reads, crashes and restarts: all others stay
\* as they are until they go.
FlushedImmutable ==
  [][\A o \in Pairs(disk) \ {current.start} :
       \/ disk'[o] = disk[o]
       \/ disk'[o].log = NoFile]_vars

\* What a read answers for an offset of a flushed segment never changes, as
\* long as the segment is there.
FlushedReadsStable ==
  [][\A o \in OldestOffset .. current.start - 1 :
       o >= OldestOffset' => ReadOutcome(o)' = ReadOutcome(o)]_vars

-----------------------------------------------------------------------------
(* Correctness across crashes and restarts.                                 *)

\* The offsets that the files of segment o describe.
Covered(o) == o .. o + Len(disk[o].index) - 1

\* Whenever the first life stops, in the middle of a flush or of a cleaning
\* included, the directory describes one contiguous range of accepted messages:
\* only the last pair can be incomplete, only the oldest ones can be missing.
CrashLeavesChain ==
  crashes + (IF up THEN 1 ELSE 0) <= 1 =>
    \A s \in Pairs(disk) :
      /\ \A o \in Covered(s) :
           /\ o < Len(accepted)
           /\ disk[s].index[o - s + 1].total = Len(accepted[o + 1].data)
      /\ \A t \in Pairs(disk) :
           s < t => \A o \in s .. t - 1 : \E p \in Pairs(disk) : o \in Covered(p)

\* What the files of pair s hold for one of its offsets.
Stored(s, o) == Extract(disk[s].log, disk[s].index[o - s + 1])

ServedFrom(s) == \A o \in Covered(s) : ReadOutcome(o)' = Stored(s, o)

\* A log that finds at least two segments answers every read with what the
\* files hold, as long as none of them reaches into the offsets of the next.
OpenServesFlushed ==
  [][ /\ Open
      /\ Cardinality(Pairs(disk)) > 1
      /\ \A s, t \in Pairs(disk) : s < t => s + Len(disk[s].index) <= t
      => \A s \in Pairs(disk) : ServedFrom(s) ]_vars

-----------------------------------------------------------------------------
(* What the documentation says and the code does not do.                    *)

\* "append only" (nolan/README.md): an append changes no byte that the current
\* segment already holds.
AppendOnly ==
  [][\A m \in Messages :
       AppendMessage(m) /\ current'.start = current.start
         => IsPrefix(current.contents, current'.contents)]_vars

\* "rebuild the commitlog on startup" (topic.rs): opening a directory serves
\* what its segments hold.
OpenServesEveryPair ==
  [][Open => \A s \in Pairs(disk) : ServedFrom(s)]_vars

=============================================================================
