------------------------------ MODULE Segments ------------------------------
(***************************************************************************)
(* The storage units of nolan: the segment being written, which lives in   *)
(* memory (VirtualSegment with its VirtualIndex), the segments already on  *)
(* disk (Segment with its Index), the pair of files behind each of them,   *)
(* and the cleaner that removes the oldest ones.  Pure operators: the      *)
(* state machine that owns the values is module Commitlog.                 *)
(*                                                                         *)
(* A message is a sequence of bytes.  An index entry is the pair           *)
(* [start, total] of virtual_index.rs; the two files of a segment are      *)
(* [log, index], each a sequence or NoFile.                                *)
(***************************************************************************)
EXTENDS Integers, Sequences, FiniteSets, SequencesExt

CONSTANTS
  Byte,            \* the values one byte of a message can take
  ZeroByte,        \* what a Cursor writes into a gap it skipped over
  Messages,        \* the messages that callers append
  NoFile,          \* a file that does not exist
  OffsetSpan,      \* the number of values of a u16: 2^16 in the code
  MaxSegmentBytes, \* Commitlog.max_segment_size
  RetentionBytes   \* Cleaner.retention_bytes

ASSUME SegmentsAssumption ==
  /\ ZeroByte \in Byte
  /\ Messages \subseteq Seq(Byte) \ {<<>>}
  /\ NoFile \notin Seq(Byte)
  /\ NoFile \notin Seq([start : Nat, total : Nat])
  /\ OffsetSpan \in Nat \ {0}
  /\ MaxSegmentBytes \in Nat
  /\ RetentionBytes \in Nat

Offset == 0 .. OffsetSpan - 1
Entry == [start : Nat, total : Nat]

\* Sums of offsets are u16 and the image is a release build: they wrap.
U16(n) == n % OffsetSpan

VirtualSegment ==
  [start : Offset, next : Offset, contents : Seq(Byte), cursor : Nat,
   position : Nat, entries : Seq(Entry)]

Segment ==
  [start : Offset, next : Offset, position : Nat, entries : Seq(Entry)]

Files == [log : Seq(Byte) \cup {NoFile}, index : Seq(Entry) \cup {NoFile}]
Missing == [log |-> NoFile, index |-> NoFile]

-----------------------------------------------------------------------------
(* What a read answers.                                                     *)

Found(data) == [kind |-> "Found", data |-> data]
OutOfBounds == [kind |-> "OutOfBounds", data |-> <<>>]
Failed      == [kind |-> "Failed", data |-> <<>>]

\* seek(start) and read_exact(total) on the bytes of one segment.
Extract(bytes, entry) ==
  IF entry.start + entry.total <= Len(bytes)
  THEN Found(SubSeq(bytes, entry.start + 1, entry.start + entry.total))
  ELSE Failed

-----------------------------------------------------------------------------
(* The segment in memory.                                                   *)

NewVirtual(offset) ==
  [start |-> offset, next |-> 0, contents |-> <<>>, cursor |-> 0,
   position |-> 0, entries |-> <<>>]

Fits(v, m) == Len(v.contents) + Len(m) <= MaxSegmentBytes

\* Cursor::write: overwrite from the cursor on, extend, fill a gap with zeros.
Put(bytes, at, m) ==
  LET end == at + Len(m)
      size == IF end > Len(bytes) THEN end ELSE Len(bytes)
  IN [i \in 1 .. size |-> IF i \in at + 1 .. end THEN m[i - at]
                          ELSE IF i <= Len(bytes) THEN bytes[i] ELSE ZeroByte]

\* VirtualIndex::add_entry
AddEntry(entries, start, total) == Append(entries, [start |-> start, total |-> total])

\* Mutant of Write: the entry starts where the cursor happens to be.
WriteIndexesCursor(v, m) ==
  [start |-> v.start, next |-> U16(v.next + 1),
   contents |-> Put(v.contents, v.cursor, m), cursor |-> v.cursor + Len(m),
   position |-> v.position + Len(m),
   entries |-> AddEntry(v.entries, v.cursor, Len(m))]

\* The index entry starts at `position', the bytes go where the cursor is.
Write(v, m) ==
  [start |-> v.start,
   next |-> U16(v.next + 1),
   contents |-> Put(v.contents, v.cursor, m),
   cursor |-> v.cursor + Len(m),
   position |-> v.position + Len(m),
   entries |-> AddEntry(v.entries, v.position, Len(m))]

\* read_at's bound, shared by the first segment and the later ones.
BeyondVirtual(v, o) ==
  \/ v.start = 0 /\ o >= v.next
  \/ o >= U16(v.next + v.start)

VirtualReadAt(v, o) ==
  IF BeyondVirtual(v, o) THEN OutOfBounds
  ELSE IF o >= Len(v.entries) THEN Failed
  ELSE Extract(v.contents, v.entries[o + 1])

\* Mutant of CursorsAfter: the seek is one byte short and nothing is read.
CursorsShort(v, o) ==
  IF BeyondVirtual(v, o) \/ o >= Len(v.entries) THEN {v.cursor}
  ELSE {v.entries[o + 1].start - 1}

\* Where read_at leaves the cursor.  A read_exact that fails leaves it at the
\* seek position or, with a newer standard library, at the end of the contents.
CursorsAfter(v, o) ==
  IF BeyondVirtual(v, o) \/ o >= Len(v.entries) THEN {v.cursor}
  ELSE LET entry == v.entries[o + 1]
       IN IF entry.start + entry.total <= Len(v.contents)
          THEN {entry.start + entry.total}
          ELSE {entry.start, Len(v.contents)}

-----------------------------------------------------------------------------
(* Files.  Nothing truncates a file that is written again.                  *)

Overlay(old, new) ==
  IF old = NoFile THEN new
  ELSE new \o SubSeq(old, Len(new) + 1, Len(old))

\* Mutant of Flush: the files are named after the wrong offset.
FlushNamedByNext(disk, v) ==
  [disk EXCEPT ![v.next] = [log |-> Overlay(@.log, v.contents),
                            index |-> Overlay(@.index, v.entries)]]

Flush(disk, v) ==
  [disk EXCEPT ![v.start] = [log |-> Overlay(@.log, v.contents),
                             index |-> Overlay(@.index, v.entries)]]

Pairs(disk) == {o \in Offset : disk[o].log # NoFile /\ disk[o].index # NoFile}

Orphans(disk) == {o \in Offset : disk[o] # Missing} \ Pairs(disk)

\* Mutant of LoadSegment: next counts from the start of the segment.
LoadSegmentRelative(disk, o) ==
  [start |-> o, next |-> Len(disk[o].index),
   position |-> Len(disk[o].log), entries |-> disk[o].index]

LoadSegment(disk, o) ==
  [start |-> o, next |-> U16(Len(disk[o].index) + o),
   position |-> Len(disk[o].log), entries |-> disk[o].index]

\* The cursor of the loaded bytes is at 0, next_offset counts from offset 0.
LoadVirtual(disk, o) ==
  [start |-> o, next |-> U16(Len(disk[o].index) + o),
   contents |-> disk[o].log, cursor |-> 0,
   position |-> Len(disk[o].log), entries |-> disk[o].index]

BeyondSegment(s, o) ==
  \/ s.start = 0 /\ o >= s.next
  \/ o >= U16(s.next - s.start)

SegmentReadAt(disk, s, o) ==
  IF BeyondSegment(s, o) THEN OutOfBounds
  ELSE IF o >= Len(s.entries) THEN Failed
  ELSE Extract(disk[s.start].log, s.entries[o + 1])

Delete(disk, starts) == [o \in Offset |-> IF o \in starts THEN Missing ELSE disk[o]]

-----------------------------------------------------------------------------
(* The cleaner counts segments from the newest to the oldest, stops at the  *)
(* first one whose newer ones already exceed the retention, and removes it  *)
(* and every older one.                                                     *)

Bytes(segs) == FoldLeft(LAMBDA sum, s : sum + s.position, 0, segs)

NewerBytes(segs, i) == Bytes(SubSeq(segs, i + 1, Len(segs)))

\* Mutant of Excess: a segment goes when the newer ones just fill the retention.
ExcessTooSoon(segs) ==
  Cardinality({i \in DOMAIN segs : NewerBytes(segs, i) >= RetentionBytes})

\* Mutant of Excess: one segment goes at a time.
ExcessOne(segs) ==
  IF segs # <<>> /\ NewerBytes(segs, 1) > RetentionBytes THEN 1 ELSE 0

Excess(segs) == Cardinality({i \in DOMAIN segs : NewerBytes(segs, i) > RetentionBytes})

Retained(segs) == SubSeq(segs, Excess(segs) + 1, Len(segs))

\* Mutant of Cleaned: only one of the two files goes.
CleanedLogs(disk, segs) ==
  LET gone == {segs[i].start : i \in 1 .. Excess(segs)}
  IN [o \in Offset |-> IF o \in gone THEN [disk[o] EXCEPT !.log = NoFile] ELSE disk[o]]

Cleaned(disk, segs) ==
  Delete(disk, {segs[i].start : i \in 1 .. Excess(segs)})

-----------------------------------------------------------------------------
(* What a process that stops in the middle leaves in the directory.         *)

\* Mutant of FlushStages: the log is written before its index is created.
FlushLogFirst(disk, v) ==
  LET old == disk[v.start]
      stage(n, entries) ==
        [disk EXCEPT ![v.start] = [log |-> Overlay(old.log, SubSeq(v.contents, 1, n)),
                                   index |-> entries]]
  IN {stage(n, old.index) : n \in 0 .. Len(v.contents)}

\* flush creates the log file, creates and writes the index, writes the log.
FlushStages(disk, v) ==
  LET old == disk[v.start]
      log(n) == Overlay(old.log, SubSeq(v.contents, 1, n))
      index(n) == Overlay(old.index, SubSeq(v.entries, 1, n))
      stage(f) == [disk EXCEPT ![v.start] = f]
  IN {stage([log |-> log(0), index |-> old.index])}
     \cup {stage([log |-> log(0), index |-> index(n)]) : n \in 0 .. Len(v.entries)}
     \cup {stage([log |-> log(n), index |-> index(Len(v.entries))]) :
             n \in 0 .. Len(v.contents)}

\* Mutant of DeleteStages: the newest of the old segments goes first.
DeleteNewestFirst(disk, segs) ==
  {Delete(disk, {segs[i].start : i \in n .. Excess(segs)}) : n \in 1 .. Excess(segs) + 1}

\* The cleaner removes segments one by one, the log file before the index.
DeleteStages(disk, segs) ==
  LET done(n) == Delete(disk, {segs[i].start : i \in 1 .. n})
  IN {done(n) : n \in 0 .. Excess(segs)}
     \cup {[done(n - 1) EXCEPT ![segs[n].start].log = NoFile] : n \in 1 .. Excess(segs)}

=============================================================================
