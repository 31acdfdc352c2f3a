------------------------------- MODULE Topic --------------------------------
(***************************************************************************)
(* A topic of the broker: one commit log, the producers that append to it  *)
(* and the consumer groups that read it.  A consume request is one step,   *)
(* Consumer::new and the whole of Consumer::poll: the broker runs one      *)
(* command at a time and the poll loop gives nothing else the processor.   *)
(* The offsets of the groups live in memory and in lucidmq.meta, which the *)
(* consumer rewrites through its callback.  reload_segments, the first     *)
(* call of poll, has nothing to add here: only a split makes files, and it *)
(* loads them itself.                                                      *)
(***************************************************************************)
EXTENDS Commitlog

CONSTANT Group   \* names of consumer groups

VARIABLES
  offset,     \* ConsumerGroup.offset in memory; a group not created yet is at 0
  saved,      \* the offsets in lucidmq.meta
  delivered,  \* history: the records that answers carried to each group, in order
  dropped     \* history: the offsets of records read by a poll that then failed

logVars == <<up, segments, current, disk, accepted, crashes>>
groupVars == <<offset, saved, delivered, dropped>>
topicVars == <<logVars, groupVars>>

Record == [offset : Nat, data : Seq(Byte)]

TopicTypeOK ==
  /\ TypeOK
  /\ offset \in [Group -> Nat]
  /\ saved \in [Group -> Nat]
  /\ delivered \in [Group -> Seq(Record)]
  /\ dropped \in [Group -> SUBSET Nat]

TopicInit ==
  /\ Init
  /\ offset = [g \in Group |-> 0]
  /\ saved = offset
  /\ delivered = [g \in Group |-> <<>>]
  /\ dropped = [g \in Group |-> {}]

-----------------------------------------------------------------------------
\* Producer::produce_bytes
Produce(m) == AppendMessage(m) /\ UNCHANGED groupVars

\* Mutants of Initialized: a poll skips to the segment in memory, or stays where
\* retention has removed everything.
InitializedSkips(g) == IF offset[g] < OldestOffset THEN current.start ELSE offset[g]
InitializedStays(g) == offset[g]

\* consumer_group_initialize moves a group that retention has overtaken.
Initialized(g) == IF offset[g] < OldestOffset THEN OldestOffset ELSE offset[g]

\* The loop of poll reads on until a read does not succeed.
StopFrom(n) ==
  LET horizon == current.start + Len(current.entries)
  IN Min({k \in n .. (IF n > horizon THEN n ELSE horizon) :
            ReadOutcome(k).kind # "Found"})

\* Mutant of CursorsAfterScan: the scan rewinds.
CursorsRewound(n, k) == {0}

\* The cursor after reading n .. k - 1 and failing to read k.
CursorsAfterScan(n, k) ==
  LET last == k - 1 - current.start
      moved == IF last >= 0 /\ n < k
               THEN [current EXCEPT !.cursor = current.entries[last + 1].start
                                               + current.entries[last + 1].total]
               ELSE current
  IN IF k < current.start THEN {current.cursor}
     ELSE CursorsAfter(moved, k - current.start)

Records(n, k) ==
  [i \in 1 .. k - n |-> [offset |-> n + i - 1, data |-> ReadOutcome(n + i - 1).data]]

\* Mutant of SavedAfter: the groups are saved as they were before the reads.
SavedTooSoon(g, n, k, failed) ==
  IF (~failed /\ n < k) \/ offset[g] < n THEN [offset EXCEPT ![g] = n] ELSE saved

\* What save_info wrote: after a poll that answers records, or when the
\* group was moved before the poll.
SavedAfter(g, n, k, failed) ==
  IF ~failed /\ n < k THEN [offset EXCEPT ![g] = k]
  ELSE IF offset[g] < n THEN [offset EXCEPT ![g] = n]
  ELSE saved

\* A timeout of 0 reads nothing.  Otherwise an offset that does not exist is
\* waited for until the timeout, with nobody to append it; every other error
\* fails the request, whose records are gone while their group has passed them.
Consume(g, waits) ==
  LET n == Initialized(g)
  IN /\ up
     /\ \E k \in IF waits THEN {StopFrom(n)} ELSE {n} :
          LET failed == waits /\ ReadOutcome(k).kind = "Failed"
          IN /\ offset' = [offset EXCEPT ![g] = k]
             /\ saved' = SavedAfter(g, n, k, failed)
             /\ delivered' = IF failed THEN delivered
                             ELSE [delivered EXCEPT ![g] = @ \o Records(n, k)]
             /\ dropped' = IF failed THEN [dropped EXCEPT ![g] = @ \cup (n .. k - 1)]
                           ELSE dropped
             /\ \E c \in IF waits THEN CursorsAfterScan(n, k) ELSE {current.cursor} :
                  current' = [current EXCEPT !.cursor = c]
     /\ UNCHANGED <<up, segments, disk, accepted, crashes>>

\* The process stops after a poll has read its records: before save_info, or
\* after it and before the answer leaves.  files is the directory it leaves.
StopInPoll(g, files) ==
  LET n == Initialized(g)
  IN /\ Stop(files)
     /\ n < StopFrom(n)
     /\ saved' \in {IF offset[g] < n THEN [offset EXCEPT ![g] = n] ELSE saved,
                    [offset EXCEPT ![g] = StopFrom(n)]}
     /\ UNCHANGED <<offset, delivered, dropped>>

\* Mutant of TopicOpen: the groups start over.
TopicOpenResets ==
  /\ Open
  /\ offset' = [g \in Group |-> 0]
  /\ UNCHANGED <<saved, delivered, dropped>>

\* Topic is deserialized from lucidmq.meta and opens its commit log.
TopicOpen ==
  /\ Open
  /\ offset' = saved
  /\ UNCHANGED <<saved, delivered, dropped>>

-----------------------------------------------------------------------------
Serve ==
  \/ \E m \in Messages : Produce(m)
  \/ \E g \in Group, waits \in BOOLEAN : Consume(g, waits)

TopicLifeSpec == TopicInit /\ [][Serve]_topicVars

\* Every group is polled again and again, with a timeout that is not 0.
TopicFairSpec ==
  TopicLifeSpec /\ \A g \in Group : WF_topicVars(Consume(g, TRUE))

-----------------------------------------------------------------------------
(* Correctness of one life of the broker.                                   *)

\* Every retained message reads back as it was appended.  The cursor that
\* writes and reads share is only ever left at the end of the contents, for a
\* poll reads as far as it can.
Intact ==
  \A o \in OldestOffset .. End - 1 : ReadOutcome(o) = Found(accepted[o + 1].data)

\* A group passes a message only by receiving it, by a poll that failed, or
\* because retention removed it: splits and the other groups skip nothing.
PassedAccountedFor ==
  \A g \in Group : \A o \in 0 .. offset[g] - 1 :
    \/ \E i \in DOMAIN delivered[g] : delivered[g][i].offset = o
    \/ o \in dropped[g]
    \/ o < OldestOffset

\* A group that is polled again and again passes every message in the end,
\* whatever split or retention does meanwhile.
GroupsCatchUp ==
  \A g \in Group : \A n \in 1 .. MaxAppends :
    Len(accepted) >= n ~> offset[g] >= n

\* What reads make of the files and the memory of a topic.
Kept == [i \in 1 .. End - OldestOffset |-> ReadOutcome(OldestOffset + i - 1).data]

Promised == INSTANCE EventLog WITH
  Event <- Messages, Reader <- Group,
  first <- OldestOffset, kept <- Kept, position <- offset, received <- delivered

\* One life of a topic, with its splits, its flushes, its cleanings and the one
\* cursor, is a log of numbered events that never change, of which only oldest
\* ones go, and from which every poll takes all that its group has not passed.
ImplementsEventLog == Promised!LogSpec

-----------------------------------------------------------------------------
(* Correctness across crashes and restarts.                                 *)

\* An answer never brings a group an offset that an earlier one brought, not
\* even after a restart: poll saves the group before its records are answered.
NeverRedelivered ==
  \A g \in Group : \A i, j \in DOMAIN delivered[g] :
    i < j => delivered[g][i].offset < delivered[g][j].offset

\* What lucidmq.meta records of a group never goes back, and the running broker
\* is never behind it: a restart skips the polls it forgets, but repeats none.
SavedNeverBack ==
  [][\A g \in Group : saved[g] <= saved'[g] /\ (up => saved[g] <= offset'[g])]_topicVars

-----------------------------------------------------------------------------
(* What the documentation says and the code does not do.                    *)

\* "returns a vector is messages when complete" (consumer.rs): a message that
\* a poll has read and moved its group past reaches the consumer.
PolledMeansDelivered == \A g \in Group : dropped[g] = {}

=============================================================================
