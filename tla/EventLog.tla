------------------------------ MODULE EventLog ------------------------------
(***************************************************************************)
(* What a topic promises, without segments, files, offsets of 16 bits or a *)
(* cursor: events get the numbers 0, 1, 2, ... and never change; the       *)
(* oldest ones may be forgotten, the newest one never; a poll takes a      *)
(* group over everything that is there, and hands it out once or, when it  *)
(* fails, not at all.                                                      *)
(***************************************************************************)
EXTENDS Integers, Sequences

CONSTANTS
  Event,  \* what is published
  Reader  \* the groups that read

VARIABLES
  first,     \* the number of the oldest event that is kept
  kept,      \* the events from there on
  position,  \* the number of the next event of each reader
  received   \* the events that each reader was handed, with their numbers

logVars == <<first, kept, position, received>>

LogInit ==
  /\ first = 0
  /\ kept = <<>>
  /\ position = [r \in Reader |-> 0]
  /\ received = [r \in Reader |-> <<>>]

\* The number that the next event gets.
NextNumber == first + Len(kept)

\* Where a reader goes on: no earlier than the oldest event.
Resume(r) == IF position[r] < first THEN first ELSE position[r]

Unread(r) ==
  [i \in 1 .. NextNumber - Resume(r) |->
     [offset |-> Resume(r) + i - 1, data |-> kept[Resume(r) - first + i]]]

Publish(e) ==
  /\ \E forgotten \in 0 .. Len(kept) :
       /\ first' = first + forgotten
       /\ kept' = Append(SubSeq(kept, forgotten + 1, Len(kept)), e)
  /\ UNCHANGED <<position, received>>

Poll(r) ==
  /\ position' = [position EXCEPT ![r] = NextNumber]
  /\ received' = [received EXCEPT ![r] = @ \o Unread(r)]
  /\ UNCHANGED <<first, kept>>

\* A poll that fails after it moved the reader.
PollFails(r) ==
  /\ position' = [position EXCEPT ![r] = NextNumber]
  /\ UNCHANGED <<first, kept, received>>

\* A poll without time to read.
PollInVain(r) ==
  /\ position' = [position EXCEPT ![r] = Resume(r)]
  /\ UNCHANGED <<first, kept, received>>

LogNext ==
  \/ \E e \in Event : Publish(e)
  \/ \E r \in Reader : Poll(r) \/ PollFails(r) \/ PollInVain(r)

LogSpec == LogInit /\ [][LogNext]_logVars

=============================================================================
