------------------------------ MODULE Batches -------------------------------
(***************************************************************************)
(* Produce requests, which carry a batch of messages: the broker's handler *)
(* appends them one after the other and gives one answer.  An append can   *)
(* be refused, its cleaning can fail on a file that is not removed, and    *)
(* the process can stop anywhere in between.  The broker handles one       *)
(* request at a time, so that polls only run between batches.              *)
(*                                                                         *)
(* A cleaning that removed the log file of a segment and not its index     *)
(* keeps the segment, whose open file still serves reads: disk goes on to  *)
(* hold the contents, and unlinked says that the name is gone.             *)
(***************************************************************************)
EXTENDS Topic

CONSTANTS
  Batch,       \* the batches that clients produce
  NoRequest,   \* the broker is not handling a batch
  MaxRequests, \* bound on the batches that the broker takes
  MaxFaults    \* bound on the removals that fail

ASSUME BatchesAssumption ==
  /\ Batch \subseteq Seq(Messages)
  /\ NoRequest \notin [batch : Batch, first : Nat, done : Nat, last : Offset]
  /\ MaxRequests \in Nat /\ MaxFaults \in Nat

VARIABLES
  request,   \* the batch in the broker's handler and how far it is, or NoRequest
  unlinked,  \* starts of the loaded segments whose log file has no name any more
  faults,    \* history: how many removals failed
  taken,     \* history: how many requests were taken
  answers    \* history: the answers to produce requests

batchVars == <<request, unlinked, faults, taken, answers>>
allVars == <<logVars, groupVars, batchVars>>

Request == [batch : Batch, first : Nat, done : Nat, last : Offset]
Answer == [batch : Batch, first : Nat, done : Nat, success : BOOLEAN, last : Offset]

BatchesTypeOK ==
  /\ TopicTypeOK
  /\ request \in Request \cup {NoRequest}
  /\ unlinked \subseteq Offset
  /\ faults \in 0 .. MaxFaults
  /\ taken \in 0 .. MaxRequests
  /\ answers \in Seq(Answer)

BatchesInit ==
  /\ TopicInit
  /\ request = NoRequest
  /\ unlinked = {}
  /\ faults = 0
  /\ taken = 0
  /\ answers = <<>>

-----------------------------------------------------------------------------
(* The handler.                                                             *)

\* Mutant of TakeRequest: no last offset yet.
TakeRequestUnset(b) ==
  /\ up /\ request = NoRequest /\ taken < MaxRequests
  /\ taken' = taken + 1
  /\ request' = [batch |-> b, first |-> Len(accepted) + 1, done |-> 0, last |-> 0 - 1]
  /\ UNCHANGED <<logVars, groupVars, unlinked, faults, answers>>

\* The loop over the messages starts with a last offset of 0.
TakeRequest(b) ==
  /\ up /\ request = NoRequest /\ taken < MaxRequests
  /\ taken' = taken + 1
  /\ request' = [batch |-> b, first |-> Len(accepted) + 1, done |-> 0, last |-> 0]
  /\ UNCHANGED <<logVars, groupVars, unlinked, faults, answers>>

Unfinished == request # NoRequest /\ request.done < Len(request.batch)

Message == request.batch[request.done + 1]

Answered(done, success, last) ==
  /\ request' = NoRequest
  /\ answers' = Append(answers, [batch |-> request.batch, first |-> request.first,
                                 done |-> done, success |-> success, last |-> last])

\* Mutant of AppendNext: the offset answered is the one of the first message.
AppendNextFirst ==
  /\ Unfinished
  /\ unlinked = {}
  /\ AppendMessage(Message)
  /\ request' = [request EXCEPT !.done = @ + 1,
                   !.last = IF request.done = 0 THEN Last(accepted').offset ELSE @]
  /\ UNCHANGED <<groupVars, unlinked, faults, taken, answers>>

\* append, when its cleaning has nothing to remove or removes it.
AppendNext ==
  /\ Unfinished
  /\ unlinked = {}
  /\ AppendMessage(Message)
  /\ request' = [request EXCEPT !.done = @ + 1, !.last = Last(accepted').offset]
  /\ UNCHANGED <<groupVars, unlinked, faults, taken, answers>>

\* Mutant of Uncleaned: a segment is forgotten before its files are removed.
UncleanedForgets(segs, files) ==
  IF unlinked # {}
  THEN {[segs |-> segs, files |-> files, unlinked |-> unlinked]}
  ELSE {[segs |-> SubSeq(segs, n + 1, Len(segs)),
         files |-> Delete(files, {segs[i].start : i \in 1 .. n - 1}),
         unlinked |-> {}] : n \in 1 .. Excess(segs)}

\* What a cleaning that fails leaves: the segments it removed are gone, the next
\* one keeps both its files or its index alone.  A log file that has no name
\* cannot be removed again, so that every later cleaning fails there.
Uncleaned(segs, files) ==
  LET failedAt(n, lost) ==
        [segs |-> SubSeq(segs, n, Len(segs)),
         files |-> Delete(files, {segs[i].start : i \in 1 .. n - 1}),
         unlinked |-> lost]
  IN IF unlinked # {}
     THEN {[segs |-> segs, files |-> files, unlinked |-> unlinked]}
     ELSE UNION {{failedAt(n, {}), failedAt(n, {segs[n].start})} : n \in 1 .. Excess(segs)}

\* append writes the message and answers the error of its cleaning.
StoreUncleaned(v, m, segs, files) ==
  /\ current' = Write(v, m)
  /\ accepted' = Append(accepted, [offset |-> U16(v.start + v.next), data |-> m])
  /\ \E left \in Uncleaned(segs, files) :
       /\ segments' = left.segs
       /\ disk' = left.files
       /\ unlinked' = left.unlinked
  /\ IF unlinked = {} THEN faults < MaxFaults /\ faults' = faults + 1
     ELSE UNCHANGED faults
  /\ UNCHANGED <<up, crashes>>

AppendUncleaned ==
  /\ Unfinished
  /\ Storable(Message)
  /\ IF Fits(current, Message)
     THEN StoreUncleaned(current, Message, segments, disk)
     ELSE \E segs \in Reloaded(Flush(disk, current)) :
            StoreUncleaned(Successor(current), Message, segs, Flush(disk, current))
  /\ Answered(request.done + 1, FALSE, 0)
  /\ UNCHANGED <<groupVars, taken>>

\* A message longer than a segment is refused, and the batch ends there.
RefuseNext ==
  /\ Unfinished
  /\ Len(Message) > MaxSegmentBytes
  /\ Answered(request.done, FALSE, 0)
  /\ UNCHANGED <<logVars, groupVars, unlinked, faults, taken>>

AnswerRequest ==
  /\ request # NoRequest /\ ~Unfinished
  /\ Answered(request.done, TRUE, request.last)
  /\ UNCHANGED <<logVars, groupVars, unlinked, faults, taken>>

-----------------------------------------------------------------------------
(* Polls, stops and starts.                                                 *)

ConsumeBetween(g, waits) ==
  /\ request = NoRequest
  /\ Consume(g, waits)
  /\ UNCHANGED batchVars

\* A file without a name is gone once nobody has it open.
Vanished(files) ==
  [o \in Offset |-> IF o \in unlinked THEN [files[o] EXCEPT !.log = NoFile] ELSE files[o]]

Cleanings(segs, files) == IF unlinked = {} THEN DeleteStages(files, segs) ELSE {files}

\* What the process can leave when it stops while it handles a batch.
Stages ==
  IF ~Unfinished \/ ~Storable(Message) THEN {disk}
  ELSE IF Fits(current, Message) THEN Cleanings(segments, disk)
  ELSE FlushStages(disk, current) \cup
       UNION {Cleanings(segs, Flush(disk, current)) : segs \in Reloaded(Flush(disk, current))}

Forgotten == request' = NoRequest /\ unlinked' = {} /\ UNCHANGED <<faults, taken, answers>>

\* The whole process, or the broker's task alone: a flush that fails panics it.
BatchStop ==
  /\ \E files \in {disk} \cup Stages : Stop(Vanished(files))
  /\ Forgotten
  /\ UNCHANGED groupVars

StopInPollBetween(g) ==
  /\ request = NoRequest
  /\ StopInPoll(g, Vanished(disk))
  /\ Forgotten

OpenAgain == TopicOpen /\ UNCHANGED batchVars

-----------------------------------------------------------------------------
HandleBatch ==
  \/ \E b \in Batch : TakeRequest(b)
  \/ AppendNext \/ AppendUncleaned \/ RefuseNext \/ AnswerRequest

BatchesNext ==
  \/ HandleBatch
  \/ \E g \in Group, waits \in BOOLEAN : ConsumeBetween(g, waits)
  \/ BatchStop
  \/ \E g \in Group : StopInPollBetween(g)
  \/ OpenAgain

BatchesSpec == BatchesInit /\ [][BatchesNext]_allVars

-----------------------------------------------------------------------------
(* Correctness.  What concerns offsets holds until the first stop: after a  *)
(* restart appends answer wrong ones (README).                              *)

\* The offset of a success is the one of the last message: from it the client
\* knows the offsets of all, and a read finds each until retention removes it,
\* whatever splits, cleanings and failures came during the batch or later.
AnsweredServed ==
  crashes = 0 =>
    \A i \in {j \in DOMAIN answers : answers[j].success} :
      LET b == answers[i].batch
          number(k) == answers[i].last - Len(b) + k
      IN \A k \in DOMAIN b :
           number(k) >= OldestOffset => ReadOutcome(number(k)) = Found(b[k])

\* The messages of every request up to where it got, in the order of answers.
Written ==
  FoldLeft(LAMBDA ms, a : ms \o SubSeq(a.batch, 1, a.done), <<>>, answers)
  \o IF request = NoRequest THEN <<>> ELSE SubSeq(request.batch, 1, request.done)

\* The log holds of each request the whole batch, if it was answered with
\* success, and else the messages up to the one that failed: what is read is
\* the newest part of that, also from segments that a cleaning failed on.
LogIsRequests ==
  crashes = 0 =>
    /\ IsSuffix(Kept, Written)
    /\ \A i \in DOMAIN answers : answers[i].success => answers[i].done = Len(answers[i].batch)

\* A removal that failed is made up for by the next append that succeeds.
CleaningCatchesUp ==
  [][AppendNext /\ segments' # <<>> => Bytes(Tail(segments')) <= RetentionBytes]_allVars

\* When a life ends without a complete pair, all it can leave is an empty log
\* file: skipping the orphans in that case, as load_segments does, loses nothing
\* and leaves nothing that the next segment would lie over.
LoneOrphanIsEmpty ==
  ~up /\ crashes = 1 /\ Pairs(disk) = {} =>
    \A o \in Offset : disk[o] \in {Missing, [log |-> <<>>, index |-> NoFile]}

=============================================================================
