------------------------------- MODULE Broker -------------------------------
(***************************************************************************)
(* The broker's registry: the topics in memory, their directories, and     *)
(* lucidmq.meta, from which a restart rebuilds it.  One action per command *)
(* of the loop in Broker::run, each the whole handler with the flush it    *)
(* makes; a stop between two effects of a handler and a file operation     *)
(* that fails are actions of their own.  What the log of a topic does is   *)
(* module Topic: here a poll reads some number of records.                 *)
(***************************************************************************)
EXTENDS Integers, Sequences, FiniteSets, SequencesExt

CONSTANTS
  Name,       \* names of topics
  Group,      \* names of consumer groups
  Absent,     \* lucidmq.meta does not exist
  Truncated,  \* lucidmq.meta was created and nothing written to it
  MaxDirs,    \* bound on the directories ever made
  MaxOffset,  \* bound on the offset of a group
  MaxFaults,  \* bound on the file operations that fail
  MaxCrashes  \* bound on the crashes

Dir == 1 .. MaxDirs
Groups == UNION {[known -> 0 .. MaxOffset] : known \in SUBSET Group}
TopicEntry == [name : Name, dir : Dir, groups : Groups]

ASSUME BrokerAssumption ==
  /\ MaxDirs \in Nat /\ MaxOffset \in Nat
  /\ MaxFaults \in Nat /\ MaxCrashes \in Nat
  /\ Absent # Truncated
  /\ {Absent, Truncated} \cap Seq(TopicEntry) = {}

VARIABLES
  up,      \* does the broker run?
  topics,  \* Broker.topics
  meta,    \* what lucidmq.meta decodes to
  dirs,    \* the directories of topics that exist
  made,    \* history: how many directories were ever made, each with a new name
  created, \* history: per name, the directory of the topic that its last create
           \* was answered for; 0 when a delete, a failure or a stop came after it
  deleted, \* history: the names whose last create or delete was an answered delete
  unseen,  \* history: the directories that lucidmq.meta named when a start could
           \* not read it, until a start reads a file that names them
  reached, \* history: per directory and group, the offset that answers reached
  faults,  \* history: how many operations failed
  crashes  \* history: how often the broker stopped

brokerVars ==
  <<up, topics, meta, dirs, made, created, deleted, unseen, reached, faults, crashes>>

BrokerTypeOK ==
  /\ up \in BOOLEAN
  /\ topics \in Seq(TopicEntry)
  /\ meta \in {Absent, Truncated} \cup Seq(TopicEntry)
  /\ dirs \subseteq Dir
  /\ made \in 0 .. MaxDirs
  /\ created \in [Name -> 0 .. MaxDirs]
  /\ deleted \subseteq Name
  /\ unseen \subseteq Dir
  /\ reached \in [Dir -> [Group -> 0 .. MaxOffset]]
  /\ faults \in 0 .. MaxFaults
  /\ crashes \in 0 .. MaxCrashes

BrokerInit ==
  /\ up = TRUE
  /\ topics = <<>>
  /\ meta = Absent
  /\ dirs = {}
  /\ made = 0
  /\ created = [n \in Name |-> 0]
  /\ deleted = {}
  /\ unseen = {}
  /\ reached = [d \in Dir |-> [g \in Group |-> 0]]
  /\ faults = 0
  /\ crashes = 0

-----------------------------------------------------------------------------
\* Mutant of Position: only the first topic is looked at.
PositionFirst(n) == IF topics # <<>> /\ topics[1].name = n THEN 1 ELSE 0

\* check_topics: the position of the first topic of that name, or 0.
Position(n) == SelectInSeq(topics, LAMBDA t : t.name = n)

\* The answer to describe.
Describe(n) ==
  IF Position(n) = 0 THEN [success |-> FALSE, groups |-> {}]
  ELSE [success |-> TRUE, groups |-> DOMAIN topics[Position(n)].groups]

\* The answer to all, an error when there is no topic.
All == [success |-> topics # <<>>, names |-> {topics[i].name : i \in DOMAIN topics}]

Directories(ts) == {ts[i].dir : i \in DOMAIN ts}

Listed == IF meta \in {Absent, Truncated} THEN <<>> ELSE meta

\* What the answer to a create, to a delete, or an error says of a name.
SaysCreated(n) ==
  created' = [created EXCEPT ![n] = made + 1] /\ deleted' = deleted \ {n}

SaysDeleted(n) ==
  created' = [created EXCEPT ![n] = 0] /\ deleted' = deleted \cup {n}

SaysNothing(n) ==
  created' = [created EXCEPT ![n] = 0] /\ deleted' = deleted \ {n}

\* Mutant of NewTopic: it gets the directory of the topic made before.
NewTopicShares(n) == [name |-> n, dir |-> made, groups |-> [g \in {} |-> 0]]

NewTopic(n) == [name |-> n, dir |-> made + 1, groups |-> [g \in {} |-> 0]]

\* Topic::new makes the directory; flush writes the file over the old one.
CreateTopic(n) ==
  /\ up
  /\ Position(n) = 0 /\ made < MaxDirs
  /\ topics' = Append(topics, NewTopic(n))
  /\ dirs' = dirs \cup {made + 1}
  /\ made' = made + 1
  /\ meta' = topics'
  /\ SaysCreated(n)
  /\ UNCHANGED <<up, unseen, reached, faults, crashes>>

\* Mutants of DeleteTopic: without the flush, without removing the directory.
DeleteUnsaved(n) ==
  /\ up
  /\ Position(n) # 0
  /\ topics' = RemoveAt(topics, Position(n))
  /\ dirs' = dirs \ {topics[Position(n)].dir}
  /\ SaysDeleted(n)
  /\ UNCHANGED <<up, meta, made, unseen, reached, faults, crashes>>

DeleteKeepsDirectory(n) ==
  /\ up
  /\ Position(n) # 0
  /\ topics' = RemoveAt(topics, Position(n))
  /\ meta' = topics'
  /\ SaysDeleted(n)
  /\ UNCHANGED <<up, dirs, made, unseen, reached, faults, crashes>>

DeleteTopic(n) ==
  /\ up
  /\ Position(n) # 0
  /\ topics' = RemoveAt(topics, Position(n))
  /\ dirs' = dirs \ {topics[Position(n)].dir}
  /\ meta' = topics'
  /\ SaysDeleted(n)
  /\ UNCHANGED <<up, made, unseen, reached, faults, crashes>>

\* load_consumer_group, and k records read by the poll.
AfterPoll(t, g, k) ==
  LET old == IF g \in DOMAIN t.groups THEN t.groups[g] ELSE 0
  IN [t EXCEPT !.groups = [h \in DOMAIN @ \cup {g} |-> IF h = g THEN old + k ELSE @[h]]]

PollOf(n, g, k) == [topics EXCEPT ![Position(n)] = AfterPoll(@, g, k)]

Pollable(n, g, k) ==
  /\ up
  /\ Position(n) # 0
  /\ PollOf(n, g, k)[Position(n)].groups[g] <= MaxOffset

\* Mutant of Consume: the answer leaves without a flush.
ConsumeUnsaved(n, g, k) ==
  /\ Pollable(n, g, k)
  /\ topics' = PollOf(n, g, k)
  /\ reached' = IF k > 0
                THEN [reached EXCEPT ![topics[Position(n)].dir][g] =
                        topics'[Position(n)].groups[g]]
                ELSE reached
  /\ UNCHANGED <<up, meta, dirs, made, created, deleted, unseen, faults, crashes>>

\* A poll that read something saves the groups, and every other change that
\* memory holds, through the broker's flush before its answer leaves.
Consume(n, g, k) ==
  /\ Pollable(n, g, k)
  /\ topics' = PollOf(n, g, k)
  /\ meta' = IF k > 0 THEN topics' ELSE meta
  /\ reached' = IF k > 0
                THEN [reached EXCEPT ![topics[Position(n)].dir][g] =
                        topics'[Position(n)].groups[g]]
                ELSE reached
  /\ UNCHANGED <<up, dirs, made, created, deleted, unseen, faults, crashes>>

-----------------------------------------------------------------------------
(* A file operation fails, and the error is what the client is answered.    *)

Fault == faults < MaxFaults /\ faults' = faults + 1

\* Mutant of Unwritten: the file is truncated when it is opened.
UnwrittenTruncates == {meta, Truncated}

\* What a flush that did not write leaves: nothing, or the file it created.
Unwritten == {meta, IF meta = Absent THEN Truncated ELSE meta}

\* Topic::new fails, before or after it made the directory, or flush does.
CreateFails(n) ==
  /\ up /\ Fault
  /\ Position(n) = 0 /\ made < MaxDirs
  /\ \/ /\ dirs' \in {dirs, dirs \cup {made + 1}}
        /\ UNCHANGED <<topics, meta>>
     \/ /\ topics' = Append(topics, NewTopic(n))
        /\ dirs' = dirs \cup {made + 1}
        /\ meta' \in Unwritten
  /\ made' = made + 1
  /\ SaysNothing(n)
  /\ UNCHANGED <<up, unseen, reached, crashes>>

\* remove_dir_all fails, or flush after it.
DeleteFails(n) ==
  /\ up /\ Fault
  /\ Position(n) # 0
  /\ topics' = RemoveAt(topics, Position(n))
  /\ \/ UNCHANGED <<dirs, meta>>
     \/ /\ dirs' = dirs \ {topics[Position(n)].dir}
        /\ meta' \in Unwritten
  /\ SaysNothing(n)
  /\ UNCHANGED <<up, made, unseen, reached, crashes>>

\* flush fails, or a read: the group has passed the records all the same.
ConsumeFails(n, g, k) ==
  /\ Fault
  /\ Pollable(n, g, k)
  /\ topics' = PollOf(n, g, k)
  /\ meta' \in IF k > 0 THEN Unwritten ELSE {meta}
  /\ UNCHANGED <<up, dirs, made, created, deleted, unseen, reached, crashes>>

-----------------------------------------------------------------------------
(* Stopping and starting again.                                             *)

Stop ==
  /\ up /\ crashes < MaxCrashes
  /\ up' = FALSE
  /\ topics' = <<>>
  /\ crashes' = crashes + 1
  /\ UNCHANGED <<unseen, reached, faults>>

Crash == Stop /\ UNCHANGED <<meta, dirs, made, created, deleted>>

\* The directory is made; flush did not open the file yet, or created it only,
\* or has written it.
CrashInCreate(n) ==
  /\ Stop
  /\ Position(n) = 0 /\ made < MaxDirs
  /\ dirs' = dirs \cup {made + 1}
  /\ made' = made + 1
  /\ meta' \in Unwritten \cup {Append(topics, NewTopic(n))}
  /\ SaysNothing(n)

\* The directory is gone, and flush has written the file or not.  (A removal
\* that stops half-way leaves a directory, as a crash between commands does.)
CrashInDelete(n) ==
  /\ Stop
  /\ Position(n) # 0
  /\ dirs' = dirs \ {topics[Position(n)].dir}
  /\ meta' \in Unwritten \cup {RemoveAt(topics, Position(n))}
  /\ SaysNothing(n)
  /\ UNCHANGED made

\* The groups are saved and the answer is lost: in a crash, or when the records
\* do not fit a frame, which panics the broker's task.
CrashInConsume(n, g, k) ==
  /\ Stop
  /\ Pollable(n, g, k) /\ k > 0
  /\ meta' = PollOf(n, g, k)
  /\ UNCHANGED <<dirs, made, created, deleted>>

\* Mutant of Open: a directory that is missing stays missing.
OpenMakesNothing ==
  /\ ~up
  /\ meta # Truncated
  /\ up' = TRUE
  /\ topics' = Listed
  /\ unseen' = unseen \ Directories(Listed)
  /\ UNCHANGED <<meta, dirs, made, created, deleted, reached, faults, crashes>>

\* Broker::new.  The topics of the file open their logs, which makes the
\* directories that are missing; a file that does not decode ends the process.
Open ==
  /\ ~up
  /\ meta # Truncated
  /\ up' = TRUE
  /\ topics' = Listed
  /\ dirs' = dirs \cup Directories(Listed)
  /\ unseen' = unseen \ Directories(Listed)
  /\ UNCHANGED <<meta, made, created, deleted, reached, faults, crashes>>

\* A start that ends early: the logs are opened one after the other, and one
\* that cannot be opened panics.
OpenStops ==
  /\ ~up
  /\ \E k \in DOMAIN Listed : dirs' = dirs \cup Directories(SubSeq(Listed, 1, k))
  /\ UNCHANGED <<up, topics, meta, made, created, deleted, unseen, reached, faults, crashes>>

\* Mutant of OpenUnread: it writes the new file that its message announces.
OpenUnreadWrites ==
  /\ ~up /\ Fault
  /\ meta # Absent
  /\ up' = TRUE
  /\ topics' = <<>>
  /\ meta' = <<>>
  /\ unseen' = unseen \cup Directories(Listed)
  /\ UNCHANGED <<dirs, made, created, deleted, reached, crashes>>

\* Broker::new when the file is there and reading it fails: whatever the error,
\* the broker starts without topics.  The file is as it was until a flush.
OpenUnread ==
  /\ ~up /\ Fault
  /\ meta # Absent
  /\ up' = TRUE
  /\ topics' = <<>>
  /\ unseen' = unseen \cup Directories(Listed)
  /\ UNCHANGED <<meta, dirs, made, created, deleted, reached, crashes>>

-----------------------------------------------------------------------------
BrokerNext ==
  \/ \E n \in Name :
       \/ CreateTopic(n) \/ DeleteTopic(n)
       \/ CreateFails(n) \/ DeleteFails(n)
       \/ CrashInCreate(n) \/ CrashInDelete(n)
       \/ \E g \in Group, k \in 0 .. 1 :
            Consume(n, g, k) \/ ConsumeFails(n, g, k) \/ CrashInConsume(n, g, k)
  \/ Crash
  \/ Open \/ OpenStops \/ OpenUnread

BrokerSpec == BrokerInit /\ [][BrokerNext]_brokerVars

-----------------------------------------------------------------------------
(* Correctness.                                                             *)

\* No two topics have a name or a directory in common, in memory or in the
\* file, whatever failed or crashed while they were made and deleted.
TopicsDistinct ==
  \A ts \in {topics, Listed} : \A i, j \in DOMAIN ts :
    i # j => ts[i].name # ts[j].name /\ ts[i].dir # ts[j].dir

\* Every topic that is served has its directory: none is deleted under it.
TopicsHaveDirectories == Directories(topics) \subseteq dirs

\* A create that was answered with success holds from then on: describe and all
\* name the topic, and it is the one in the directory that the create made.  It
\* holds across crashes, restarts and failures, with one exception: a start that
\* cannot read lucidmq.meta sees no topic, and they are served again by the next
\* start that reads a file which still names them.  A delete that was answered
\* holds without exception: nothing brings the topic back.
AckedServed ==
  up => \A n \in Name :
    /\ created[n] \notin {0} \cup unseen =>
         /\ Describe(n).success /\ All.success /\ n \in All.names
         /\ topics[Position(n)].dir = created[n]
    /\ n \in deleted => ~Describe(n).success /\ n \notin All.names

\* The file stops naming a topic whose create was answered, and no delete after
\* it, in one case only: a broker that could not read the file at its start
\* writes its own list.  No crash, failed flush or start does it by itself.
OnlyUnseenForgotten ==
  [][\A n \in Name :
       /\ created[n] \in Directories(Listed) \ Directories(Listed')
       /\ created'[n] = created[n]
       => up /\ created[n] \in unseen]_brokerVars

\* The offset that the answers to a group reached is in the file, so that a
\* restart never repeats them, although other failures came between.
ReachedSaved ==
  \A i \in DOMAIN Listed : \A g \in Group :
    reached[Listed[i].dir][g] > 0 =>
      /\ g \in DOMAIN Listed[i].groups
      /\ reached[Listed[i].dir][g] <= Listed[i].groups[g]

\* A directory without a topic is what a failure or a crash left, one at most
\* for each, or one that the file named when a start could not read it: no
\* sequence of creates and deletes leaks one.
LeaksBounded ==
  Cardinality(dirs \ (Directories(topics) \cup Directories(Listed) \cup unseen))
    <= faults + crashes

\* Once a create or a delete was answered with success there is a file, and the
\* next start can read it: no later failure and no crash takes that back.
AckedReadable ==
  deleted # {} \/ (\E n \in Name : created[n] # 0) => meta \notin {Absent, Truncated}

=============================================================================
