# LucidMQ in TLA+

LucidMQ is a message broker in Rust: clients send framed Cap'n Proto requests over TCP, a broker
keeps topics, and every topic is a commit log of the library `nolan`. This directory models its
core, checks it with TLC and proves with TLAPS every safety property that the passing runs check.
Paths below are relative to the repository's root; the reference is always the code.

## The system

| part | state | operations | what makes it hard | what makes it correct |
|---|---|---|---|---|
| **commit log** (`nolan/src/commitlog.rs`) | flushed segments, the current one, a directory | `new`, `append`, `read`, `reload_segments`, `get_oldest_offset`, `get_latest_offset` | splits, retention and reloads change three views of the same segments; a restart rebuilds them; offsets are `u16` | segments partition the offsets, memory mirrors the files, a read finds what was appended |
| **segment in memory** (`virtual_segment.rs`, `virtual_index.rs`) | bytes, a cursor, index entries | `write`, `read_at`, `flush`, `load_segment` | reads and writes share the cursor; `next_offset` is relative after `new` and absolute after `load_segment` | entries tile the bytes |
| **segment on disk** (`segment.rs`, `index.rs`) | two files and a cache of them | `load_segment`, `read_at`, `delete` | files are written, overwritten without truncation and removed one by one | a flushed segment never changes |
| **cleaner** (`cleaner.rs`) | retention | `clean`, after every append | boundary of the retention | removes the oldest, and only as many as it must |
| **topic, groups, consumer, producer** (`lucidmq/src/topic.rs`, `consumer.rs`, `producer.rs`) | a log, an offset per group, in memory and in `lucidmq.meta` | `poll`, `produce_bytes` | a group's offset moves, is saved and is answered at different times; retention overtakes groups | groups skip nothing and get nothing twice |
| **broker registry** (`broker.rs`) | topics, `lucidmq.meta`, directories | create, delete, describe, all, consume, produce, `flush`, `new` | memory, file and directories change one after the other | what was answered survives |
| **command line client** (`lucidmq-cli/src/main.rs`, `tcp_client.rs`) | a prompt, two unbounded channels, a task that writes and one that reads | send a command, show a response, quit | blocking reads inside an asynchronous runtime, responses without numbers | every command is answered, in order, and quitting ends |
| **server and channels** (`tcp_server.rs`, `main.rs`, `Broker::run`) | a handler per connection, peer map, two bounded channels | accept, read, send, answer | tasks interleave, reads take what has arrived, writes take what fits | answers reach their owner, nothing waits for ever |
| **Cap'n Proto helper** (`cap_n_proto_helper.rs`) | none | frame, parse | a frame's length is a `u16` | |

Handlers (one task per connection) parse frames and send a `Command` into the request channel. The
broker's single task takes one command at a time, runs its handler to the end (a consume sleeps in
it until its timeout) and sends the answer into the response channel. The task of
`handle_responses` writes it to the socket in the peer map. A consumer saves its group through a
callback that is the broker's `flush`. There is no other concurrency: the locks around topics are
only ever taken by the broker's task. Commands are therefore atomic for one another, and are
single steps in `Topic` and `Broker`; stops and failures inside them are steps of their own. A produce
request is one step per message in `Batches`, because each of its appends can fail on its own.

The command line client puts two more queues and two more tasks on its side of the socket, and has
one request on its way at a time. The libraries `go-lucidmq` and `lucidmq-py` do the same with a
blocking call instead of tasks; with the schemas, the error types, the unused servers, images and
workflows they are not modelled.

## Modules

| module | models | state and actions |
|---|---|---|
| `Segments` | segments, indexes, files, the cleaner, as operators | `Write` is `VirtualSegment::write`, `CursorsAfter` the cursor `read_at` leaves, `Flush`/`Overlay` the two files written over what is there, `LoadSegment`/`LoadVirtual` the two ways to load one, `Excess`/`Retained`/`Cleaned` the cleaner, `FlushStages`/`DeleteStages` what a stop in the middle leaves |
| `Commitlog` | `Commitlog` | `segments`, `current`, `disk` are its fields and its directory. `AppendMessage` is `append` with the split and the cleaning it runs; `Read`, `Reload`; `Crash` between operations; `Open` is `new` with `load_segments`, which sorts what it finds (`Ascending`). `accepted` is history |
| `EventLog` | what a topic promises, abstractly | numbered events of which the oldest may go, a position per reader; `Publish`, `Poll`, `PollFails`, `PollInVain` |
| `Topic` | a topic: log, groups, consumer | extends `Commitlog`. `Consume` is `Consumer::new` and `poll`; `Produce` is `produce_bytes`; `StopInPoll` stops after the reads; `TopicOpen` is `From<DeserTopic>`. `Promised` is the mapping to `EventLog` |
| `Batches` | `handle_producer` on a topic, with failures and stops | extends `Topic`. `TakeRequest`, `AppendNext` for each message, `AnswerRequest`; `RefuseNext` and `AppendUncleaned` end a batch early; `BatchStop` leaves any of the `Stages` of a flush or a cleaning; polls run between batches |
| `Server` | tasks, sockets, channels | each `await` of a task is a place where `handler` stops: `ReadHeader`, `ReadBody`, `SendCommand`, `InsertPeer`, `RemovePeer`; `BrokerTakes`/`BrokerAnswers` the loop, `WriteAnswer` the writer; `Arrive` and the `Client…` actions are the environment |
| `Client` | the command line client on the server | extends `Server`: some of its connections are command line clients. `Ask`, `Mistype`, `SayQuit`, `Show`, `Exit` are the loop of `main.rs`, `WriterTakes`, `ReaderStarts`, `ReadAnswer`, `ReaderEnds` the tasks of `tcp_client.rs` |
| `Broker` | registry, `lucidmq.meta`, directories | one action per command that changes something, `…Fails` when a file operation fails, `CrashIn…` when the process stops inside; `Open`, `OpenUnread` and `OpenStops` are `Broker::new` that reads `lucidmq.meta`, cannot read it, or ends early. `created`, `deleted`, `unseen` are history |
| `MC*` | values for TLC | |
| `CommitlogProofs` | theorems about one life of `Commitlog` | invariants `LifeInv`, `LogInv` |
| `TopicProofs` | theorems about one life of `Topic`, and that it implements `EventLog` | invariants `LogIntact`, `TopicInv` |
| `BatchesProofs` | theorems about `Batches`: failures, stops and restarts | invariants `BatchesInv`, `LoneInv` |
| `BatchLifeProofs` | theorems about the first life of `Batches` and what it leaves | invariants `ServedInv`, `ChainInv` |
| `RestartProofs` | the theorem about what a log serves that is opened again | invariant `RoomInv` |
| `ServerProofs` | theorems about `Server`, for any network and for whole frames | invariants `PipelineInv`, `FramesInOrder` |
| `ClientProofs` | theorems about `Client`, on top of those | invariants `ClientInv`, `PromptInv` |
| `BrokerProofs` | theorems about `Broker` | invariant `RegistryInv` |

`Topic` composes log and groups in full, `Batches` adds the produce side of the broker, and `Client`
composes the two ends of a connection. `Server` leaves out what a command does, `Broker` leaves
out the log (a poll reads some records or none) and the connections: nothing flows back from the
log to the registry except that number, and nothing from either to the channels except that a
command is answered, so the parts are checked one at a time.

What the abstractions keep:

* Bytes are kept (the shared cursor and the missing truncation are about bytes), with an alphabet
  of two or three symbols. An index file is a sequence of entries; an entry cut in the middle by a
  stop is ignored by `load_index`, so whole entries are enough.
* `u16` sums wrap at `OffsetSpan`: the image installs a release build, which does not check.
  `u32` positions are unbounded: a segment holds 100 kB.
* A `read_exact` that fails leaves the cursor at the position it sought or at the end, depending
  on the version of the standard library, which is not pinned: both are in the model.
* `reload_segments` pushes in the order of the directory, which is any order.
* `poll` calls `reload_segments` first; only a split makes files and it loads them itself, so the
  call adds nothing (`SegmentsMirrorFiles`, and the lemma `ReloadKeeps`) and `Consume` omits it.
* A timeout of 0 reads nothing. With any other, `poll` reads until a read does not succeed, and
  an offset that does not exist is waited for in vain, because nothing else runs.
* A stop is the end of the process, not of the operating system: completed writes stay. A flush that
  fails panics the broker's task (`commitlog.rs:69`) and loses the log in memory in the same way, so
  it is such a stop too.
* A segment whose log file was removed and whose index was not stays loaded, and its open file serves
  reads although its name is gone. `unlinked` marks it; the contents leave `disk` when the process stops.
* The prompt of `producer` collects lines and then does what the one of `connect` does; how many lines
  a request has changes nothing for the queues, so `Client` has one prompt. Part of a response is
  `lost`; what its parser makes of it is not followed.
* `lucidmq.meta` is one of the versions written, `Absent` or `Truncated`. It is overwritten without
  truncation; the decoder ignores what follows a complete value. A torn overwrite is left out.
* Connection ids and directory names are random strings, taken as unique.
* `parse_request` turns a wrong buffer into some command or fails; both are possible.

## Runs

Passing:

| run | shows | bounds, and why they are enough |
|---|---|---|
| `commitlog_life` | types, `Contiguous`, `SegmentsMirrorFiles`, `OffsetsConsecutive`, `EntriesDescribeMessages`, `NoHoles`, `RetentionRespected`, `FlushedReadsStable` for one life | 8 appends of one or two bytes, segments of 4, retention 5: segments fill exactly and with a rest, up to three are flushed, the oldest goes, and reads leave the cursor everywhere |
| `topic_life` | `Intact`, `PassedAccountedFor`, the refinement `ImplementsEventLog`, and `GroupsCatchUp` under fairness | two groups, 5 appends, segments of 3, retention 4: up to four segments are flushed and the first ones removed under a group that lags behind |
| `batches_restart` | answers: `AnsweredServed`, `LogIsRequests`; cleaning: `CleaningCatchesUp`; files: `CrashLeavesChain`, `LoneOrphanIsEmpty`, `OpenServesFlushed`; groups: `NeverRedelivered`, `SavedNeverBack`; types of `Commitlog`, `Topic` and `Batches` | one group, 4 batches of none, one and two messages, one with a message that no segment holds, 5 appends, segments of 2, retention 2, one removal that fails, 2 stops: a failed removal jams two batches, a stop hits every stage of a flush and of a cleaning, a restart finds none, one and several pairs, and all that again |
| `server_pipeline` | `CommandsAreMessages`, `AnswersToOwner`, `AnswerFindsPeer`, `NothingLostInside` | two interchangeable connections with two messages each, channels of one place so that both are full |
| `client_progress` | `ShownInOrder`, and `PipelineMoves`, `EveryMessageAnswered`, `AskedIsAnswered`, `QuitEnds`, `GoneIsForgotten` under fairness; types of both modules | a command line client with two workers next to a client that sends ahead, reads when it likes and leaves when it likes, two messages each, channels of one place, sockets with room for all answers |
| `broker_registry` | `TopicsDistinct`, `TopicsHaveDirectories`, `AckedServed`, `ReachedSaved`, `LeaksBounded`, `AckedReadable`, `OnlyUnseenForgotten` | three interchangeable names, one group, offsets to 1, four directories (a name is made again after its delete, or after a start that did not see it), two failures, two stops: a start that cannot read the file, a flush of its list and a start that reads that; three topics can be unseen at once, more than the failure and the stop before it account for |

`server_pipeline` and `client_progress` have `Fragments = FALSE`: each frame arrives in one
piece, as small frames on a local connection do. That is the precondition under which the server
works at all; the run `fragments` drops it. `client_progress` further has no oversized answer and
no full socket, which `oversized` and the rules of `Written` bring.

`topic_life` is one life of a topic and shows that the whole of it, with files, splits, retention and
the cursor, is the log of `EventLog`: `first` is the oldest retained offset, `kept` what reads make of
memory and files from there on. That a group gets each message once, in order and as it was produced
follows from it. The type invariants of `Topic` and `Server` are parts of those of `Batches` and `Client`.

Each property of these runs is paired in `PROJECT.json` with a changed definition (the operators
commented "Mutant of") under which it fails.

Violations, each a place where the code does not do what the repository says:

| run | property | what happens |
|---|---|---|
| `append_only` | `AppendOnly` | append two messages, read the first, append: the second is overwritten. Through `poll` this cannot happen, as it reads to the end (`Intact` of `topic_life`) |
| `one_segment` | `OpenServesEveryPair` | a directory with exactly one pair is opened as empty, and new messages get its offsets |
| `dropped` | `PolledMeansDelivered` | past segment 0 the end of the log is an unexpected error and not the one that `poll` waits on: a poll that reaches it fails, and its records are lost, for the group has passed them |
| `fragments` | `CommandsAreMessages` | a frame in two pieces is misread |
| `oversized` | `HarmlessAnswered` | an answer above 65535 bytes ends the broker's task, and every client waits |
| `mistyped` | `PromptComesBack` | after a line that is no command (a typing error, `help`) the prompt waits for a response although nothing was sent, for ever |

Known divergences without a run of their own. The models behave in the same way as the code in each:

* after a restart `next_offset` of the segment in memory counts from offset 0 of the log
  (`virtual_segment.rs:104`, against the comment at line 18), and appends and splits add the
  starting offset again: offsets returned and files written after it have gaps or lie over each other;
* flush does not truncate (`virtual_segment.rs:188`): after such a restart a segment that starts where an older
  one did keeps the older tail in its files (`BatchesImmutable`: it is the only pair that a flush writes to);
* a lone `.log` or `.index` is not removed when no pair is complete (`commitlog.rs:120`);
* `get_latest_offset` starts at 0 again after a split (`commitlog.rs:346`);
* the offset after 65535 is 0 (`virtual_segment.rs:151`): with `MaxAppends >= OffsetSpan` TLC
  refutes `OffsetsConsecutive`, which is why the theorems assume the contrary;
* groups are saved, the segment in memory is not: after a stop a group can be beyond the log
  (`consumer.rs:80`);
* a handler that panics leaves its peer (`tcp_server.rs:123`, against the comment at line 72);
* a cleaning that removed a log file and not its index tries the same file again at every append
  (`segment.rs:140`): every message is stored and every produce answered with an error until a restart;
* a batch of no messages is answered with success and the offset 0 (`broker.rs:440`);
* the client's reader blocks a worker thread (`tcp_client.rs:39`): on a machine with one core the
  runtime has one worker, and no command is sent once the reader runs. With `Workers = 1` TLC
  refutes `AskedIsAnswered` and `QuitEnds`;
* `producer` holds every line of its first five seconds, and one more, until another one comes, and at
  the end of its input spins and never sends them (`main.rs:104`, `main.rs:109`), so that the
  `echo` of its README reaches nobody;
* an answer is cut where the socket is full (`tcp_server.rs:160`);
* `Broker::new` takes every error of reading `lucidmq.meta` for a missing file (`broker.rs:61`, where the message says it
  "does not exist"): the broker serves no topic, and its next flush overwrites the list. Topics whose creates
  were answered are then gone for good, against `lucidmq/README.md:32` ("how to persist all of this information"), and
  their directories stay. `OpenUnread` does it; without `unseen` in them TLC refutes `AckedServed` and
  `LeaksBounded`, and `OnlyUnseenForgotten` says that nothing else makes the file lose a topic;
* `lucidmq.meta` is left empty when the very first write of it fails or is cut off, and no start
  survives that (`broker.rs:505`); `AckedReadable` bounds the damage:
  no create or delete was acknowledged by then;
* a group that has read nothing yet is listed by describe and forgotten by a restart (`topic.rs:129`).

Runs that stop at the bound on appends, messages or stops, and servers whose clients left, have no
next step: deadlock is not checked. What must not get stuck is stated as liveness instead.

## Fairness

`ServerFairSpec` is weak fairness of each handler, of the broker's loop, of the writer and of the
network. The multi-threaded tokio runtime polls every task that is ready; a full `mpsc` channel
grants its places in the order in which they were asked for. Weak fairness would allow one handler
to be overtaken for ever, but every client sends finitely often in the model, so it cannot be. The
broker's handlers end: `poll` ends at its timeout. Clients owe nothing: they need not send, read or
leave. `ClientFairSpec` adds weak fairness of the tasks of the command line client, which its own
runtime polls, as long as a worker is free (`WriterRuns`); its user owes nothing. The half second
that `quit` grants the writer is taken to be enough.

`TopicFairSpec` says that each group is polled again and again with a timeout that is not 0,
which is what a consumer does; it is a condition on clients, not on the broker.

## Proofs

A run shows a property for a few values, the theorem for all: every alphabet, set of messages, names,
groups and connections, every segment size, retention, channel size and bound. What is assumed is what the
modules state (`…Assumption`), and the three hypotheses below, which the values of the runs satisfy. The
inductive invariants were model-checked on those values.

| theorems | state | of | why the property alone is not inductive |
|---|---|---|---|
| `LifeTypes`, `LifeContiguous`, `LifeMirrorsFiles`, `LifeOffsets` | `TypeOK`, `Contiguous`, `SegmentsMirrorFiles`, `OffsetsConsecutive` | `LifeSpec` * | each rests on the others (`LifeInv`) |
| `LifeDescribes`, `LifeRetention`, `LifeNoHoles`, `LifeReadsStable` | `EntriesDescribeMessages`, `RetentionRespected`, `NoHoles`, `FlushedReadsStable` | `LifeSpec` * | an entry is written at `position`, which has to be where the last one ends (`LogInv`) |
| `TopicIntact`, `TopicAccounts` | `Intact`, `PassedAccountedFor` | `TopicLifeSpec` * | a read is right only if cursor, position and length agree at every write (`LogIntact`); no group may be beyond the end (`TopicInv`) |
| `TopicIsEventLog` | `ImplementsEventLog` | `TopicLifeSpec` * | uses `TopicInv` before and after each step |
| `BatchesTypes`, `BatchesOnce`, `BatchesSaved`, `BatchesImmutable`, `BatchesCatchUp` | `BatchesTypeOK`, `NeverRedelivered`, `SavedNeverBack`, `FlushedImmutable` (not run), `CleaningCatchesUp` | `BatchesSpec` | a read needs the files of the segment it reads; what was answered must lie below what is saved (`BatchesInv`) |
| `BatchesLone` | `LoneOrphanIsEmpty` | `BatchesSpec` | memory and directory have to have the same segments when the first life stops, and a segment that lost its log file's name a newer one (`LoneInv`) |
| `BatchesServed`, `BatchesRequests` | `AnsweredServed`, `LogIsRequests` | `BatchesSpec` * | what an answer says stays true only if the log is intact under failed cleanings, and if offsets and requests count the same messages (`ServedInv`) |
| `BatchesChain` | `CrashLeavesChain` | `BatchesSpec` * | the files describe the messages because they are those of the segments in memory (`ServedInv`, `ChainInv`) |
| `BatchesOpens` | `OpenServesFlushed` | `BatchesSpec` *** | how far the offsets in the files reach depends on all lives before (`RoomInv`) |
| `ServerAnswers`, `ServerPeers`, `ServerLoses` | `AnswersToOwner`, `AnswerFindsPeer`, `NothingLostInside` | `ServerSpec` | the next answer is the right one only if all commands behind it are numbered (`PipelineInv`) |
| `ServerFrames` | `CommandsAreMessages` | `ServerSpec` ** | the bytes on their way have to be cut where messages end (`FramesInOrder`) |
| `ClientShows`, `ClientTypes` | `ShownInOrder`, `ClientTypeOK` | `ClientFairSpec`, the second ** | the bytes in the socket are those of the answers written and not yet read (`ClientInv`); a prompt that waits has one command on its way (`PromptInv`) |
| `BrokerTypes`, `BrokerDistinct`, `BrokerDirectories`, `BrokerAcked`, `BrokerForgets`, `BrokerReadable`, `BrokerReached`, `BrokerLeaks` | `BrokerTypeOK`, `TopicsDistinct`, `TopicsHaveDirectories`, `AckedServed`, `OnlyUnseenForgotten`, `AckedReadable`, `ReachedSaved`, `LeaksBounded` | `BrokerSpec` | a restart takes the file for the memory, so each has to hold of both, and a start that cannot read the file takes nothing (`RegistryInv`) |

\* with the hypothesis `MaxAppends < OffsetSpan`, that fewer messages are appended than a `u16` counts:
without it TLC refutes `OffsetsConsecutive`, and the code answers 0 after 65535.
\** with `Fragments = FALSE`, that frames arrive in one piece: the run `fragments` shows what happens
otherwise. Nothing is assumed of the network for the other theorems about server and client, and no
bound on offsets for those about `BatchesSpec` without a star, where a restart makes them wrong and lets them wrap.
\*** with the hypothesis `Doubling(lim)`: `MaxAppends`, doubled `MaxCrashes` times, is an offset. After a
restart `next_offset` of the segment in memory counts from 0 while its start is added again, so that its next
start can be almost twice as far. The hypothesis of * is not enough: with 5 appends, 2 restarts and
`OffsetSpan = 6` TLC refutes `OpenServesFlushed`.

The arguments, one component after the other:

* **One life of the log.** A split stays in range and makes no second segment of the same start only because
  offsets are consecutive and few; a reload adds exactly the flushed segment, at the end, only because
  memory and files agreed before; the chain goes on only because the index has one entry per
  offset. `LifeInv` is their conjunction, with `Chain` (`Contiguous` plus the order of segments that
  are not neighbours, for any end) and with the fact that a segment without entries has no bytes, so that a
  segment that is full has an offset to name its successor. `StoreKeeps` is the argument for a
  write and the cleaning after it, used for an append in place and after a split (`Splits`, on top of
  `FlushedReload`). It is about any cleaning that removes some of the oldest segments (`AppendLeaving`), so that
  it holds of one that fails as well; only `RetentionRespected` needs to know how many go (`RetentionKept`).
  `LogInv` adds what index entries say. The cleaner compares sums, which are folds:
  that they add up (`FoldedStep` and what follows it) is shown from the least length at
  which it would fail, as there is no induction over sequences to cite. From `LogInv` a read is computed
  (`ReadsFlushed`, `ReadsCurrent`): only one segment of the chain holds an offset.
* **One life of a topic.** `ReadAtEnd` computes the read behind the last message, in the first segment and in the
  later ones; `StopsAtEnd` that a poll gets there, `ScanReturns` that it leaves the cursor where the contents
  end, so that the next write is an append (`PutAtEnd`). `ConsumeIs` sums up a poll in four
  lines, and the rest is about those. For the refinement, `KeptIs` computes what is kept; `ProducePublishes`
  maps a produce to `Publish`, `ConsumePolls` a poll to `Poll`, `PollFails` or `PollInVain`.
* **Batches, stops, restarts.** Nothing of the above survives a restart as it is. What does is that flushed
  segments in memory are loaded from pairs, one each (`Loaded`), and that no step and no stop
  changes a pair but that of the segment in memory otherwise than by removing its log
  (`Spares`, one lemma for each stage a flush, a cleaning or a vanishing file can be left in).
  `AscendingIs` says what the sort of a start makes of the directory. `StopIs`, `ScanTypes` and `RecordTypes` do
  for any log that can be loaded what the lemmas above do for an intact one, and `ConsumeGroups` shows that a poll
  answers only what lies between what was saved before and what is saved now. For `BatchesLone`, `Complete` says that
  in the first life no file is there but those of the segments in memory; a cleaning spares the newest of
  them, so that a stop leaves no pair only before there was one, and then it is in a flush, which begins with
  an empty log file (`StageSafe`).
* **The first life with failures.** An append whose cleaning fails is an `AppendLeaving` too: a segment that lost the
  name of its log file stays as it is in memory and on `disk` (`UnlinkedOldest`). So `FirstLog`, the invariants of a
  life of the log and of its topic, carries over, and with it every read. `ServedInv` adds what requests and answers say
  of the messages accepted: what they wrote, put together, is the log (`HoldsWritten`; `Gathered` is a fold again, whose
  one step is shown from the least length at which it would fail), and the offset of each success is that of its last
  message (`HoldsAnswers`). For the stop, `Remains` says of a directory that its pairs are those of the newest segments,
  the last perhaps with a part of its index, and `Tells` that the one log file without a name is the oldest's;
  `FlushTells`, `CleaningTells` and `StageTells` show it of whatever a flush and a cleaning leave, and
  `RemainsDescribes` and `RemainsNoGap` that it is enough.
* **After a restart.** `StartsAre` lists the pairs, all of them and in order; `ServesLast` and `ServesEarlier` compute a
  read in the last one, which is the segment in memory, and in the others. They need that neither the end of a pair nor
  that end counted from the pair's start again wraps. `RoomInv` bounds both: an append moves them by one, a
  stop leaves no index beyond them (`WithinStage`), and opening at most doubles them (`OpenReaches`).
* **Server and client.** `ServerProofs` is about moves that allow clients more than `ServerSpec` does, so that the
  client's steps are covered too. Commands and answers of one connection are numbered through channel,
  loop and channel; counts in the three places add up because each move takes from one and puts into the
  next. `FramesInOrder` cuts the bytes of a connection into messages; `ClientProofs` counts bytes
  in the socket in multiples of an answer.
* **Registry.** `Sound` says one thing of the list in memory and of the list in the file; `AnswersHold` what each of
  them still owes to the answers sent; every directory is counted when one of the two forgets it. A start that
  cannot read the file makes the two lists unrelated: what the file names is then `unseen`, and nothing is owed of it
  until a start reads a file that names it again. For that start to be right about the name as well, `AnswersHold`
  says that no list ever has a directory under another name. `BrokerForgets` follows: a list that is written is the one in
  memory, which has every topic of an answered create that is not `unseen`.

Only model-checked:

* `GroupsCatchUp`, `PipelineMoves`, `EveryMessageAnswered`, `AskedIsAnswered`, `QuitEnds`, `GoneIsForgotten`: liveness under
  fairness is out of the prover's reach. These are the only properties of passing runs without a theorem.
* What a fold over data computes in general: only the sums that the cleaner needs and the concatenation of what the
  requests wrote are proved.

The modules declare no recursive operator. Two definitions are there in a form that can be reasoned about:
`Ascending` chooses the sorted sequence of starts by what it is, and `BrokerAssumption` says of `Absent` and
`Truncated` that they are not lists of topics.

## Plan

1. Done: the storage units and the log, topic, server, registry; the first theorems; the abstract
   log; batches with their partial failures; the command line client; the theorems above, which are
   all the safety properties of the passing runs.
2. Left: overwrites of `lucidmq.meta` that fail halfway, which need a model of the encoding.

## Not modelled

* The Go and Python libraries: one blocking request at a time, nothing concurrent of their own.
* The encoding, the grammar of the commands, display texts, error types.
* Wall-clock time: the sleep of `poll` delays all clients; the model only shows that they are served.
* Overwrites of `lucidmq.meta` that fail halfway: which mixtures still decode is a matter of the encoding.
* `Consumer::_fetch`, `Producer::_produce_bytes_vector`, `get_latest_offset`: nothing calls them.
* A start that cannot list the directory of a log (`commitlog.rs:85`): it is opened as an empty one. `Open` of `Commitlog`
  and `Topic` always lists it, and it is the start of a topic that `lucidmq.meta` names and that the broker could read there;
  the other starts are in `Broker`.
* Collisions of random names, the unused servers, images and workflows.
