------------------------------- MODULE Client -------------------------------
(***************************************************************************)
(* The command line client on a connection to the server of module Server. *)
(* Its prompt (main.rs) and its connection (tcp_client.rs) are tasks with  *)
(* two unbounded channels between them: the prompt sends a request and     *)
(* waits for a response; a task writes requests to the socket, another one *)
(* reads answers from it.  Both use blocking sockets, so that a read holds *)
(* one of the runtime's worker threads.                                    *)
(*                                                                         *)
(* The prompt is the one of `connect'.  `consumer', and `producer' once it *)
(* has a batch of lines, do the same but never mistype and never quit.     *)
(***************************************************************************)
EXTENDS Server

CONSTANTS
  Cli,      \* the connections of command line clients; the others do as they like
  Workers,  \* worker threads of a client's runtime
  Quit      \* the request of one byte that ends the connection

ASSUME ClientAssumption ==
  /\ Cli \subseteq Conn
  /\ Workers \in Nat \ {0}
  /\ Quit \notin Message
  /\ AnswerSize > 2

VARIABLES
  prompt,  \* "ready" for a command, "waiting" for a response, "leaving" or "gone"
  outbox,  \* the channel of requests
  inbox,   \* the channel of responses, by the numbers of their commands
  reader,  \* read_from_stream: "new", before a "header" or a "body", "lost" or "dead"
  shown    \* history: the responses shown, by the numbers of their commands

promptVars == <<prompt, outbox, inbox, reader, shown>>
clientServerVars == <<serverVars, promptVars>>

\* The two channels have no bound, and yet never hold more than one element: the
\* prompt puts nothing into one before it took something out of the other.
ClientTypeOK ==
  /\ ServerTypeOK
  /\ prompt \in [Cli -> {"ready", "waiting", "leaving", "gone"}]
  /\ outbox \in [Cli -> Seq(Message \cup {Quit})]
  /\ inbox \in [Cli -> Seq(Nat)]
  /\ reader \in [Cli -> {"new", "header", "body", "lost", "dead"}]
  /\ shown \in [Cli -> Seq(Nat)]
  /\ \A c \in Cli : Len(outbox[c]) <= 1 /\ Len(inbox[c]) <= 1

ClientInit ==
  /\ ServerInit
  /\ prompt = [c \in Cli |-> "ready"]
  /\ outbox = [c \in Cli |-> <<>>]
  /\ inbox = outbox /\ shown = outbox
  /\ reader = [c \in Cli |-> "new"]

-----------------------------------------------------------------------------
(* The prompt.                                                              *)

Asked(c) == Len(sent[c]) + Len(outbox[c])

\* Mutant of Ask: the prompt does not wait.
AskAhead(c, m) ==
  /\ prompt[c] = "ready" /\ Asked(c) < MaxSends
  /\ outbox' = [outbox EXCEPT ![c] = Append(@, m)]
  /\ UNCHANGED <<serverVars, prompt, inbox, reader, shown>>

Ask(c, m) ==
  /\ prompt[c] = "ready" /\ Asked(c) < MaxSends
  /\ outbox' = [outbox EXCEPT ![c] = Append(@, m)]
  /\ prompt' = [prompt EXCEPT ![c] = "waiting"]
  /\ UNCHANGED <<serverVars, inbox, reader, shown>>

\* A line that is no command is answered on the spot, and then the prompt
\* waits for a response all the same.
Mistype(c) ==
  /\ prompt[c] = "ready"
  /\ prompt' = [prompt EXCEPT ![c] = "waiting"]
  /\ UNCHANGED <<serverVars, outbox, inbox, reader, shown>>

SayQuit(c) ==
  /\ prompt[c] = "ready"
  /\ outbox' = [outbox EXCEPT ![c] = Append(@, Quit)]
  /\ prompt' = [prompt EXCEPT ![c] = "leaving"]
  /\ UNCHANGED <<serverVars, inbox, reader, shown>>

Show(c) ==
  /\ prompt[c] = "waiting" /\ inbox[c] # <<>>
  /\ shown' = [shown EXCEPT ![c] = Append(@, Head(inbox[c]))]
  /\ inbox' = [inbox EXCEPT ![c] = Tail(@)]
  /\ prompt' = [prompt EXCEPT ![c] = "ready"]
  /\ UNCHANGED <<serverVars, outbox, reader>>

\* The half second that the prompt sleeps is taken to be enough for the writer.
\* The runtime only ends when no task is inside a blocking read.
Exit(c) ==
  /\ prompt[c] = "leaving" /\ outbox[c] = <<>>
  /\ reader[c] \in {"new", "dead"}
  /\ prompt' = [prompt EXCEPT ![c] = "gone"]
  /\ UNCHANGED <<serverVars, outbox, inbox, reader, shown>>

\* The process is killed, and its kernel closes or resets the connection.
Killed(c) ==
  /\ prompt[c] # "gone"
  /\ ClientShuts(c) \/ ClientResets(c)
  /\ prompt' = [prompt EXCEPT ![c] = "gone"]
  /\ reader' = [reader EXCEPT ![c] = "dead"]
  /\ UNCHANGED <<outbox, inbox, shown>>

-----------------------------------------------------------------------------
(* The tasks of the connection.                                             *)

Connected(c) == prompt[c] # "gone" /\ handler[c] # "idle"

\* Mutant of WriterRuns: the reader holds the only worker.
WriterStarves(c) == reader[c] \in {"new", "dead"}

\* A reader that runs never gives its worker back before it ends.
WriterRuns(c) == reader[c] \in {"new", "dead"} \/ Workers > 1

\* Mutant of WriterTakes: the connection is dropped without a shutdown, which
\* leaves it open for the reader's clone of the socket.
WriterOnlyDrops(c) ==
  /\ Connected(c) /\ WriterRuns(c)
  /\ outbox[c] # <<>> /\ link[c] = "open"
  /\ outbox' = [outbox EXCEPT ![c] = Tail(@)]
  /\ IF Head(outbox[c]) = Quit THEN UNCHANGED serverVars ELSE Send(c, Head(outbox[c]))
  /\ UNCHANGED <<prompt, inbox, reader, shown>>

\* write_to_stream, and the shutdown of both directions on Quit.
WriterTakes(c) ==
  /\ Connected(c) /\ WriterRuns(c)
  /\ outbox[c] # <<>> /\ link[c] = "open"
  /\ outbox' = [outbox EXCEPT ![c] = Tail(@)]
  /\ IF Head(outbox[c]) = Quit THEN ClientShuts(c) ELSE Send(c, Head(outbox[c]))
  /\ UNCHANGED <<prompt, inbox, reader, shown>>

ReaderStarts(c) ==
  /\ Connected(c) /\ reader[c] = "new"
  /\ reader' = [reader EXCEPT ![c] = "header"]
  /\ UNCHANGED <<serverVars, prompt, outbox, inbox, shown>>

\* What a read of n bytes gets: not more than is there, and a part of it when
\* the network delivers parts.
Sizes(c, n) ==
  LET most == IF n < unread[c] THEN n ELSE unread[c]
  IN IF Fragments THEN 1 .. most ELSE {most}

\* One read each for header and body.  What a short one leads to, a response
\* that is none or a panic, is not followed.
ReadPiece(c, n, next) ==
  /\ Connected(c) /\ unread[c] > 0
  /\ \E k \in Sizes(c, n) :
       /\ unread' = [unread EXCEPT ![c] = @ - k]
       /\ reader' = [reader EXCEPT ![c] = IF k = n THEN next ELSE "lost"]
       /\ inbox' = IF k = n /\ next = "header"
                   THEN [inbox EXCEPT ![c] =
                           Append(@, answers[c][Len(shown[c]) + Len(@) + 1].n)]
                   ELSE inbox
  /\ UNCHANGED <<clientVars, socket, handlerVars, brokerVars, answers, handled,
                 prompt, outbox, shown>>

ReadAnswer(c) ==
  \/ reader[c] = "header" /\ ReadPiece(c, 2, "body")
  \/ reader[c] = "body" /\ ReadPiece(c, AnswerSize - 2, "header")

\* At the end of the stream the buffer is parsed without an answer in it: panic.
ReaderEnds(c) ==
  /\ reader[c] \in {"header", "body"} /\ link[c] = "shut" /\ unread[c] = 0
  /\ reader' = [reader EXCEPT ![c] = "dead"]
  /\ UNCHANGED <<serverVars, prompt, outbox, inbox, shown>>

-----------------------------------------------------------------------------
UserActs(c) ==
  \/ \E m \in Message : Ask(c, m)
  \/ Mistype(c) \/ SayQuit(c) \/ Killed(c)

TasksAct(c) ==
  Show(c) \/ Exit(c) \/ ReaderStarts(c) \/ ReadAnswer(c) \/ ReaderEnds(c)

ClientNext ==
  \/ \E c \in Cli : UserActs(c) \/ TasksAct(c) \/ WriterTakes(c)
  \/ (ServerActs \/ \E c \in Conn \ Cli : ClientActs(c)) /\ UNCHANGED promptVars

\* The tasks of the clients run as those of the server do; users owe nothing.
ClientFairSpec ==
  /\ ClientInit /\ [][ClientNext]_clientServerVars
  /\ ServerFairness
  /\ \A c \in Cli : WF_clientServerVars(TasksAct(c)) /\ WF_clientServerVars(WriterTakes(c))

-----------------------------------------------------------------------------
(* Correctness.                                                             *)

\* Each response that a prompt shows answers the command just before it.  Nothing
\* in a response says what it answers: this rests on the queues and tasks of the
\* client and of the server making one answer of each command, in their order.
ShownInOrder ==
  \A c \in Cli : \A i \in DOMAIN shown[c] : shown[c][i] = i

\* A command that was sent is answered and shown, through all four queues and
\* two sockets, whatever the other clients send or leave unread.
AskedIsAnswered ==
  \A c \in Cli :
    prompt[c] = "waiting" /\ Len(shown[c]) < Asked(c) ~> prompt[c] # "waiting"

\* A user who quits gets out: the shutdown of the socket wakes the reader that
\* the end of the runtime waits for.
QuitEnds == \A c \in Cli : prompt[c] = "leaving" ~> prompt[c] = "gone"

-----------------------------------------------------------------------------
(* What the documentation says and the code does not do.                    *)

\* "interact with your LucidMQ instance" (lucidmq-cli/README.md): after every
\* line the prompt comes back.
PromptComesBack == \A c \in Cli : prompt[c] = "waiting" ~> prompt[c] # "waiting"

=============================================================================
