------------------------------- MODULE Server -------------------------------
(***************************************************************************)
(* The TCP server, the broker's loop and the two bounded channels between  *)
(* them.  Every connection has a handler task that reads frames from its   *)
(* socket and sends commands to the broker; the broker answers them one by *)
(* one; one more task writes the answers to the sockets in the peer map.   *)
(* What the broker does with a command is not modelled here, only that it  *)
(* answers it, or panics because the answer does not fit a frame.          *)
(*                                                                         *)
(* A frame is two bytes of length and the message.  The handler does not   *)
(* loop until it has what it asked for: it takes what the socket holds.    *)
(***************************************************************************)
EXTENDS Integers, Sequences, FiniteSets, SequencesExt

CONSTANTS
  Conn,        \* connections
  Message,     \* what clients send: non-empty sequences of bytes
  Oversized,   \* the messages whose answer can outgrow the length of a frame
  ByteSpan,    \* the number of values of a byte: 256
  ChannelSize, \* capacity of both channels: 32 in main.rs
  AnswerSize,  \* bytes of an answer
  SocketRoom,  \* bytes that a socket takes while its client does not read
  Fragments,   \* can the network deliver a part of a frame?
  MaxSends     \* bound on the messages of a client

ASSUME ServerAssumption ==
  /\ ByteSpan \in Nat \ {0, 1}
  /\ Message \subseteq Seq(0 .. ByteSpan - 1) \ {<<>>}
  /\ \A m \in Message : Len(m) < ByteSpan * ByteSpan
  /\ Oversized \subseteq Message
  /\ ChannelSize \in Nat \ {0}
  /\ AnswerSize \in Nat \ {0} /\ SocketRoom \in Nat
  /\ Fragments \in BOOLEAN
  /\ MaxSends \in Nat

VARIABLES
  link,      \* of each client: "open", "shut" after its last byte, or "reset"
  wire,      \* the frames on their way to the server
  socket,    \* bytes that arrived and that the handler did not read
  handler,   \* where the handler of each connection is
  size,      \* message_size, as read from the header
  command,   \* the message that the handler is about to send to the broker
  peers,     \* the keys of the peer map
  requests,  \* the channel to the broker
  working,   \* the command that the broker took, at most one
  responses, \* the channel from the broker
  broker,    \* "up", or "dead" after a panic
  unread,    \* bytes in the socket that the client did not read
  sent,      \* history: the messages of each client
  parsed,    \* history: the commands of each handler that the broker was sent
  answers,   \* history: what was written to each socket
  handled    \* history: how many commands of each connection left the pipeline

clientVars == <<link, wire, sent>>
handlerVars == <<handler, size, command, peers, parsed>>
brokerVars == <<requests, working, responses, broker>>
answerVars == <<unread, answers, handled>>
serverVars == <<clientVars, socket, handlerVars, brokerVars, answerVars>>

HandlerState ==
  {"idle", "accepted", "header", "body", "send", "closing", "done", "dead"}
Command == [conn : Conn, n : Nat]
Answer == [n : Nat, whole : BOOLEAN]
Bytes == 0 .. ByteSpan - 1

ServerTypeOK ==
  /\ link \in [Conn -> {"open", "shut", "reset"}]
  /\ wire \in [Conn -> Seq(Seq(Bytes))]
  /\ socket \in [Conn -> Seq(Bytes)]
  /\ handler \in [Conn -> HandlerState]
  /\ size \in [Conn -> 0 .. ByteSpan * ByteSpan - 1]
  /\ command \in [Conn -> Seq(Bytes)]
  /\ peers \subseteq Conn
  /\ requests \in Seq(Command) /\ Len(requests) <= ChannelSize
  /\ working \in Seq(Command) /\ Len(working) <= 1
  /\ responses \in Seq(Command) /\ Len(responses) <= ChannelSize
  /\ broker \in {"up", "dead"}
  /\ unread \in [Conn -> 0 .. SocketRoom]
  /\ sent \in [Conn -> Seq(Message)]
  /\ parsed \in [Conn -> Seq(Seq(Bytes))]
  /\ answers \in [Conn -> Seq(Answer)]
  /\ handled \in [Conn -> Nat]

ServerInit ==
  /\ link = [c \in Conn |-> "open"]
  /\ wire = [c \in Conn |-> <<>>]
  /\ socket = wire /\ command = wire
  /\ sent = wire /\ parsed = wire /\ answers = wire
  /\ handler = [c \in Conn |-> "idle"]
  /\ size = [c \in Conn |-> 0]
  /\ unread = size /\ handled = size
  /\ peers = {}
  /\ requests = <<>> /\ working = <<>> /\ responses = <<>>
  /\ broker = "up"

-----------------------------------------------------------------------------
(* Clients and the network.                                                 *)

Frame(m) == <<Len(m) % ByteSpan, Len(m) \div ByteSpan>> \o m

Send(c, m) ==
  /\ sent' = [sent EXCEPT ![c] = Append(@, m)]
  /\ wire' = [wire EXCEPT ![c] = Append(@, Frame(m))]
  /\ UNCHANGED <<link, socket, handlerVars, brokerVars, answerVars>>

ClientSends(c) ==
  /\ handler[c] # "idle" /\ link[c] = "open" /\ Len(sent[c]) < MaxSends
  /\ \E m \in Message : Send(c, m)

Arrive(c) ==
  /\ wire[c] # <<>>
  /\ LET f == Head(wire[c])
     IN \E n \in IF Fragments THEN 1 .. Len(f) ELSE {Len(f)} :
          /\ socket' = [socket EXCEPT ![c] = @ \o SubSeq(f, 1, n)]
          /\ wire' = [wire EXCEPT ![c] =
               IF n = Len(f) THEN Tail(@) ELSE <<SubSeq(f, n + 1, Len(f))>> \o Tail(@)]
  /\ UNCHANGED <<link, sent, handlerVars, brokerVars, answerVars>>

ClientReads(c) ==
  /\ unread[c] > 0 /\ link[c] # "reset"
  /\ unread' = [unread EXCEPT ![c] = 0]
  /\ UNCHANGED <<clientVars, socket, handlerVars, brokerVars, answers, handled>>

ClientShuts(c) ==
  /\ handler[c] # "idle" /\ link[c] = "open"
  /\ link' = [link EXCEPT ![c] = "shut"]
  /\ UNCHANGED <<wire, sent, socket, handlerVars, brokerVars, answerVars>>

ClientResets(c) ==
  /\ handler[c] # "idle" /\ link[c] # "reset"
  /\ link' = [link EXCEPT ![c] = "reset"]
  /\ wire' = [wire EXCEPT ![c] = <<>>]
  /\ socket' = [socket EXCEPT ![c] = <<>>]
  /\ UNCHANGED <<sent, handlerVars, brokerVars, answerVars>>

-----------------------------------------------------------------------------
(* The handler of a connection.                                             *)

\* accept and spawn
Accept(c) ==
  /\ handler[c] = "idle"
  /\ handler' = [handler EXCEPT ![c] = "accepted"]
  /\ UNCHANGED <<clientVars, socket, size, command, peers, parsed, brokerVars, answerVars>>

\* Mutant of InsertPeer: the handler starts to read without an entry.
InsertNothing(c) ==
  /\ handler[c] = "accepted"
  /\ handler' = [handler EXCEPT ![c] = "header"]
  /\ UNCHANGED <<clientVars, socket, size, command, peers, parsed, brokerVars, answerVars>>

InsertPeer(c) ==
  /\ handler[c] = "accepted"
  /\ peers' = peers \cup {c}
  /\ handler' = [handler EXCEPT ![c] = "header"]
  /\ UNCHANGED <<clientVars, socket, size, command, parsed, brokerVars, answerVars>>

AtEnd(c) == link[c] = "shut" /\ wire[c] = <<>> /\ socket[c] = <<>>

\* What try_read with a buffer of n bytes leaves: the bytes it got, the rest.
Taken(c, n) == SubSeq(socket[c], 1, IF n < Len(socket[c]) THEN n ELSE Len(socket[c]))
\* Mutant of Rest: a read throws away what it did not ask for.
RestThrownAway(c, n) == <<>>

Rest(c, n) == SubSeq(socket[c], n + 1, Len(socket[c]))

\* Mutant of HeaderSize: the bytes are swapped.
HeaderSizeSwapped(bytes) ==
  ByteSpan * bytes[1] + IF Len(bytes) > 1 THEN bytes[2] ELSE 0

\* A read of one byte leaves the other one of the buffer at zero.
HeaderSize(bytes) ==
  bytes[1] + IF Len(bytes) > 1 THEN ByteSpan * bytes[2] ELSE 0

\* Mutant of ReadHeader: a connection without bytes is waited for, open or not.
ReadHeaderWaits(c) ==
  /\ handler[c] = "header"
  /\ socket[c] # <<>>
  /\ size' = [size EXCEPT ![c] = HeaderSize(Taken(c, 2))]
  /\ socket' = [socket EXCEPT ![c] = Rest(c, 2)]
  /\ handler' = [handler EXCEPT ![c] = "body"]
  /\ UNCHANGED <<clientVars, command, peers, parsed, brokerVars, answerVars>>

ReadHeader(c) ==
  /\ handler[c] = "header"
  /\ IF link[c] = "reset" \/ AtEnd(c)
     THEN /\ handler' = [handler EXCEPT ![c] = "closing"]
          /\ UNCHANGED <<socket, size>>
     ELSE /\ socket[c] # <<>>
          /\ size' = [size EXCEPT ![c] = HeaderSize(Taken(c, 2))]
          /\ socket' = [socket EXCEPT ![c] = Rest(c, 2)]
          /\ handler' = [handler EXCEPT ![c] = "body"]
  /\ UNCHANGED <<clientVars, command, peers, parsed, brokerVars, answerVars>>

\* Where parse_request takes the handler.  What is no message becomes some
\* command all the same, Invalid or another, or fails and panics the task.
Parsed(buffer) == {"send"} \cup IF buffer \in Message THEN {} ELSE {"dead"}

\* The body, read once: what is missing stays zero, and a body of which nothing
\* arrived yet sends the loop back to read a header.
ReadBody(c) ==
  /\ handler[c] = "body"
  /\ LET got == Taken(c, size[c])
         buffer == got \o [i \in 1 .. size[c] - Len(got) |-> 0]
     IN \/ /\ link[c] = "reset"
           /\ handler' = [handler EXCEPT ![c] = "closing"]
           /\ UNCHANGED <<socket, command>>
        \/ /\ link[c] # "reset" /\ socket[c] = <<>> /\ ~AtEnd(c)
           /\ handler' = [handler EXCEPT ![c] = "header"]
           /\ UNCHANGED <<socket, command>>
        \/ /\ link[c] # "reset"
           /\ socket[c] # <<>> \/ AtEnd(c) \/ size[c] = 0
           /\ socket' = [socket EXCEPT ![c] = Rest(c, size[c])]
           /\ command' = [command EXCEPT ![c] = buffer]
           /\ \E state \in Parsed(buffer) : handler' = [handler EXCEPT ![c] = state]
  /\ UNCHANGED <<clientVars, size, peers, parsed, brokerVars, answerVars>>

\* send waits for room; without a receiver it fails and panics the task.
SendCommand(c) ==
  /\ handler[c] = "send"
  /\ IF broker = "up"
     THEN /\ Len(requests) < ChannelSize
          /\ requests' = Append(requests, [conn |-> c, n |-> Len(parsed[c]) + 1])
          /\ parsed' = [parsed EXCEPT ![c] = Append(@, command[c])]
          /\ handler' = [handler EXCEPT ![c] = "header"]
     ELSE /\ handler' = [handler EXCEPT ![c] = "dead"]
          /\ UNCHANGED <<requests, parsed>>
  /\ UNCHANGED <<clientVars, socket, size, command, peers, working, responses, broker,
                 answerVars>>

RemovePeer(c) ==
  /\ handler[c] = "closing"
  /\ peers' = peers \ {c}
  /\ handler' = [handler EXCEPT ![c] = "done"]
  /\ UNCHANGED <<clientVars, socket, size, command, parsed, brokerVars, answerVars>>

-----------------------------------------------------------------------------
(* The broker's loop and the writer of the answers.                         *)

\* Mutant of BrokerTakes: the loop goes on before the answer is sent.
BrokerTakesAgain ==
  /\ broker = "up" /\ requests # <<>>
  /\ working' = <<Head(requests)>>
  /\ requests' = Tail(requests)
  /\ UNCHANGED <<clientVars, socket, handlerVars, responses, broker, answerVars>>

BrokerTakes ==
  /\ broker = "up" /\ working = <<>> /\ requests # <<>>
  /\ working' = <<Head(requests)>>
  /\ requests' = Tail(requests)
  /\ UNCHANGED <<clientVars, socket, handlerVars, responses, broker, answerVars>>

\* Mutant of BrokerAnswers: the command stays and is answered again.
BrokerAnswersAgain ==
  /\ working # <<>> /\ Len(responses) < ChannelSize
  /\ responses' = responses \o working
  /\ UNCHANGED <<clientVars, socket, handlerVars, requests, working, broker, answerVars>>

BrokerAnswers ==
  /\ working # <<>> /\ Len(responses) < ChannelSize
  /\ responses' = responses \o working
  /\ working' = <<>>
  /\ UNCHANGED <<clientVars, socket, handlerVars, requests, broker, answerVars>>

\* The task ends: its receiver drops the requests that wait.
BrokerPanics ==
  /\ working # <<>>
  /\ parsed[working[1].conn][working[1].n] \in Oversized
  /\ broker' = "dead"
  /\ working' = <<>> /\ requests' = <<>>
  /\ UNCHANGED <<clientVars, socket, handlerVars, responses, answerVars>>

\* try_write takes what the socket has room for, or fails once the client left.
Written(c) ==
  LET room == SocketRoom - unread[c]
      n == IF AnswerSize < room THEN AnswerSize ELSE room
  IN IF link[c] = "open" THEN {n} ELSE {0, n}

\* Mutant of WriteAnswer: an answer waits for a peer that left.
WriteWaitsForPeer ==
  /\ responses # <<>>
  /\ responses' = Tail(responses)
  /\ LET c == Head(responses).conn
     IN /\ c \in peers
        /\ handled' = [handled EXCEPT ![c] = @ + 1]
        /\ \E n \in Written(c) :
             /\ unread' = [unread EXCEPT ![c] = @ + n]
             /\ answers' = [answers EXCEPT ![c] =
                  Append(@, [n |-> Head(responses).n, whole |-> n = AnswerSize])]
  /\ UNCHANGED <<clientVars, socket, handlerVars, requests, working, broker>>

WriteAnswer ==
  /\ responses # <<>>
  /\ responses' = Tail(responses)
  /\ LET c == Head(responses).conn
     IN /\ handled' = [handled EXCEPT ![c] = @ + 1]
        /\ IF c \in peers
           THEN \E n \in Written(c) :
                  /\ unread' = [unread EXCEPT ![c] = @ + n]
                  /\ answers' = [answers EXCEPT ![c] =
                       Append(@, [n |-> Head(responses).n, whole |-> n = AnswerSize])]
           ELSE UNCHANGED <<unread, answers>>
  /\ UNCHANGED <<clientVars, socket, handlerVars, requests, working, broker>>

-----------------------------------------------------------------------------
Handle(c) ==
  Accept(c) \/ InsertPeer(c) \/ ReadHeader(c) \/ ReadBody(c) \/ SendCommand(c)
    \/ RemovePeer(c)

ClientActs(c) ==
  ClientSends(c) \/ ClientReads(c) \/ ClientShuts(c) \/ ClientResets(c)

ServerActs ==
  \/ \E c \in Conn : Arrive(c) \/ Handle(c)
  \/ BrokerTakes \/ BrokerAnswers \/ BrokerPanics \/ WriteAnswer

ServerNext == ServerActs \/ \E c \in Conn : ClientActs(c)

ServerSpec == ServerInit /\ [][ServerNext]_serverVars

\* The runtime polls every task that can go on, and the network delivers.
ServerFairness ==
  /\ \A c \in Conn : WF_serverVars(Handle(c)) /\ WF_serverVars(Arrive(c))
  /\ WF_serverVars(BrokerTakes)
  /\ WF_serverVars(BrokerAnswers \/ BrokerPanics)
  /\ WF_serverVars(WriteAnswer)

\* Clients owe nothing.
ServerFairSpec == ServerSpec /\ ServerFairness

-----------------------------------------------------------------------------
(* Correctness.                                                             *)

\* What the broker is sent are the messages of the client, all of them and in
\* their order, as long as every frame arrives in one piece.
CommandsAreMessages == \A c \in Conn : IsPrefix(parsed[c], sent[c])

\* Whatever the interleaving of connections, a socket gets answers to its own
\* commands only, in the order it sent them, and none of them twice.
AnswersToOwner ==
  \A c \in Conn : \A i \in DOMAIN answers[c] :
    /\ answers[c][i].n <= Len(parsed[c])
    /\ i > 1 => answers[c][i - 1].n < answers[c][i].n

\* As long as a handler reads, the answer to what it read finds its socket: the
\* entry is made before the first read and removed after the last one.
AnswerFindsPeer ==
  \A i \in DOMAIN responses :
    handler[responses[i].conn] \in {"header", "body", "send", "closing"}
      => responses[i].conn \in peers

\* A command that was sent is in one place until the writer took it.
InPipeline(c) ==
  Cardinality({i \in DOMAIN requests : requests[i].conn = c})
  + Cardinality({i \in DOMAIN working : working[i].conn = c})
  + Cardinality({i \in DOMAIN responses : responses[i].conn = c})

NothingLostInside ==
  broker = "up" => \A c \in Conn : handled[c] + InPipeline(c) = Len(parsed[c])

\* Neither full channels nor clients that do not read stop the pipeline: every
\* handler that waits for room gets it, and every command is dealt with.
PipelineMoves ==
  \A c \in Conn :
    /\ handler[c] = "send" ~> handler[c] # "send"
    /\ \A n \in 1 .. MaxSends :
         Len(parsed[c]) >= n ~> handled[c] >= n \/ broker = "dead"

\* A client that stays is answered everything it sends, if frames arrive in one
\* piece, its socket has room and the broker can frame every answer: it waits
\* for no other client.
EveryMessageAnswered ==
  \A c \in Conn : \A n \in 1 .. MaxSends :
    Len(sent[c]) >= n ~>
      \/ Cardinality({i \in DOMAIN answers[c] : answers[c][i].whole}) >= n
      \/ link[c] # "open"

\* Whatever way a client leaves, the server notices and forgets its peer for good.
GoneIsForgotten ==
  \A c \in Conn : link[c] # "open" ~> [](c \notin peers)

-----------------------------------------------------------------------------
(* What the documentation says and the code does not do.                    *)

\* "loops and monitors the reciever channel" (broker.rs): a client whose own
\* requests can be answered is answered, whatever the others ask.
HarmlessAnswered ==
  \A c \in Conn : \A n \in 1 .. MaxSends :
    Len(sent[c]) >= n ~>
      \/ Len(answers[c]) >= n
      \/ link[c] # "open"
      \/ \E i \in DOMAIN sent[c] : sent[c][i] \in Oversized

=============================================================================
