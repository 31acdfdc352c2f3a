---------------------------- MODULE ClientProofs ----------------------------
(***************************************************************************)
(* Proofs about the command line client: with the server of ServerProofs   *)
(* behind it, every response that a prompt shows answers the command just  *)
(* before it.  The inductive invariant counts the bytes between the writer *)
(* of answers and the reader; nothing is assumed of the network for it.    *)
(***************************************************************************)
EXTENDS Client, ServerProofs

\* The types of the client's variables, without a bound on its two channels.
PromptTypes ==
  /\ prompt \in [Cli -> {"ready", "waiting", "leaving", "gone"}]
  /\ outbox \in [Cli -> Seq(Message \cup {Quit})]
  /\ inbox \in [Cli -> Seq(Nat)]
  /\ reader \in [Cli -> {"new", "header", "body", "lost", "dead"}]
  /\ shown \in [Cli -> Seq(Nat)]

\* How many answers the reader took off the socket.
Received(c) == Len(shown[c]) + Len(inbox[c])

\* How many bytes of answers that is, with the header of the next one.
BytesRead(c) == AnswerSize * Received(c) + IF reader[c] = "body" THEN 2 ELSE 0

\* The reader never took more than was written, so that the answer it completes is
\* one that was written; the prompt and the channel have the numbers 1, 2, 3, ...
Counted(c) ==
  /\ unread[c] + BytesRead(c) <= AnswerSize * Len(answers[c])
  /\ \A i \in 1 .. Len(shown[c]) : shown[c][i] = i
  /\ \A i \in 1 .. Len(inbox[c]) : inbox[c][i] = Len(shown[c]) + i

\* The prompt asks for one thing at a time: it is ready only when all it sent was
\* shown, and a prompt that leaves has nothing but Quit for the writer.
OneAtATime(c) ==
  /\ Len(outbox[c]) <= 1 /\ Len(sent[c]) <= Len(shown[c]) + 1
  /\ prompt[c] = "ready" => Len(outbox[c]) = 0 /\ Len(sent[c]) <= Len(shown[c])
  /\ prompt[c] = "waiting" => Len(sent[c]) + Len(outbox[c]) <= Len(shown[c]) + 1
  /\ prompt[c] = "leaving" => /\ Len(sent[c]) <= Len(shown[c])
                              /\ \A i \in 1 .. Len(outbox[c]) : outbox[c][i] = Quit

\* The inductive invariant for any network, and the one for whole frames.
ClientInv ==
  PipelineInv /\ PromptTypes /\ \A c \in Cli : Counted(c)

PromptInv == ClientInv /\ FramesInOrder /\ \A c \in Cli : OneAtATime(c)

-----------------------------------------------------------------------------
(* What a step leaves alone.                                                *)

\* Multiples of a number are ordered as what they are multiples of.
LEMMA Times ==
  ASSUME NEW a \in Nat \ {0}, NEW x \in Nat, NEW y \in Nat
  PROVE  /\ a * x \in Nat /\ a * (x + 1) = a * x + a
         /\ a * x <= a * y => x <= y
<1>1. a * x \in Nat /\ a * y \in Nat /\ a * (x + 1) = a * x + a
  OBVIOUS
<1>2. ASSUME x > y
      PROVE  a * x > a * y
  <2>1. PICK d \in Nat : x = y + (d + 1)
    <3>1. x - y - 1 \in Nat /\ x = y + ((x - y - 1) + 1)
      BY <1>2
    <3>2. QED BY <3>1
  <2>2. a * x = a * y + (a * d + a) /\ a * d \in Nat
    BY <2>1
  <2>3. QED BY <1>1, <2>2
<1>3. QED BY <1>1, <1>2

\* The server sends nothing for a client, and only its writer fills sockets.
LEMMA ActsKeep ==
  ASSUME ServerTypeOK, ServerActs
  PROVE  /\ sent' = sent
         /\ WriteAnswer \/ UNCHANGED <<unread, answers>>
<1> USE DEF clientVars, handlerVars, brokerVars, answerVars
<1>1. ASSUME NEW c \in Conn, ReadBody(c)
      PROVE  UNCHANGED <<sent, unread, answers>>
  BY <1>1 DEF ReadBody
<1>2. ASSUME NEW c \in Conn, ReadHeader(c)
      PROVE  UNCHANGED <<sent, unread, answers>>
  BY <1>2 DEF ReadHeader
<1>3. ASSUME NEW c \in Conn, SendCommand(c)
      PROVE  UNCHANGED <<sent, unread, answers>>
  BY <1>3 DEF SendCommand
<1>4. ASSUME NEW c \in Conn, Accept(c) \/ InsertPeer(c) \/ RemovePeer(c) \/ Arrive(c)
      PROVE  UNCHANGED <<sent, unread, answers>>
  BY <1>4 DEF Accept, InsertPeer, RemovePeer, Arrive
<1>5. CASE BrokerTakes \/ BrokerAnswers \/ BrokerPanics
  BY <1>5 DEF BrokerTakes, BrokerAnswers, BrokerPanics
<1>6. CASE WriteAnswer
  BY <1>6 DEF WriteAnswer
<1>7. QED BY <1>1, <1>2, <1>3, <1>4, <1>5, <1>6 DEF ServerActs, Handle

\* A client that is no command line leaves the other connections alone.
LEMMA OthersKeep ==
  ASSUME ServerTypeOK, NEW c \in Conn, NEW d \in Conn, c # d, ClientActs(d)
  PROVE  sent'[c] = sent[c] /\ unread'[c] = unread[c] /\ answers' = answers
<1> USE DEF clientVars, handlerVars, brokerVars, answerVars
<1>1. sent \in [Conn -> Seq(Message)] /\ unread \in [Conn -> 0 .. SocketRoom]
  BY DEF ServerTypeOK
<1>2. CASE ClientSends(d)
  BY <1>1, <1>2 DEF ClientSends, Send
<1>3. CASE ClientReads(d)
  BY <1>1, <1>3 DEF ClientReads
<1>4. CASE ClientShuts(d) \/ ClientResets(d)
  BY <1>1, <1>4 DEF ClientShuts, ClientResets
<1>5. QED BY <1>2, <1>3, <1>4 DEF ClientActs

\* The writer adds one answer to a socket, or no more than the bytes of one.
LEMMA WriteCounts ==
  ASSUME ServerTypeOK, WriteAnswer, NEW c \in Conn
  PROVE  \/ unread'[c] = unread[c] /\ answers'[c] = answers[c]
         \/ /\ Len(answers'[c]) = Len(answers[c]) + 1
            /\ \E n \in 0 .. AnswerSize : unread'[c] = unread[c] + n
<1> DEFINE d == Head(responses).conn
<1>1. answers \in [Conn -> Seq(Answer)] /\ unread \in [Conn -> 0 .. SocketRoom]
  BY DEF ServerTypeOK
<1>2. CASE d \notin peers \/ c # d
  BY <1>1, <1>2 DEF WriteAnswer
<1>3. CASE d \in peers /\ c = d
  <2>1. PICK n \in Written(c) :
          /\ unread' = [unread EXCEPT ![c] = @ + n]
          /\ answers' = [answers EXCEPT ![c] =
               Append(@, [n |-> Head(responses).n, whole |-> n = AnswerSize])]
    BY <1>3 DEF WriteAnswer
  <2>2. n \in 0 .. AnswerSize
    <3>1. unread[c] \in 0 .. SocketRoom /\ SocketRoom \in Nat /\ AnswerSize \in Nat
      BY <1>1, ServerAssumption
    <3>2. QED BY <3>1 DEF Written
  <2>3. unread'[c] = unread[c] + n
    BY <1>1, <2>1
  <2>4. Len(answers'[c]) = Len(answers[c]) + 1
    BY <1>1, <2>1
  <2>5. QED BY <2>2, <2>3, <2>4
<1>4. QED BY <1>2, <1>3

\* To the server, a command line client is a client like any other.
LEMMA ClientMoves ==
  ASSUME ServerTypeOK, PromptTypes, [ClientNext]_clientServerVars
  PROVE  ServerMoves
<1>0. Cli \subseteq Conn
  BY ClientAssumption
<1>1. ASSUME NEW c \in Cli, UserActs(c)
      PROVE  ServerMoves
  <2>1. CASE Killed(c)
    BY <1>0, <2>1 DEF Killed, ServerMoves
  <2>2. CASE \E m \in Message : Ask(c, m)
    BY <2>2 DEF Ask, ServerMoves
  <2>3. CASE Mistype(c) \/ SayQuit(c)
    BY <2>3 DEF Mistype, SayQuit, ServerMoves
  <2>4. QED BY <1>1, <2>1, <2>2, <2>3 DEF UserActs
<1>2. ASSUME NEW c \in Cli, TasksAct(c)
      PROVE  ServerMoves
  <2>1. ASSUME NEW n, NEW next, ReadPiece(c, n, next), n \in Nat
        PROVE  ServerMoves
    <3>1. PICK k \in Sizes(c, n) : unread' = [unread EXCEPT ![c] = @ - k]
      BY <2>1 DEF ReadPiece
    <3>2. unread[c] \in Nat
      BY <1>0, ServerAssumption DEF ServerTypeOK
    <3>3. k \in 0 .. unread[c]
      BY <2>1, <3>2 DEF Sizes
    <3>4. unread[c] - k \in 0 .. unread[c]
      BY <3>2, <3>3
    <3>5. Reads(c)
      BY <2>1, <3>1, <3>4 DEF Reads, ReadPiece
    <3>6. QED BY <1>0, <3>5 DEF ServerMoves
  <2>2. CASE ReadAnswer(c)
    <3>1. 2 \in Nat /\ AnswerSize - 2 \in Nat
      BY ServerAssumption, ClientAssumption
    <3>2. QED BY <2>1, <2>2, <3>1 DEF ReadAnswer
  <2>3. CASE Show(c) \/ Exit(c) \/ ReaderStarts(c) \/ ReaderEnds(c)
    BY <2>3 DEF Show, Exit, ReaderStarts, ReaderEnds, ServerMoves
  <2>4. QED BY <1>2, <2>2, <2>3 DEF TasksAct
<1>3. ASSUME NEW c \in Cli, WriterTakes(c)
      PROVE  ServerMoves
  <2>1. outbox[c] \in Seq(Message \cup {Quit}) /\ outbox[c] # <<>>
    BY <1>3 DEF PromptTypes, WriterTakes
  <2>2. Head(outbox[c]) \in Message \cup {Quit}
    BY <2>1, HeadTailProperties
  <2>3. CASE Head(outbox[c]) = Quit
    BY <1>0, <1>3, <2>3 DEF WriterTakes, ServerMoves
  <2>4. CASE Head(outbox[c]) # Quit
    <3>1. Sends(c, Head(outbox[c]))
      BY <1>3, <2>4 DEF WriterTakes, Connected, Sends
    <3>2. QED BY <1>0, <2>2, <2>4, <3>1 DEF ServerMoves
  <2>5. QED BY <2>3, <2>4
<1>4. ASSUME NEW c \in Conn, ClientActs(c)
      PROVE  ServerMoves
  <2>1. ServerNext
    BY <1>4 DEF ServerNext
  <2>2. QED BY <2>1, StepMoves
<1>5. CASE UNCHANGED clientServerVars
  BY <1>5 DEF clientServerVars, ServerMoves
<1>6. QED BY <1>1, <1>2, <1>3, <1>4, <1>5 DEF ClientNext, ServerMoves

\* A command line client leaves the others alone.
LEMMA Elsewhere ==
  ASSUME ServerTypeOK, PromptTypes, NEW c \in Cli, NEW d \in Cli, c # d,
         UserActs(d) \/ TasksAct(d) \/ WriterTakes(d)
  PROVE  /\ sent'[c] = sent[c] /\ unread'[c] = unread[c] /\ answers' = answers
         /\ prompt'[c] = prompt[c] /\ outbox'[c] = outbox[c] /\ inbox'[c] = inbox[c]
         /\ reader'[c] = reader[c] /\ shown'[c] = shown[c]
<1> USE DEF serverVars, clientVars, handlerVars, brokerVars, answerVars
<1>0. c \in Conn /\ d \in Conn
  BY ClientAssumption
<1>1. /\ sent \in [Conn -> Seq(Message)] /\ unread \in [Conn -> 0 .. SocketRoom]
      /\ prompt \in [Cli -> {"ready", "waiting", "leaving", "gone"}]
      /\ outbox \in [Cli -> Seq(Message \cup {Quit})]
      /\ inbox \in [Cli -> Seq(Nat)]
      /\ reader \in [Cli -> {"new", "header", "body", "lost", "dead"}]
      /\ shown \in [Cli -> Seq(Nat)]
  BY DEF ServerTypeOK, PromptTypes
<1>2. CASE \E m \in Message : Ask(d, m)
  BY <1>1, <1>2 DEF Ask
<1>3. CASE Mistype(d) \/ SayQuit(d)
  BY <1>1, <1>3 DEF Mistype, SayQuit
<1>4. CASE Killed(d)
  BY <1>1, <1>4 DEF Killed, ClientShuts, ClientResets
<1>5. CASE Show(d) \/ Exit(d)
  BY <1>1, <1>5 DEF Show, Exit
<1>6. CASE ReaderStarts(d) \/ ReaderEnds(d)
  BY <1>1, <1>6 DEF ReaderStarts, ReaderEnds
<1>7. CASE ReadAnswer(d)
  <2>1. ASSUME NEW n, NEW next, ReadPiece(d, n, next)
        PROVE  /\ sent'[c] = sent[c] /\ unread'[c] = unread[c] /\ answers' = answers
               /\ prompt'[c] = prompt[c] /\ outbox'[c] = outbox[c] /\ inbox'[c] = inbox[c]
               /\ reader'[c] = reader[c] /\ shown'[c] = shown[c]
    BY <1>0, <1>1, <2>1 DEF ReadPiece
  <2>2. QED BY <1>7, <2>1 DEF ReadAnswer
<1>8. CASE WriterTakes(d)
  <2>1. sent'[c] = sent[c] /\ unread' = unread /\ answers' = answers
    <3>1. CASE Head(outbox[d]) = Quit
      BY <1>8, <3>1 DEF WriterTakes, ClientShuts
    <3>2. CASE Head(outbox[d]) # Quit
      BY <1>0, <1>1, <1>8, <3>2 DEF WriterTakes, Send
    <3>3. QED BY <3>1, <3>2
  <2>2. QED BY <1>1, <1>8, <2>1 DEF WriterTakes
<1>9. QED BY <1>2, <1>3, <1>4, <1>5, <1>6, <1>7, <1>8 DEF UserActs, TasksAct

-----------------------------------------------------------------------------
(* The reader and the answers.                                              *)

\* The answers received are those shown and those in the channel.
LEMMA ReceivedType ==
  ASSUME NEW c \in Cli, PromptTypes
  PROVE  /\ Received(c) \in Nat /\ Len(shown[c]) \in Nat /\ Len(inbox[c]) \in Nat
         /\ Received(c) = Len(shown[c]) + Len(inbox[c])
<1> DEFINE s == Len(shown[c])
           i == Len(inbox[c])
<1>1. s \in Nat /\ i \in Nat
  <2>1. shown[c] \in Seq(Nat) /\ inbox[c] \in Seq(Nat)
    BY DEF PromptTypes
  <2>2. QED BY <2>1
<1>2. Received(c) = s + i
  BY DEF Received
<1> HIDE DEF s, i
<1>3. Received(c) \in Nat
  BY <1>1, <1>2
<1>4. QED BY <1>1, <1>2, <1>3 DEF s, i

\* A read of the reader is one of a header or of a body.
LEMMA Pieces ==
  ASSUME NEW c \in Cli, ReadAnswer(c)
  PROVE  \E n \in Nat, next \in {"body", "header"} :
           /\ ReadPiece(c, n, next)
           /\ \/ reader[c] = "header" /\ n = 2 /\ next = "body"
              \/ reader[c] = "body" /\ n = AnswerSize - 2 /\ next = "header"
<1>1. 2 \in Nat /\ AnswerSize - 2 \in Nat
  BY ServerAssumption, ClientAssumption
<1>2. QED BY <1>1 DEF ReadAnswer

\* A read takes bytes off the socket and leaves the prompt alone.
LEMMA PieceKeeps ==
  ASSUME ServerTypeOK, NEW c \in Cli, NEW n \in Nat, NEW next, ReadPiece(c, n, next)
  PROVE  /\ UNCHANGED <<sent, shown, answers, prompt, outbox>>
         /\ unread'[c] \in Nat
<1>0. c \in Conn /\ unread \in [Conn -> 0 .. SocketRoom] /\ unread[c] \in Nat
  BY ClientAssumption, ServerAssumption DEF ServerTypeOK
<1>1. PICK k \in Sizes(c, n) : unread' = [unread EXCEPT ![c] = @ - k]
  BY DEF ReadPiece
<1>2. k \in 0 .. unread[c]
  BY <1>0 DEF Sizes, ReadPiece
<1>3. unread'[c] = unread[c] - k /\ unread[c] - k \in Nat
  BY <1>0, <1>1, <1>2
<1>4. QED BY <1>3 DEF ReadPiece, clientVars

\* A read is short and ends the reading, or gets a header, or completes the next
\* answer that was written: the numbers of the answers are those of their places.
LEMMA Piece ==
  ASSUME ServerTypeOK, PromptTypes, AnswersNumbered, NEW c \in Cli, Counted(c),
         NEW n \in Nat, NEW next, ReadPiece(c, n, next),
         \/ reader[c] = "header" /\ n = 2 /\ next = "body"
         \/ reader[c] = "body" /\ n = AnswerSize - 2 /\ next = "header"
  PROVE  \/ /\ reader' = [reader EXCEPT ![c] = "lost"] /\ inbox' = inbox
            /\ \E k \in Nat : unread[c] = unread'[c] + k
         \/ /\ reader[c] = "header" /\ reader' = [reader EXCEPT ![c] = "body"]
            /\ inbox' = inbox /\ unread[c] = unread'[c] + 2
         \/ /\ reader[c] = "body" /\ reader' = [reader EXCEPT ![c] = "header"]
            /\ inbox' = [inbox EXCEPT ![c] = Append(@, Received(c) + 1)]
            /\ unread[c] = unread'[c] + (AnswerSize - 2)
<1>0. /\ c \in Conn /\ unread \in [Conn -> 0 .. SocketRoom] /\ SocketRoom \in Nat
      /\ unread[c] \in Nat /\ answers[c] \in Seq(Answer) /\ inbox[c] \in Seq(Nat)
      /\ shown[c] \in Seq(Nat)
  BY ClientAssumption, ServerAssumption DEF ServerTypeOK, PromptTypes
<1>1. PICK k \in Sizes(c, n) :
        /\ unread' = [unread EXCEPT ![c] = @ - k]
        /\ reader' = [reader EXCEPT ![c] = IF k = n THEN next ELSE "lost"]
        /\ inbox' = IF k = n /\ next = "header"
                    THEN [inbox EXCEPT ![c] =
                            Append(@, answers[c][Len(shown[c]) + Len(@) + 1].n)]
                    ELSE inbox
  BY DEF ReadPiece
<1>2. k \in 0 .. unread[c]
  BY <1>0 DEF Sizes, ReadPiece
<1>3. unread'[c] = unread[c] - k /\ k \in Nat /\ k <= unread[c]
  BY <1>0, <1>1, <1>2
<1>4. unread[c] = unread'[c] + k
  BY <1>0, <1>3
<1>5. CASE k # n
  BY <1>1, <1>3, <1>4, <1>5
<1>6. CASE k = n /\ next = "body"
  BY <1>1, <1>4, <1>6
<1>7. CASE k = n /\ next = "header"
  <2>1. reader[c] = "body" /\ n = AnswerSize - 2
    BY <1>7
  <2> DEFINE r == Received(c)
             l == Len(answers[c])
             u == unread[c]
  <2>2. r \in Nat /\ l \in Nat /\ Received(c) = Len(shown[c]) + Len(inbox[c])
    <3>1. Len(answers[c]) \in Nat
      BY <1>0
    <3>2. QED BY <3>1, ReceivedType
  <2>3. u + (AnswerSize * r + 2) <= AnswerSize * l
    BY <2>1 DEF Counted, BytesRead
  <2>4. u \in Nat /\ AnswerSize - 2 <= u /\ AnswerSize \in Nat \ {0}
    BY <1>0, <1>3, <1>7, <2>1, ServerAssumption
  <2> HIDE DEF r, l, u
  <2>5. AnswerSize * (r + 1) = AnswerSize * r + AnswerSize /\ AnswerSize * r \in Nat
        /\ AnswerSize * (r + 1) \in Nat
    BY <2>2, <2>4, Times
  <2>6. AnswerSize * l \in Nat
    BY <2>2, <2>4, Times
  <2>7. AnswerSize * (r + 1) <= AnswerSize * l
    BY <2>3, <2>4, <2>5, <2>6
  <2>8. r + 1 <= l
    <3>1. r + 1 \in Nat
      BY <2>2
    <3>2. QED BY <2>2, <2>4, <2>7, <3>1, Times
  <2>9. r + 1 \in 1 .. l
    BY <2>2, <2>8
  <2>10. answers[c][Received(c) + 1].n = Received(c) + 1
    BY <1>0, <2>9 DEF AnswersNumbered, r, l
  <2>11. inbox' = [inbox EXCEPT ![c] = Append(@, Received(c) + 1)]
    BY <1>1, <1>7, <2>2, <2>10
  <2>12. QED BY <1>1, <1>4, <1>7, <2>1, <2>11
<1>8. QED BY <1>5, <1>6, <1>7

\* No more answers were received than were written.
LEMMA Counts ==
  ASSUME ServerTypeOK, PromptTypes, NEW c \in Cli, Counted(c)
  PROVE  Received(c) \in Nat /\ Received(c) <= Len(answers[c])
<1>0. /\ c \in Conn /\ unread[c] \in 0 .. SocketRoom /\ SocketRoom \in Nat
      /\ answers[c] \in Seq(Answer) /\ inbox[c] \in Seq(Nat)
      /\ shown[c] \in Seq(Nat)
  BY ClientAssumption, ServerAssumption DEF ServerTypeOK, PromptTypes
<1> DEFINE r == Received(c)
           l == Len(answers[c])
           u == unread[c]
<1>1. r \in Nat /\ l \in Nat
  <2>1. Len(answers[c]) \in Nat
    BY <1>0
  <2>2. QED BY <2>1, ReceivedType
<1>2. \E z \in {0, 2} : u + (AnswerSize * r + z) <= AnswerSize * l
  BY DEF Counted, BytesRead
<1>3. u \in Nat /\ AnswerSize \in Nat \ {0}
  BY <1>0, ServerAssumption
<1> HIDE DEF r, l, u
<1>4. AnswerSize * r \in Nat /\ AnswerSize * l \in Nat
  BY <1>1, <1>3, Times
<1>5. AnswerSize * r <= AnswerSize * l
  BY <1>2, <1>3, <1>4
<1>6. r <= l
  BY <1>1, <1>3, <1>5, Times
<1>7. QED BY <1>1, <1>6 DEF r, l

\* The steps of a command line client keep its own count.
LEMMA CountedClient ==
  ASSUME ServerTypeOK, PromptTypes, AnswersNumbered, NEW c \in Cli, Counted(c),
         UserActs(c) \/ TasksAct(c) \/ WriterTakes(c)
  PROVE  Counted(c)'
<1> USE DEF serverVars, clientVars, handlerVars, brokerVars, answerVars
<1>0. /\ c \in Conn /\ AnswerSize \in Nat \ {0} /\ SocketRoom \in Nat
      /\ unread \in [Conn -> 0 .. SocketRoom] /\ answers[c] \in Seq(Answer)
      /\ inbox \in [Cli -> Seq(Nat)] /\ shown \in [Cli -> Seq(Nat)]
      /\ reader \in [Cli -> {"new", "header", "body", "lost", "dead"}]
      /\ unread[c] \in Nat
  BY ClientAssumption, ServerAssumption DEF ServerTypeOK, PromptTypes
<1> DEFINE r == Received(c)
           l == Len(answers[c])
           u == unread[c]
           s == Len(shown[c])
           i == Len(inbox[c])
           z == IF reader[c] = "body" THEN 2 ELSE 0
           x == AnswerSize * r
           y == AnswerSize * l
<1>1. /\ r \in Nat /\ l \in Nat /\ u \in Nat /\ s \in Nat /\ i \in Nat /\ r = s + i
      /\ z \in {0, 2}
  <2>1. Len(shown[c]) \in Nat /\ Len(inbox[c]) \in Nat /\ Len(answers[c]) \in Nat
    BY <1>0
  <2>2. QED BY <1>0, <2>1 DEF Received
<1>2. u + (x + z) <= y
  BY DEF Counted, BytesRead
<1>3. /\ \A k \in 1 .. Len(shown[c]) : shown[c][k] = k
      /\ \A k \in 1 .. Len(inbox[c]) : inbox[c][k] = Len(shown[c]) + k
  BY DEF Counted
<1> HIDE DEF r, l, u, s, i, z
<1>4. x \in Nat /\ y \in Nat /\ AnswerSize * (r + 1) = x + AnswerSize
  BY <1>0, <1>1, Times
<1> HIDE DEF x, y
<1>5. ASSUME UNCHANGED <<shown, inbox, answers>>,
             NEW v \in Nat, v <= u, unread'[c] = v, reader'[c] = "body" => reader[c] = "body"
      PROVE  Counted(c)'
  <2>1. r' = r /\ Received(c)' = r
    BY <1>5 DEF Received, r
  <2>2. BytesRead(c)' = x + IF reader'[c] = "body" THEN 2 ELSE 0
    BY <2>1 DEF BytesRead, x
  <2>3. (IF reader'[c] = "body" THEN 2 ELSE 0) \in {0, z}
    BY <1>5 DEF z
  <2>4. AnswerSize * Len(answers'[c]) = y
    BY <1>5 DEF y, l
  <2> DEFINE w == IF reader'[c] = "body" THEN 2 ELSE 0
  <2> HIDE DEF w
  <2>5. w \in {0, z} /\ w \in {0, 2}
    BY <1>1, <2>3 DEF w
  <2>6. v + (x + w) <= y
    BY <1>1, <1>2, <1>4, <1>5, <2>5
  <2>7. (unread[c] + BytesRead(c))' <= (AnswerSize * Len(answers[c]))'
    BY <1>5, <2>2, <2>4, <2>6 DEF w
  <2>8. QED BY <1>3, <1>5, <2>7 DEF Counted
<1>6. CASE \E m \in Message : Ask(c, m)
  BY <1>1, <1>5, <1>6 DEF Ask, u
<1>7. CASE Mistype(c) \/ SayQuit(c)
  BY <1>1, <1>5, <1>7 DEF Mistype, SayQuit, u
<1>8. CASE Killed(c)
  <2>1. UNCHANGED <<shown, inbox, answers, unread>> /\ reader'[c] = "dead"
    BY <1>0, <1>8 DEF Killed, ClientShuts, ClientResets
  <2>2. QED BY <1>1, <1>5, <2>1 DEF u
<1>9. CASE Exit(c)
  BY <1>1, <1>5, <1>9 DEF Exit, u
<1>10. CASE ReaderStarts(c) \/ ReaderEnds(c)
  <2>1. UNCHANGED <<shown, inbox, answers, unread>> /\ reader'[c] # "body"
    BY <1>0, <1>10 DEF ReaderStarts, ReaderEnds
  <2>2. QED BY <1>1, <1>5, <2>1 DEF u
<1>11. CASE WriterTakes(c)
  <2>1. UNCHANGED <<shown, inbox, answers, unread, reader>>
    BY <1>11 DEF WriterTakes, ClientShuts, Send
  <2>2. QED BY <1>1, <1>5, <2>1 DEF u
<1>12. CASE Show(c)
  <2>1. /\ inbox[c] # <<>> /\ UNCHANGED <<answers, unread, reader>>
        /\ shown'[c] = Append(shown[c], Head(inbox[c])) /\ inbox'[c] = Tail(inbox[c])
    BY <1>0, <1>12 DEF Show
  <2>2. /\ i # 0 /\ Head(inbox[c]) = inbox[c][1]
        /\ Len(shown'[c]) = s + 1 /\ Len(inbox'[c]) = i - 1
        /\ \A k \in 1 .. s : shown'[c][k] = shown[c][k]
        /\ shown'[c][s + 1] = inbox[c][1]
        /\ \A k \in 1 .. i - 1 : inbox'[c][k] = inbox[c][k + 1]
    <3>1. inbox[c] \in Seq(Nat) /\ shown[c] \in Seq(Nat)
      BY <1>0
    <3>2. Len(inbox[c]) # 0 /\ Len(inbox[c]) \in Nat
      BY <2>1, <3>1, EmptySeq
    <3>3. Head(inbox[c]) \in Nat
      BY <2>1, <3>1
    <3>4. /\ Len(Tail(inbox[c])) = Len(inbox[c]) - 1
          /\ \A k \in 1 .. Len(inbox[c]) - 1 : Tail(inbox[c])[k] = inbox[c][k + 1]
      BY <2>1, <3>1, <3>2
    <3>5. QED BY <2>1, <3>1, <3>2, <3>3, <3>4 DEF s, i
  <2>3. \A k \in 1 .. s + 1 : shown'[c][k] = k
    <3>1. inbox[c][1] = s + 1
      <4>1. 1 \in 1 .. i
        BY <1>1, <2>2
      <4>2. QED BY <1>3, <4>1 DEF s, i
    <3>2. \A k \in 1 .. s : shown[c][k] = k
      BY <1>3 DEF s
    <3>3. \A k \in 1 .. s + 1 : k = s + 1 \/ k \in 1 .. s
      BY <1>1
    <3>4. QED BY <2>2, <3>1, <3>2, <3>3
  <2>4. \A k \in 1 .. i - 1 : inbox'[c][k] = (s + 1) + k
    <3>1. \A k \in 1 .. i : inbox[c][k] = s + k
      BY <1>3 DEF s, i
    <3>2. \A k \in 1 .. i - 1 : k + 1 \in 1 .. i /\ s + (k + 1) = (s + 1) + k
      BY <1>1
    <3>3. QED BY <2>2, <3>1, <3>2
  <2>5. (s + 1) + (i - 1) = r
    BY <1>1
  <2>6. Received(c)' = r
    BY <2>2, <2>5 DEF Received
  <2>7. BytesRead(c)' = x + z
    BY <2>1, <2>6 DEF BytesRead, x, z
  <2>8. (unread[c] + BytesRead(c))' <= (AnswerSize * Len(answers[c]))'
    BY <1>2, <2>1, <2>7 DEF u, y, l
  <2>9. QED BY <2>2, <2>3, <2>4, <2>8 DEF Counted
<1>13. CASE ReadAnswer(c)
  <2>1. PICK n \in Nat, next \in {"body", "header"} :
          /\ ReadPiece(c, n, next)
          /\ \/ reader[c] = "header" /\ n = 2 /\ next = "body"
             \/ reader[c] = "body" /\ n = AnswerSize - 2 /\ next = "header"
    BY <1>13, Pieces
  <2>2. UNCHANGED <<shown, answers>> /\ unread'[c] \in Int
    BY <1>0, <2>1, PieceKeeps
  <2> DEFINE v == unread'[c]
  <2>3. CASE /\ reader' = [reader EXCEPT ![c] = "lost"] /\ inbox' = inbox
             /\ \E k \in Nat : unread[c] = unread'[c] + k
    <3>1. v <= u /\ v \in Nat
      BY <1>1, <2>2, <2>3, <2>1, PieceKeeps DEF u
    <3>2. reader'[c] # "body"
      BY <1>0, <2>3
    <3>3. QED BY <1>5, <2>2, <2>3, <3>1, <3>2
  <2>4. CASE /\ reader[c] = "header" /\ reader' = [reader EXCEPT ![c] = "body"]
             /\ inbox' = inbox /\ unread[c] = unread'[c] + 2
    <3>1. z = 0 /\ u = v + 2
      BY <2>4 DEF z, u
    <3>2. Received(c)' = r /\ reader'[c] = "body"
      BY <1>0, <2>2, <2>4 DEF Received, r
    <3>3. BytesRead(c)' = x + 2
      BY <3>2 DEF BytesRead, x
    <3>4. v + (x + 2) <= y
      <4> HIDE DEF v
      <4>1. QED BY <1>2, <1>4, <2>2, <3>1 DEF v
    <3>5. (unread[c] + BytesRead(c))' <= (AnswerSize * Len(answers[c]))'
      BY <2>2, <3>3, <3>4 DEF y, l
    <3>6. QED BY <1>3, <2>2, <2>4, <3>5 DEF Counted
  <2>5. CASE /\ reader[c] = "body" /\ reader' = [reader EXCEPT ![c] = "header"]
             /\ inbox' = [inbox EXCEPT ![c] = Append(@, Received(c) + 1)]
             /\ unread[c] = unread'[c] + (AnswerSize - 2)
    <3>1. z = 2 /\ u = v + (AnswerSize - 2)
      BY <2>5 DEF z, u
    <3>2. /\ inbox'[c] = Append(inbox[c], r + 1) /\ reader'[c] = "header"
      BY <1>0, <2>5 DEF r
    <3>3. /\ Len(inbox'[c]) = i + 1 /\ inbox'[c][i + 1] = r + 1
          /\ \A k \in 1 .. i : inbox'[c][k] = inbox[c][k]
      <4>1. inbox[c] \in Seq(Nat) /\ r + 1 \in Nat
        BY <1>0, <1>1
      <4>2. QED BY <3>2, <4>1 DEF i
    <3>4. s + (i + 1) = r + 1
      BY <1>1
    <3>5. Received(c)' = r + 1
      BY <2>2, <3>3, <3>4 DEF Received, s
    <3>6. BytesRead(c)' = (x + AnswerSize) + 0
      BY <1>4, <3>2, <3>5 DEF BytesRead
    <3>7. v + ((x + AnswerSize) + 0) <= y
      <4> HIDE DEF v
      <4>1. QED BY <1>0, <1>2, <1>4, <2>2, <3>1 DEF v
    <3>8. (unread[c] + BytesRead(c))' <= (AnswerSize * Len(answers[c]))'
      BY <2>2, <3>6, <3>7 DEF y, l
    <3>9. \A k \in 1 .. i + 1 : inbox'[c][k] = s + k
      <4>1. \A k \in 1 .. i + 1 : k = i + 1 \/ k \in 1 .. i
        BY <1>1
      <4>2. \A k \in 1 .. i : inbox[c][k] = s + k
        BY <1>3 DEF s, i
      <4>3. QED BY <3>3, <3>4, <4>1, <4>2
    <3>10. QED BY <1>3, <2>2, <3>3, <3>8, <3>9 DEF Counted, s
  <2>6. QED BY <2>1, <2>3, <2>4, <2>5, Piece
<1>14. QED
  BY <1>6, <1>7, <1>8, <1>9, <1>10, <1>11, <1>12, <1>13 DEF UserActs, TasksAct

\* Every step keeps the types of the client.
LEMMA PromptTypesMove ==
  ASSUME ClientInv, [ClientNext]_clientServerVars
  PROVE  PromptTypes'
<1> USE DEF PromptTypes, serverVars
<1>0. PipelineInv /\ ServerTypeOK /\ AnswersNumbered /\ PromptTypes /\ \A c \in Cli : Counted(c)
  BY DEF ClientInv, PipelineInv
<1>1. ASSUME NEW c \in Cli, NEW m \in Message, Ask(c, m)
      PROVE  PromptTypes'
  <2>1. Append(outbox[c], m) \in Seq(Message \cup {Quit})
    BY <1>0
  <2>2. QED BY <1>0, <1>1, <2>1 DEF Ask
<1>2. ASSUME NEW c \in Cli, Mistype(c) \/ SayQuit(c)
      PROVE  PromptTypes'
  <2>1. Append(outbox[c], Quit) \in Seq(Message \cup {Quit})
    BY <1>0
  <2>2. QED BY <1>0, <1>2, <2>1 DEF Mistype, SayQuit
<1>3. ASSUME NEW c \in Cli, Killed(c)
      PROVE  PromptTypes'
  BY <1>0, <1>3 DEF Killed
<1>4. ASSUME NEW c \in Cli, Show(c)
      PROVE  PromptTypes'
  <2>1. inbox[c] \in Seq(Nat) /\ shown[c] \in Seq(Nat) /\ inbox[c] # <<>>
    BY <1>0, <1>4 DEF Show
  <2>2. Append(shown[c], Head(inbox[c])) \in Seq(Nat) /\ Tail(inbox[c]) \in Seq(Nat)
    BY <2>1
  <2>3. QED BY <1>0, <1>4, <2>2 DEF Show
<1>5. ASSUME NEW c \in Cli, Exit(c) \/ ReaderStarts(c) \/ ReaderEnds(c)
      PROVE  PromptTypes'
  BY <1>0, <1>5 DEF Exit, ReaderStarts, ReaderEnds
<1>6. ASSUME NEW c \in Cli, WriterTakes(c)
      PROVE  PromptTypes'
  <2>1. outbox[c] \in Seq(Message \cup {Quit}) /\ outbox[c] # <<>>
    BY <1>0, <1>6 DEF WriterTakes
  <2>2. Tail(outbox[c]) \in Seq(Message \cup {Quit})
    BY <2>1
  <2>3. QED BY <1>0, <1>6, <2>2 DEF WriterTakes
<1>7. ASSUME NEW c \in Cli, ReadAnswer(c)
      PROVE  PromptTypes'
  <2>1. PICK n \in Nat, next \in {"body", "header"} :
          /\ ReadPiece(c, n, next)
          /\ \/ reader[c] = "header" /\ n = 2 /\ next = "body"
             \/ reader[c] = "body" /\ n = AnswerSize - 2 /\ next = "header"
    BY <1>7, Pieces
  <2>2. UNCHANGED <<prompt, outbox, shown>>
    BY <2>1 DEF ReadPiece
  <2>3. Append(inbox[c], Received(c) + 1) \in Seq(Nat)
    <3> DEFINE r == Received(c)
    <3>1. r \in Nat
      BY <1>0, ReceivedType
    <3> HIDE DEF r
    <3>2. r + 1 \in Nat
      BY <3>1
    <3>3. QED BY <1>0, <3>2 DEF r
  <2>4. \/ /\ reader' = [reader EXCEPT ![c] = "lost"] /\ inbox' = inbox
           /\ \E k \in Nat : unread[c] = unread'[c] + k
        \/ /\ reader[c] = "header" /\ reader' = [reader EXCEPT ![c] = "body"]
           /\ inbox' = inbox /\ unread[c] = unread'[c] + 2
        \/ /\ reader[c] = "body" /\ reader' = [reader EXCEPT ![c] = "header"]
           /\ inbox' = [inbox EXCEPT ![c] = Append(@, Received(c) + 1)]
           /\ unread[c] = unread'[c] + (AnswerSize - 2)
    BY <1>0, <2>1, Piece
  <2>5. reader' \in [Cli -> {"new", "header", "body", "lost", "dead"}]
    BY <1>0, <2>4
  <2>6. inbox' \in [Cli -> Seq(Nat)]
    BY <1>0, <2>3, <2>4
  <2>7. QED BY <1>0, <2>2, <2>5, <2>6
<1>8. CASE UNCHANGED promptVars
  BY <1>0, <1>8 DEF promptVars
<1>9. CASE UNCHANGED clientServerVars
  BY <1>8, <1>9 DEF clientServerVars, promptVars
<1>10. QED
  BY <1>1, <1>2, <1>3, <1>4, <1>5, <1>6, <1>7, <1>8, <1>9 DEF ClientNext, UserActs, TasksAct

\* Every step, of whomever, keeps the count of a client.
LEMMA CountsMove ==
  ASSUME ClientInv, [ClientNext]_clientServerVars, NEW c \in Cli
  PROVE  Counted(c)'
<1>0. /\ PipelineInv /\ ServerTypeOK /\ AnswersNumbered /\ PromptTypes /\ Counted(c)
      /\ c \in Conn /\ Cli \subseteq Conn
  BY ClientAssumption DEF ClientInv, PipelineInv
<1>1. CASE UserActs(c) \/ TasksAct(c) \/ WriterTakes(c)
  BY <1>0, <1>1, CountedClient
<1>2. ASSUME unread'[c] = unread[c], answers'[c] = answers[c], reader'[c] = reader[c],
             inbox'[c] = inbox[c], shown'[c] = shown[c]
      PROVE  Counted(c)'
  BY <1>0, <1>2 DEF Counted, BytesRead, Received
<1>3. ASSUME NEW d \in Cli, d # c, UserActs(d) \/ TasksAct(d) \/ WriterTakes(d)
      PROVE  Counted(c)'
  BY <1>0, <1>2, <1>3, Elsewhere
<1>4. ASSUME NEW d \in Conn \ Cli, ClientActs(d), UNCHANGED promptVars
      PROVE  Counted(c)'
  BY <1>0, <1>2, <1>4, OthersKeep DEF promptVars
<1>5. CASE ServerActs /\ UNCHANGED promptVars
  <2>1. CASE unread'[c] = unread[c] /\ answers'[c] = answers[c]
    BY <1>2, <1>5, <2>1 DEF promptVars
  <2>2. CASE Len(answers'[c]) = Len(answers[c]) + 1
             /\ \E n \in 0 .. AnswerSize : unread'[c] = unread[c] + n
    <3> DEFINE l == Len(answers[c])
               b == BytesRead(c)
               u == unread[c]
    <3>1. PICK n \in 0 .. AnswerSize : unread'[c] = u + n
      BY <2>2
    <3>2. u \in Nat /\ AnswerSize \in Nat \ {0} /\ l \in Nat /\ b \in Nat
      <4>1. unread[c] \in 0 .. SocketRoom /\ SocketRoom \in Nat /\ answers[c] \in Seq(Answer)
        BY <1>0, ServerAssumption DEF ServerTypeOK
      <4>2. AnswerSize \in Nat \ {0} /\ Received(c) \in Nat
        BY <1>0, ServerAssumption, Counts
      <4>3. AnswerSize * Received(c) \in Nat
        BY <4>2, Times
      <4>4. b \in Nat
        BY <4>3 DEF BytesRead
      <4>5. QED BY <4>1, <4>2, <4>4
    <3>3. u + b <= AnswerSize * l
      BY <1>0 DEF Counted
    <3>4. BytesRead(c)' = b
      BY <1>5 DEF BytesRead, Received, promptVars
    <3> HIDE DEF l, b, u
    <3>5. AnswerSize * l \in Nat /\ AnswerSize * (l + 1) = AnswerSize * l + AnswerSize
      BY <3>2, Times
    <3>6. (u + n) + b <= AnswerSize * (l + 1)
      BY <3>2, <3>3, <3>5
    <3>7. (unread[c] + BytesRead(c))' <= (AnswerSize * Len(answers[c]))'
      BY <2>2, <3>1, <3>4, <3>6 DEF l
    <3>8. QED BY <1>0, <1>5, <3>7 DEF Counted, promptVars
  <2>3. QED
    BY <1>0, <1>5, <2>1, <2>2, ActsKeep, WriteCounts
<1>6. CASE UNCHANGED clientServerVars
  BY <1>2, <1>6 DEF clientServerVars, promptVars, serverVars, answerVars
<1>7. QED BY <1>1, <1>3, <1>4, <1>5, <1>6 DEF ClientNext

\* The invariant holds before the first command.
LEMMA ClientStarts == ClientInit => ClientInv
<1> SUFFICES ASSUME ClientInit
             PROVE  ClientInv
  OBVIOUS
<1>1. PipelineInv /\ ServerInit /\ Cli \subseteq Conn
  BY PipelineStarts, ClientAssumption DEF ClientInit
<1>2. /\ <<>> \in Seq(Nat) /\ <<>> \in Seq(Message \cup {Quit}) /\ Len(<<>>) = 0
  OBVIOUS
<1>3. PromptTypes
  BY <1>2 DEF ClientInit, PromptTypes
<1>4. ASSUME NEW c \in Cli
      PROVE  Counted(c)
  <2>1. /\ unread[c] = 0 /\ answers[c] = <<>> /\ inbox[c] = <<>> /\ shown[c] = <<>>
        /\ reader[c] = "new"
    BY <1>1 DEF ClientInit, ServerInit
  <2>2. Received(c) = 0
    BY <1>2, <2>1 DEF Received
  <2>3. AnswerSize \in Nat /\ AnswerSize * 0 = 0
    BY ServerAssumption
  <2>4. BytesRead(c) = 0
    BY <2>1, <2>2, <2>3 DEF BytesRead
  <2>5. unread[c] + BytesRead(c) <= AnswerSize * Len(answers[c])
    BY <1>2, <2>1, <2>3, <2>4
  <2>6. 1 .. Len(shown[c]) = {} /\ 1 .. Len(inbox[c]) = {}
    BY <1>2, <2>1
  <2>7. QED BY <2>5, <2>6 DEF Counted
<1>5. QED BY <1>1, <1>3, <1>4 DEF ClientInv

\* Every step keeps the invariant.
LEMMA ClientMove == ClientInv /\ [ClientNext]_clientServerVars => ClientInv'
<1> SUFFICES ASSUME ClientInv, [ClientNext]_clientServerVars
             PROVE  ClientInv'
  OBVIOUS
<1>1. PipelineInv'
  BY ClientMoves, PipelineMove DEF ClientInv, PipelineInv
<1>2. PromptTypes' /\ \A c \in Cli : Counted(c)'
  BY PromptTypesMove, CountsMove
<1>3. QED BY <1>1, <1>2 DEF ClientInv

\* The invariant says what the runs check.
LEMMA ClientGives ==
  ASSUME ClientInv
  PROVE  ShownInOrder
<1> SUFFICES ASSUME NEW c \in Cli, NEW i \in DOMAIN shown[c]
             PROVE  shown[c][i] = i
  BY DEF ShownInOrder
<1>1. shown[c] \in Seq(Nat) /\ Counted(c)
  BY DEF ClientInv, PromptTypes
<1>2. i \in 1 .. Len(shown[c])
  BY <1>1
<1>3. QED BY <1>1, <1>2 DEF Counted

\* The inductive invariant, in every state of the server and its clients.
THEOREM ClientPrompt == ClientFairSpec => []ClientInv
<1>1. QED BY ClientStarts, ClientMove, PTL DEF ClientFairSpec

\* Each response that a prompt shows (main.rs) answers the command before it, with
\* any number of clients, sizes of queues and sockets, and fragments of frames.
THEOREM ClientShows == ClientFairSpec => []ShownInOrder
BY ClientGives, ClientPrompt, PTL

-----------------------------------------------------------------------------
(* The two channels of the client, when frames arrive in one piece.         *)

\* What a client received it had asked for.
LEMMA Behind ==
  ASSUME ClientInv, FramesInOrder, NEW c \in Cli
  PROVE  /\ Len(sent[c]) \in Nat /\ Len(shown[c]) \in Nat /\ Len(inbox[c]) \in Nat
         /\ Len(outbox[c]) \in Nat
         /\ Len(shown[c]) + Len(inbox[c]) <= Len(sent[c])
<1>0. /\ ServerTypeOK /\ AnswersNumbered /\ PromptTypes /\ Counted(c) /\ Framed(c)
      /\ c \in Conn
  BY ClientAssumption DEF ClientInv, PipelineInv, FramesInOrder
<1> DEFINE r == Received(c)
           a == Len(answers[c])
           h == handled[c]
           p == Len(parsed[c])
           n == Len(sent[c])
<1>1. a \in Nat /\ h \in Nat /\ p \in Nat /\ n \in Nat /\ Len(outbox[c]) \in Nat
  <2>1. /\ answers[c] \in Seq(Answer) /\ handled[c] \in Nat /\ parsed[c] \in Seq(Seq(Bytes))
        /\ sent[c] \in Seq(Message) /\ outbox[c] \in Seq(Message \cup {Quit})
    BY <1>0 DEF ServerTypeOK, PromptTypes
  <2>2. QED BY <2>1
<1>2. r \in Nat /\ r <= a
  BY <1>0, Counts
<1>3. a <= h /\ h <= p
  BY <1>0 DEF AnswersNumbered
<1>4. p <= n
  BY <1>0 DEF Framed
<1> HIDE DEF r, a, h, p, n
<1>5. r <= n
  BY <1>1, <1>2, <1>3, <1>4
<1>6. QED BY <1>0, <1>1, <1>5, ReceivedType DEF r, n

\* Every step keeps the prompt to one request at a time.
LEMMA OneMove ==
  ASSUME ClientInv, FramesInOrder, [ClientNext]_clientServerVars, NEW c \in Cli, OneAtATime(c)
  PROVE  OneAtATime(c)'
<1> USE DEF serverVars, clientVars, handlerVars, brokerVars, answerVars
<1>0. /\ ServerTypeOK /\ PromptTypes /\ c \in Conn /\ Cli \subseteq Conn
      /\ sent \in [Conn -> Seq(Message)]
      /\ prompt \in [Cli -> {"ready", "waiting", "leaving", "gone"}]
      /\ outbox \in [Cli -> Seq(Message \cup {Quit})]
      /\ inbox \in [Cli -> Seq(Nat)] /\ shown \in [Cli -> Seq(Nat)]
  BY ClientAssumption DEF ClientInv, PipelineInv, PromptTypes, ServerTypeOK
<1> DEFINE n == Len(sent[c])
           s == Len(shown[c])
           i == Len(inbox[c])
           o == Len(outbox[c])
<1>1. n \in Nat /\ s \in Nat /\ i \in Nat /\ o \in Nat /\ s + i <= n
  BY Behind
<1>2. /\ o <= 1 /\ n <= s + 1
      /\ prompt[c] = "ready" => o = 0 /\ n <= s
      /\ prompt[c] = "waiting" => n + o <= s + 1
      /\ prompt[c] = "leaving" => n <= s /\ \A k \in 1 .. o : outbox[c][k] = Quit
  BY DEF OneAtATime
<1>3. /\ outbox[c] \in Seq(Message \cup {Quit}) /\ inbox[c] \in Seq(Nat)
      /\ shown[c] \in Seq(Nat) /\ sent[c] \in Seq(Message)
  BY <1>0
<1> HIDE DEF n, s, i, o
<1>4. ASSUME sent'[c] = sent[c], outbox'[c] = outbox[c], shown'[c] = shown[c],
             prompt'[c] \in {prompt[c], "gone"}
      PROVE  OneAtATime(c)'
  BY <1>4 DEF OneAtATime
<1>5. ASSUME NEW m, m \in Message \cup {Quit}, prompt[c] = "ready",
             sent'[c] = sent[c], outbox'[c] = Append(outbox[c], m), shown'[c] = shown[c],
             prompt'[c] = IF m = Quit THEN "leaving" ELSE "waiting"
      PROVE  OneAtATime(c)'
  <2>1. Len(outbox'[c]) = o + 1 /\ outbox'[c][o + 1] = m
    BY <1>3, <1>5 DEF o
  <2>2. o = 0 /\ n <= s
    BY <1>2, <1>5
  <2>3. Len(outbox'[c]) = 1 /\ outbox'[c][1] = m
    BY <2>1, <2>2
  <2>4. 1 <= 1 /\ n <= s + 1 /\ n + 1 <= s + 1 /\ \A k \in 1 .. 1 : k = 1
    BY <1>1, <2>2
  <2>5. CASE m = Quit
    BY <1>5, <2>2, <2>3, <2>4, <2>5 DEF OneAtATime, n, s
  <2>6. CASE m # Quit
    BY <1>5, <2>3, <2>4, <2>6 DEF OneAtATime, n, s
  <2>7. QED BY <2>5, <2>6
<1>6. CASE \E m \in Message : Ask(c, m)
  <2>1. PICK m \in Message : Ask(c, m)
    BY <1>6
  <2>2. m # Quit /\ m \in Message \cup {Quit}
    BY ClientAssumption
  <2>3. QED BY <1>0, <1>5, <2>1, <2>2 DEF Ask
<1>7. CASE SayQuit(c)
  BY <1>0, <1>5, <1>7 DEF SayQuit
<1>8. CASE Mistype(c)
  <2>1. /\ prompt[c] = "ready" /\ sent' = sent /\ outbox' = outbox /\ shown' = shown
        /\ prompt'[c] = "waiting"
    BY <1>0, <1>8 DEF Mistype
  <2>2. n + o <= s + 1
    BY <1>1, <1>2, <2>1
  <2>3. QED BY <1>2, <2>1, <2>2 DEF OneAtATime, n, o, s
<1>9. CASE Killed(c)
  <2>1. sent' = sent /\ outbox' = outbox /\ shown' = shown /\ prompt'[c] = "gone"
    BY <1>0, <1>9 DEF Killed, ClientShuts, ClientResets
  <2>2. QED BY <1>4, <2>1
<1>10. CASE Show(c)
  <2>1. /\ prompt[c] = "waiting" /\ inbox[c] # <<>> /\ sent' = sent /\ outbox' = outbox
        /\ shown'[c] = Append(shown[c], Head(inbox[c])) /\ prompt'[c] = "ready"
    BY <1>0, <1>10 DEF Show
  <2>2. Len(shown'[c]) = s + 1
    <3>1. Head(inbox[c]) \in Nat
      BY <1>3, <2>1
    <3>2. QED BY <1>3, <2>1, <3>1 DEF s
  <2>3. i # 0
    BY <1>3, <2>1, EmptySeq DEF i
  <2>4. o = 0 /\ n <= s + 1 /\ n <= (s + 1) + 1
    BY <1>1, <1>2, <2>1, <2>3
  <2>5. QED BY <2>1, <2>2, <2>4 DEF OneAtATime, n, o
<1>11. CASE Exit(c)
  BY <1>0, <1>4, <1>11 DEF Exit
<1>12. CASE ReaderStarts(c) \/ ReaderEnds(c)
  BY <1>4, <1>12 DEF ReaderStarts, ReaderEnds
<1>13. CASE ReadAnswer(c)
  <2>1. UNCHANGED <<sent, shown, prompt, outbox>>
    <3>1. ASSUME NEW k, NEW next, ReadPiece(c, k, next)
          PROVE  UNCHANGED <<sent, shown, prompt, outbox>>
      BY <3>1 DEF ReadPiece
    <3>2. QED BY <1>13, <3>1 DEF ReadAnswer
  <2>2. QED BY <1>4, <2>1
<1>14. CASE WriterTakes(c)
  <2>1. /\ prompt[c] # "gone" /\ outbox[c] # <<>> /\ outbox'[c] = Tail(outbox[c])
        /\ prompt' = prompt /\ shown' = shown
    BY <1>0, <1>14 DEF WriterTakes, Connected
  <2>2. o # 0
    BY <1>3, <2>1, EmptySeq DEF o
  <2>3. o = 1
    BY <1>1, <1>2, <2>2
  <2>4. Len(outbox'[c]) = 0
    <3>1. Len(Tail(outbox[c])) = Len(outbox[c]) - 1
      BY <1>3, <2>1
    <3>2. QED BY <2>1, <2>3, <3>1 DEF o
  <2>5. CASE Head(outbox[c]) = Quit
    <3>1. sent' = sent
      BY <1>14, <2>5 DEF WriterTakes, ClientShuts
    <3>2. prompt[c] = "waiting" => n + 0 <= s + 1
      BY <1>1, <1>2
    <3>3. 1 .. 0 = {} /\ 0 <= 1
      OBVIOUS
    <3>4. QED BY <1>2, <2>1, <2>4, <3>1, <3>2, <3>3 DEF OneAtATime, n, s
  <2>6. CASE Head(outbox[c]) # Quit
    <3>1. sent'[c] = Append(sent[c], Head(outbox[c]))
      BY <1>0, <1>14, <2>6 DEF WriterTakes, Send
    <3>2. Head(outbox[c]) = outbox[c][1] /\ Head(outbox[c]) \in Message \cup {Quit}
      BY <1>3, <2>1
    <3>3. Len(sent'[c]) = n + 1
      BY <1>3, <2>6, <3>1, <3>2 DEF n
    <3>4. prompt[c] = "waiting"
      <4>1. prompt[c] # "ready"
        BY <1>2, <2>3
      <4>2. prompt[c] # "leaving"
        <5>1. 1 \in 1 .. o
          BY <2>3
        <5>2. QED BY <1>2, <2>6, <3>2, <5>1
      <4>3. QED BY <1>0, <2>1, <4>1, <4>2
    <3>5. n + 1 <= s + 1 /\ (n + 1) + 0 <= s + 1 /\ 0 <= 1
      BY <1>1, <1>2, <2>3, <3>4
    <3>6. QED BY <2>1, <2>4, <3>3, <3>4, <3>5 DEF OneAtATime, s
  <2>7. QED BY <2>5, <2>6
<1>15. ASSUME NEW d \in Cli, d # c, UserActs(d) \/ TasksAct(d) \/ WriterTakes(d)
       PROVE  OneAtATime(c)'
  BY <1>0, <1>4, <1>15, Elsewhere
<1>16. ASSUME NEW d \in Conn \ Cli, ClientActs(d), UNCHANGED promptVars
       PROVE  OneAtATime(c)'
  BY <1>0, <1>4, <1>16, OthersKeep DEF promptVars
<1>17. CASE ServerActs /\ UNCHANGED promptVars
  BY <1>0, <1>4, <1>17, ActsKeep DEF promptVars
<1>18. CASE UNCHANGED clientServerVars
  BY <1>4, <1>18 DEF clientServerVars, promptVars
<1>19. QED
  BY <1>6, <1>7, <1>8, <1>9, <1>10, <1>11, <1>12, <1>13, <1>14, <1>15, <1>16, <1>17, <1>18
     DEF ClientNext, UserActs, TasksAct

\* The stronger invariant holds before the first command.
LEMMA PromptStarts == ClientInit => PromptInv
<1> SUFFICES ASSUME ClientInit
             PROVE  PromptInv
  OBVIOUS
<1>1. ClientInv /\ FramesInOrder /\ ServerInit /\ Cli \subseteq Conn
  BY ClientStarts, FramingStarts, ClientAssumption DEF ClientInit
<1>2. ASSUME NEW c \in Cli
      PROVE  OneAtATime(c)
  <2>1. sent[c] = <<>> /\ outbox[c] = <<>> /\ shown[c] = <<>> /\ prompt[c] = "ready"
    BY <1>1 DEF ClientInit, ServerInit
  <2>2. Len(<<>>) = 0 /\ 0 <= 1 /\ 0 <= 0 + 1 /\ 0 <= 0
    OBVIOUS
  <2>3. QED BY <2>1, <2>2 DEF OneAtATime
<1>3. QED BY <1>1, <1>2 DEF PromptInv

\* Every step keeps it.
LEMMA PromptMove ==
  ASSUME Fragments = FALSE, PromptInv, [ClientNext]_clientServerVars
  PROVE  PromptInv'
<1>1. ClientInv /\ ServerTypeOK /\ PromptTypes /\ FramesInOrder /\ \A c \in Cli : OneAtATime(c)
  BY DEF PromptInv, ClientInv, PipelineInv
<1>2. ClientInv' /\ ServerMoves
  BY <1>1, ClientMove, ClientMoves
<1>3. FramesInOrder'
  BY <1>1, <1>2, FramingMove
<1>4. \A c \in Cli : OneAtATime(c)'
  BY <1>1, OneMove
<1>5. QED BY <1>2, <1>3, <1>4 DEF PromptInv

\* It gives the types of the client with the bounds of its channels.
LEMMA PromptGives ==
  ASSUME PromptInv
  PROVE  ClientTypeOK /\ CommandsAreMessages
<1>1. ClientInv /\ ServerTypeOK /\ PromptTypes /\ FramesInOrder
  BY DEF PromptInv, ClientInv, PipelineInv
<1>2. ASSUME NEW c \in Cli
      PROVE  Len(outbox[c]) <= 1 /\ Len(inbox[c]) <= 1
  <2> DEFINE n == Len(sent[c])
             s == Len(shown[c])
             i == Len(inbox[c])
  <2>1. n \in Nat /\ s \in Nat /\ i \in Nat /\ s + i <= n
    BY <1>1, Behind
  <2>2. n <= s + 1 /\ Len(outbox[c]) <= 1
    BY DEF PromptInv, OneAtATime
  <2> HIDE DEF n, s, i
  <2>3. i <= 1
    BY <2>1, <2>2
  <2>4. QED BY <2>2, <2>3 DEF i
<1>3. ClientTypeOK
  BY <1>1, <1>2 DEF ClientTypeOK, PromptTypes
<1>4. QED BY <1>1, <1>3, FramingGives

\* The two channels of tcp_client.rs have no bound and need none: as long as frames
\* arrive in one piece neither holds more than one element.
THEOREM ClientTypes ==
  ASSUME Fragments = FALSE
  PROVE  ClientFairSpec => []ClientTypeOK
<1>1. PromptInv /\ [ClientNext]_clientServerVars => PromptInv'
  BY PromptMove
<1>2. PromptInv => ClientTypeOK
  BY PromptGives
<1>3. QED BY <1>1, <1>2, PromptStarts, PTL DEF ClientFairSpec

=============================================================================
