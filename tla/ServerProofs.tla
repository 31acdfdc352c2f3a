---------------------------- MODULE ServerProofs ----------------------------
(***************************************************************************)
(* Proofs about the pipeline of module Server: whatever the interleaving,  *)
(* the number of connections and the size of the channels, no command is   *)
(* lost or answered twice inside the server, and answers go to the sockets *)
(* of those who asked, in order.  The inductive invariant is PipelineInv.  *)
(*                                                                         *)
(* The handlers read the messages that their clients sent, for bytes of    *)
(* any kind, as long as every frame arrives in one piece: the invariant of *)
(* that second part is FramesInOrder, on lemmas about bytes alone.         *)
(*                                                                         *)
(* Everything is proved of ServerMoves, which allows a client more than    *)
(* module Server does, so that module ClientProofs can use it as it is.    *)
(***************************************************************************)
EXTENDS Server, SequenceTheorems, FiniteSetTheorems, TLAPS

\* A client sends, without a bound on how often.
Sends(c, m) == handler[c] # "idle" /\ link[c] = "open" /\ Send(c, m)

\* A client reads some of the bytes that wait for it.
Reads(c) ==
  /\ \E n \in 0 .. unread[c] : unread' = [unread EXCEPT ![c] = n]
  /\ UNCHANGED <<clientVars, socket, handlerVars, brokerVars, answers, handled>>

\* What happens to the server, whoever the clients are.
ServerMoves ==
  \/ ServerActs
  \/ \E c \in Conn :
       \/ \E m \in Message : Sends(c, m)
       \/ Reads(c) \/ ClientShuts(c) \/ ClientResets(c)
  \/ UNCHANGED serverVars

\* The peer map has those whose handler read or may read, and a handler that did
\* not start has sent nothing.
PeersKept ==
  \A c \in Conn :
    /\ c \in peers <=> handler[c] \in {"header", "body", "send", "closing", "dead"}
    /\ handler[c] \in {"idle", "accepted"} => parsed[c] = <<>>

\* The pipeline as one queue, the command that is answered next in front.
Pipe == responses \o (working \o requests)

\* The commands of a connection in a queue are consecutive: the first one follows
\* the h[c] that left it, the others each other, and none is beyond the p[c].
Numbered(q, h, p) ==
  /\ \A i \in 1 .. Len(q) : q[i].n \in h[q[i].conn] + 1 .. Len(p[q[i].conn])
  /\ \A i, j \in 1 .. Len(q) : i < j /\ q[i].conn = q[j].conn => q[i].n < q[j].n
  /\ \A j \in 1 .. Len(q) :
       \/ q[j].n = h[q[j].conn] + 1
       \/ \E i \in 1 .. j - 1 : q[i].conn = q[j].conn /\ q[i].n + 1 = q[j].n

\* All the commands of a connection that did not leave the queue are in it.
Complete(q, h, p) ==
  \A c \in Conn : \A n \in h[c] + 1 .. Len(p[c]) :
    \E i \in 1 .. Len(q) : q[i].conn = c /\ q[i].n = n

\* A broker that panics takes its commands with it, and leaves the answers that
\* wait without a gap.
CommandsNumbered ==
  /\ Numbered(Pipe, handled, parsed)
  /\ broker = "up" => Complete(Pipe, handled, parsed)
  /\ broker = "dead" => working = <<>> /\ requests = <<>>

\* Whoever is in the peer map was written an answer to all that left the pipeline.
AnswersNumbered ==
  \A c \in Conn :
    /\ Len(answers[c]) <= handled[c] /\ handled[c] <= Len(parsed[c])
    /\ \A i \in 1 .. Len(answers[c]) : answers[c][i].n = i
    /\ Len(answers[c]) = handled[c] \/ c \notin peers

\* The steps of module Server are among those of ServerMoves.
LEMMA StepMoves ==
  ASSUME ServerTypeOK, [ServerNext]_serverVars
  PROVE  ServerMoves
<1>1. ASSUME NEW c \in Conn, ClientReads(c)
      PROVE  Reads(c)
  <2>1. 0 \in 0 .. unread[c]
    BY DEF ServerTypeOK
  <2>2. QED BY <1>1, <2>1 DEF ClientReads, Reads
<1>2. ASSUME NEW c \in Conn, ClientSends(c)
      PROVE  \E m \in Message : Sends(c, m)
  BY <1>2 DEF ClientSends, Sends
<1>3. QED BY <1>1, <1>2 DEF ServerNext, ClientActs, ServerMoves

\* The length of a message, cut into two bytes and put together again.
LEMMA Division ==
  ASSUME NEW n \in Nat, n < ByteSpan * ByteSpan
  PROVE  /\ n % ByteSpan \in Bytes /\ n \div ByteSpan \in Bytes
         /\ (n % ByteSpan) + ByteSpan * (n \div ByteSpan) = n
<1>1. ByteSpan \in Nat \ {0}
  BY ServerAssumption
<1> DEFINE r == n % ByteSpan
           q == n \div ByteSpan
<1>2. r \in 0 .. ByteSpan - 1 /\ q \in Nat /\ r + ByteSpan * q = n
  BY <1>1
<1> HIDE DEF r, q
<1>3. q < ByteSpan
  BY <1>1, <1>2
<1>4. QED BY <1>1, <1>2, <1>3 DEF Bytes, r, q

\* Whatever one or two bytes a header is read from, the size is one of a frame.
LEMMA HeaderInSpan ==
  ASSUME NEW s \in Seq(Bytes), s # <<>>, Len(s) <= 2
  PROVE  HeaderSize(s) \in 0 .. ByteSpan * ByteSpan - 1
<1>1. ByteSpan \in Nat \ {0}
  BY ServerAssumption
<1>a. Len(s) \in Nat \ {0}
  BY EmptySeq
<1>2. s[1] \in 0 .. ByteSpan - 1
  <2>1. 1 \in 1 .. Len(s)
    BY <1>a
  <2>2. s[1] \in Bytes
    BY <2>1, ElementOfSeq
  <2>3. QED BY <2>2 DEF Bytes
<1>3. CASE Len(s) > 1
  <2>1. s[2] \in 0 .. ByteSpan - 1
    <3>1. 2 \in 1 .. Len(s)
      BY <1>a, <1>3
    <3>2. s[2] \in Bytes
      BY <3>1, ElementOfSeq
    <3>3. QED BY <3>2 DEF Bytes
  <2>2. HeaderSize(s) = s[1] + ByteSpan * s[2]
    BY <1>3 DEF HeaderSize
  <2> DEFINE q == s[2]
             r == s[1]
  <2>3. q \in Nat /\ r \in Nat /\ q <= ByteSpan - 1 /\ r < ByteSpan /\ HeaderSize(s) = r + ByteSpan * q
    BY <1>1, <1>2, <2>1, <2>2
  <2> HIDE DEF q, r
  <2>4. r + ByteSpan * q < ByteSpan * ByteSpan /\ r + ByteSpan * q \in Nat
    BY <1>1, <2>3
  <2>5. ByteSpan * ByteSpan \in Nat
    BY <1>1
  <2>6. QED BY <2>3, <2>4, <2>5
<1>4. CASE ~(Len(s) > 1)
  <2>1. HeaderSize(s) = s[1] + 0
    BY <1>4 DEF HeaderSize
  <2>2. ByteSpan <= ByteSpan * ByteSpan /\ ByteSpan * ByteSpan \in Nat
    BY <1>1
  <2>3. QED BY <1>1, <1>2, <2>1, <2>2
<1>5. QED BY <1>3, <1>4

\* What a frame is made of: the two bytes of the length, then the message.
LEMMA FrameBytes ==
  ASSUME NEW m \in Message
  PROVE  /\ m \in Seq(Bytes) /\ m # <<>> /\ Len(m) \in Nat \ {0}
         /\ Len(m) < ByteSpan * ByteSpan
         /\ Frame(m) \in Seq(Bytes) /\ Len(Frame(m)) = Len(m) + 2
         /\ Frame(m)[1] = Len(m) % ByteSpan
         /\ Frame(m)[2] = Len(m) \div ByteSpan
         /\ \A i \in 1 .. Len(m) : Frame(m)[i + 2] = m[i]
<1>1. m \in Seq(Bytes) /\ m # <<>> /\ Len(m) < ByteSpan * ByteSpan
  BY ServerAssumption DEF Bytes
<1>2. Len(m) \in Nat \ {0}
  BY <1>1, EmptySeq
<1> DEFINE h == <<Len(m) % ByteSpan, Len(m) \div ByteSpan>>
<1>3. Len(m) % ByteSpan \in Bytes /\ Len(m) \div ByteSpan \in Bytes
  BY <1>1, <1>2, Division
<1>4. h \in Seq(Bytes) /\ Len(h) = 2 /\ h[1] = Len(m) % ByteSpan /\ h[2] = Len(m) \div ByteSpan
  BY <1>3
<1>5. Frame(m) = h \o m
  BY DEF Frame
<1> HIDE DEF h
<1>6. /\ h \o m \in Seq(Bytes) /\ Len(h \o m) = Len(h) + Len(m)
      /\ \A i \in 1 .. Len(h) + Len(m) :
           (h \o m)[i] = IF i <= Len(h) THEN h[i] ELSE m[i - Len(h)]
  BY <1>1, <1>4, ConcatProperties
<1>7. \A i \in 1 .. Len(m) : (h \o m)[i + 2] = m[i]
  BY <1>2, <1>4, <1>6
<1>8. QED BY <1>1, <1>2, <1>4, <1>5, <1>6, <1>7

\* A read splits the bytes of the socket in two.
LEMMA TakenRest ==
  ASSUME NEW c \in Conn, NEW n \in Nat, ServerTypeOK
  PROVE  /\ Taken(c, n) \in Seq(Bytes)
         /\ Len(Taken(c, n)) = IF n < Len(socket[c]) THEN n ELSE Len(socket[c])
         /\ \A i \in 1 .. Len(Taken(c, n)) : Taken(c, n)[i] = socket[c][i]
         /\ Rest(c, n) \in Seq(Bytes)
         /\ Len(Rest(c, n)) = IF n < Len(socket[c]) THEN Len(socket[c]) - n ELSE 0
         /\ \A i \in 1 .. Len(Rest(c, n)) : Rest(c, n)[i] = socket[c][n + i]
<1>1. socket[c] \in Seq(Bytes) /\ Len(socket[c]) \in Nat
  BY DEF ServerTypeOK
<1> DEFINE k == IF n < Len(socket[c]) THEN n ELSE Len(socket[c])
<1>2. k \in 0 .. Len(socket[c])
  BY <1>1
<1>3. Taken(c, n) = SubSeq(socket[c], 1, k)
  BY DEF Taken
<1>4. /\ Taken(c, n) \in Seq(Bytes) /\ Len(Taken(c, n)) = k
      /\ \A i \in 1 .. k : Taken(c, n)[i] = socket[c][i]
  <2> HIDE DEF k
  <2>1. \A i \in 1 .. k : socket[c][i] \in Bytes
    BY <1>1, <1>2
  <2>2. /\ SubSeq(socket[c], 1, k) \in Seq(Bytes)
        /\ Len(SubSeq(socket[c], 1, k)) = IF 1 <= k THEN k - 1 + 1 ELSE 0
        /\ \A i \in 1 .. k - 1 + 1 : SubSeq(socket[c], 1, k)[i] = socket[c][1 + i - 1]
    BY <1>2, <2>1, SubSeqProperties
  <2>3. QED BY <1>1, <1>2, <1>3, <2>2
<1>5. /\ Rest(c, n) \in Seq(Bytes)
      /\ Len(Rest(c, n)) = IF n + 1 <= Len(socket[c]) THEN Len(socket[c]) - (n + 1) + 1 ELSE 0
      /\ \A i \in 1 .. Len(socket[c]) - (n + 1) + 1 : Rest(c, n)[i] = socket[c][n + 1 + i - 1]
  <2>1. \A i \in n + 1 .. Len(socket[c]) : socket[c][i] \in Bytes
    BY <1>1
  <2>2. QED BY <1>1, <2>1, SubSeqProperties DEF Rest
<1> HIDE DEF k
<1>6. QED BY <1>1, <1>2, <1>4, <1>5 DEF k

\* What is read as a header from bytes that are there is a size.
LEMMA HeaderRead ==
  ASSUME NEW c \in Conn, ServerTypeOK, socket[c] # <<>>
  PROVE  HeaderSize(Taken(c, 2)) \in 0 .. ByteSpan * ByteSpan - 1
<1> DEFINE s == Taken(c, 2)
           n == Len(socket[c])
<1>1. socket[c] \in Seq(Bytes)
  BY DEF ServerTypeOK
<1>2. n \in Nat \ {0}
  BY <1>1, EmptySeq
<1>3. s \in Seq(Bytes) /\ Len(s) = IF 2 < n THEN 2 ELSE n
  BY TakenRest
<1> HIDE DEF s, n
<1>4. Len(s) # 0 /\ Len(s) <= 2
  BY <1>2, <1>3
<1>5. s # <<>>
  BY <1>4, EmptySeq
<1>6. QED BY <1>3, <1>4, <1>5, HeaderInSpan DEF s

\* What is written to a socket fits it.
LEMMA Unreadable ==
  ASSUME ServerTypeOK, NEW c \in Conn, NEW n \in Written(c)
  PROVE  n \in Nat /\ unread[c] + n \in 0 .. SocketRoom
<1>1. unread[c] \in 0 .. SocketRoom /\ SocketRoom \in Nat /\ AnswerSize \in Nat
  BY ServerAssumption DEF ServerTypeOK
<1>2. QED BY <1>1 DEF Written

\* Every step keeps the types, the limits of the channels and of the sockets.
LEMMA TypesMove ==
  ASSUME ServerTypeOK, ServerMoves
  PROVE  ServerTypeOK'
<1> USE DEF clientVars, handlerVars, brokerVars, answerVars
<1>1. ASSUME NEW c \in Conn, NEW m \in Message, Sends(c, m)
      PROVE  ServerTypeOK'
  <2>1. Frame(m) \in Seq(Bytes)
    BY FrameBytes
  <2>2. Append(wire[c], Frame(m)) \in Seq(Seq(Bytes)) /\ Append(sent[c], m) \in Seq(Message)
    BY <2>1 DEF ServerTypeOK
  <2>3. QED BY <1>1, <2>2 DEF Sends, Send, ServerTypeOK
<1>2. ASSUME NEW c \in Conn, Reads(c)
      PROVE  ServerTypeOK'
  <2>1. unread' \in [Conn -> 0 .. SocketRoom]
    BY <1>2, ServerAssumption DEF Reads, ServerTypeOK
  <2>2. QED BY <1>2, <2>1 DEF Reads, ServerTypeOK
<1>3. ASSUME NEW c \in Conn, ClientShuts(c)
      PROVE  ServerTypeOK'
  BY <1>3 DEF ClientShuts, ServerTypeOK
<1>4. ASSUME NEW c \in Conn, ClientResets(c)
      PROVE  ServerTypeOK'
  <2>1. <<>> \in Seq(Bytes) /\ <<>> \in Seq(Seq(Bytes))
    BY EmptySeq
  <2>2. QED BY <1>4, <2>1 DEF ClientResets, ServerTypeOK
<1>5. ASSUME NEW c \in Conn, Arrive(c)
      PROVE  ServerTypeOK'
  <2> DEFINE f == Head(wire[c])
  <2>1. wire[c] \in Seq(Seq(Bytes)) /\ wire[c] # <<>> /\ socket[c] \in Seq(Bytes)
    BY <1>5 DEF Arrive, ServerTypeOK
  <2>2. f \in Seq(Bytes) /\ Tail(wire[c]) \in Seq(Seq(Bytes)) /\ Len(f) \in Nat
    BY <2>1, HeadTailProperties
  <2> HIDE DEF f
  <2>3. PICK n \in IF Fragments THEN 1 .. Len(f) ELSE {Len(f)} :
          /\ socket' = [socket EXCEPT ![c] = @ \o SubSeq(f, 1, n)]
          /\ wire' = [wire EXCEPT ![c] =
               IF n = Len(f) THEN Tail(@) ELSE <<SubSeq(f, n + 1, Len(f))>> \o Tail(@)]
    BY <1>5 DEF Arrive, f
  <2>n. n \in Nat /\ n <= Len(f)
    BY <2>2
  <2>4. SubSeq(f, 1, n) \in Seq(Bytes) /\ SubSeq(f, n + 1, Len(f)) \in Seq(Bytes)
    BY <2>2, <2>n, SubSeqProperties
  <2>5. socket[c] \o SubSeq(f, 1, n) \in Seq(Bytes)
    BY <2>1, <2>4
  <2>6. <<SubSeq(f, n + 1, Len(f))>> \o Tail(wire[c]) \in Seq(Seq(Bytes))
    BY <2>2, <2>4
  <2>7. socket' \in [Conn -> Seq(Bytes)] /\ wire' \in [Conn -> Seq(Seq(Bytes))]
    BY <2>2, <2>3, <2>5, <2>6 DEF ServerTypeOK
  <2>8. QED BY <1>5, <2>7 DEF Arrive, ServerTypeOK
<1>6. ASSUME NEW c \in Conn, Accept(c) \/ InsertPeer(c) \/ RemovePeer(c)
      PROVE  ServerTypeOK'
  BY <1>6 DEF Accept, InsertPeer, RemovePeer, ServerTypeOK, HandlerState
<1>7. ASSUME NEW c \in Conn, ReadHeader(c)
      PROVE  ServerTypeOK'
  <2>1. Rest(c, 2) \in Seq(Bytes)
    BY TakenRest
  <2>2. CASE link[c] = "reset" \/ AtEnd(c)
    BY <1>7, <2>2 DEF ReadHeader, ServerTypeOK, HandlerState
  <2>3. CASE ~(link[c] = "reset" \/ AtEnd(c))
    <3>1. /\ socket[c] # <<>>
          /\ size' = [size EXCEPT ![c] = HeaderSize(Taken(c, 2))]
          /\ socket' = [socket EXCEPT ![c] = Rest(c, 2)]
          /\ handler' = [handler EXCEPT ![c] = "body"]
      BY <1>7, <2>3 DEF ReadHeader
    <3>2. HeaderSize(Taken(c, 2)) \in 0 .. ByteSpan * ByteSpan - 1
      BY <3>1, HeaderRead
    <3>3. /\ size' \in [Conn -> 0 .. ByteSpan * ByteSpan - 1]
          /\ socket' \in [Conn -> Seq(Bytes)]
          /\ handler' \in [Conn -> HandlerState]
      BY <2>1, <3>1, <3>2 DEF ServerTypeOK, HandlerState
    <3>4. QED BY <1>7, <3>3 DEF ReadHeader, ServerTypeOK
  <2>4. QED BY <2>2, <2>3
<1>8. ASSUME NEW c \in Conn, ReadBody(c)
      PROVE  ServerTypeOK'
  <2> DEFINE got == Taken(c, size[c])
             zeros == [i \in 1 .. size[c] - Len(got) |-> 0]
  <2>1. size[c] \in Nat
    BY ServerAssumption DEF ServerTypeOK
  <2>2. got \in Seq(Bytes) /\ Rest(c, size[c]) \in Seq(Bytes) /\ Len(got) \in Nat
        /\ Len(got) <= size[c]
    <3>1. Len(socket[c]) \in Nat
      BY DEF ServerTypeOK
    <3>2. /\ got \in Seq(Bytes) /\ Rest(c, size[c]) \in Seq(Bytes)
          /\ Len(got) = IF size[c] < Len(socket[c]) THEN size[c] ELSE Len(socket[c])
      BY <2>1, TakenRest
    <3>3. QED BY <2>1, <3>1, <3>2
  <2>3. zeros \in Seq(Bytes)
    <3>1. 0 \in Bytes
      BY ServerAssumption DEF Bytes
    <3>2. size[c] - Len(got) \in Nat
      BY <2>1, <2>2
    <3> HIDE DEF got
    <3>3. QED BY <3>1, <3>2, IsASeq
  <2>4. got \o zeros \in Seq(Bytes)
    BY <2>2, <2>3
  <2> HIDE DEF got, zeros
  <2>5. /\ \/ UNCHANGED <<socket, command>>
           \/ /\ socket' = [socket EXCEPT ![c] = Rest(c, size[c])]
              /\ command' = [command EXCEPT ![c] = got \o zeros]
        /\ \E state \in {"closing", "header", "send", "dead"} :
             handler' = [handler EXCEPT ![c] = state]
    BY <1>8 DEF ReadBody, Parsed, got, zeros
  <2>6. /\ command' \in [Conn -> Seq(Bytes)]
        /\ socket' \in [Conn -> Seq(Bytes)]
        /\ handler' \in [Conn -> HandlerState]
    <3>1. /\ command \in [Conn -> Seq(Bytes)] /\ socket \in [Conn -> Seq(Bytes)]
          /\ handler \in [Conn -> HandlerState]
      BY DEF ServerTypeOK
    <3>2. command' \in [Conn -> Seq(Bytes)]
      BY <2>4, <2>5, <3>1
    <3>3. socket' \in [Conn -> Seq(Bytes)]
      BY <2>2, <2>5, <3>1
    <3>4. handler' \in [Conn -> HandlerState]
      BY <2>5, <3>1 DEF HandlerState
    <3>5. QED BY <3>2, <3>3, <3>4
  <2>7. QED BY <1>8, <2>6 DEF ReadBody, ServerTypeOK
<1>9. ASSUME NEW c \in Conn, SendCommand(c)
      PROVE  ServerTypeOK'
  <2>1. parsed[c] \in Seq(Seq(Bytes)) /\ command[c] \in Seq(Bytes) /\ Len(parsed[c]) + 1 \in Nat
    BY DEF ServerTypeOK
  <2>2. [conn |-> c, n |-> Len(parsed[c]) + 1] \in Command
    BY <2>1 DEF Command
  <2>3. CASE broker = "up"
    <3>1. /\ Len(requests) < ChannelSize
          /\ requests' = Append(requests, [conn |-> c, n |-> Len(parsed[c]) + 1])
          /\ parsed' = [parsed EXCEPT ![c] = Append(@, command[c])]
          /\ handler' = [handler EXCEPT ![c] = "header"]
      BY <1>9, <2>3 DEF SendCommand
    <3>2. requests' \in Seq(Command) /\ Len(requests') <= ChannelSize
      BY <2>2, <3>1, ServerAssumption DEF ServerTypeOK
    <3>3. /\ parsed \in [Conn -> Seq(Seq(Bytes))]
          /\ Append(parsed[c], command[c]) \in Seq(Seq(Bytes))
      BY <2>1 DEF ServerTypeOK
    <3>4. parsed' \in [Conn -> Seq(Seq(Bytes))]
      BY <3>1, <3>3
    <3>5. handler' \in [Conn -> HandlerState]
      BY <3>1 DEF ServerTypeOK, HandlerState
    <3>6. QED BY <1>9, <3>2, <3>4, <3>5 DEF SendCommand, ServerTypeOK
  <2>4. CASE broker # "up"
    BY <1>9, <2>4 DEF SendCommand, ServerTypeOK, HandlerState
  <2>5. QED BY <2>3, <2>4
<1>10. CASE BrokerTakes
  <2>1. Head(requests) \in Command /\ Tail(requests) \in Seq(Command)
        /\ Len(Tail(requests)) = Len(requests) - 1 /\ Len(requests) \in Nat
    BY <1>10, HeadTailProperties DEF BrokerTakes, ServerTypeOK
  <2>2. Len(Tail(requests)) <= ChannelSize
    BY <2>1, ServerAssumption DEF ServerTypeOK
  <2>3. <<Head(requests)>> \in Seq(Command) /\ Len(<<Head(requests)>>) <= 1
    BY <2>1
  <2>4. QED BY <1>10, <2>1, <2>2, <2>3 DEF BrokerTakes, ServerTypeOK
<1>11. CASE BrokerAnswers
  <2>1. responses \o working \in Seq(Command)
        /\ Len(responses \o working) = Len(responses) + Len(working)
    BY DEF ServerTypeOK
  <2>2. Len(responses \o working) <= ChannelSize
    BY <1>11, <2>1, ServerAssumption DEF BrokerAnswers, ServerTypeOK
  <2>3. <<>> \in Seq(Command) /\ Len(<<>>) <= 1
    BY EmptySeq
  <2>4. QED BY <1>11, <2>1, <2>2, <2>3 DEF BrokerAnswers, ServerTypeOK
<1>12. CASE BrokerPanics
  <2>1. <<>> \in Seq(Command) /\ Len(<<>>) <= 1 /\ Len(<<>>) <= ChannelSize
    BY EmptySeq, ServerAssumption
  <2>2. QED BY <1>12, <2>1 DEF BrokerPanics, ServerTypeOK
<1>13. CASE WriteAnswer
  <2> DEFINE r == Head(responses)
             c == r.conn
  <2>1. r \in Command /\ Tail(responses) \in Seq(Command)
        /\ Len(Tail(responses)) = Len(responses) - 1 /\ Len(responses) \in Nat
    BY <1>13, HeadTailProperties DEF WriteAnswer, ServerTypeOK
  <2>2. Len(Tail(responses)) <= ChannelSize
    BY <2>1, ServerAssumption DEF ServerTypeOK
  <2>c. c \in Conn /\ r.n \in Nat
    BY <2>1 DEF Command
  <2>3. /\ responses' = Tail(responses)
        /\ handled' = [handled EXCEPT ![c] = @ + 1]
    BY <1>13 DEF WriteAnswer
  <2>4. \/ UNCHANGED <<unread, answers>>
        \/ \E n \in Written(c) :
             /\ unread' = [unread EXCEPT ![c] = @ + n]
             /\ answers' = [answers EXCEPT ![c] =
                  Append(@, [n |-> r.n, whole |-> n = AnswerSize])]
    BY <1>13 DEF WriteAnswer
  <2> HIDE DEF c, r
  <2>5. unread' \in [Conn -> 0 .. SocketRoom]
    <3>1. \A n \in Written(c) : unread[c] + n \in 0 .. SocketRoom
      BY <2>c, Unreadable
    <3>2. unread \in [Conn -> 0 .. SocketRoom]
      BY DEF ServerTypeOK
    <3>3. QED BY <2>c, <2>4, <3>1, <3>2
  <2>6. answers' \in [Conn -> Seq(Answer)]
    <3>1. \A n : [n |-> r.n, whole |-> n = AnswerSize] \in Answer
      BY <2>c DEF Answer
    <3>2. answers \in [Conn -> Seq(Answer)]
      BY DEF ServerTypeOK
    <3>3. \A a \in Answer : Append(answers[c], a) \in Seq(Answer)
      BY <2>c, <3>2
    <3>4. QED BY <2>c, <2>4, <3>1, <3>2, <3>3
  <2>7. handled' \in [Conn -> Nat]
    BY <2>c, <2>3 DEF ServerTypeOK
  <2>8. QED BY <1>13, <2>1, <2>2, <2>3, <2>5, <2>6, <2>7 DEF WriteAnswer, ServerTypeOK
<1>14. CASE UNCHANGED serverVars
  BY <1>14 DEF serverVars, ServerTypeOK
<1>15. QED
  BY <1>1, <1>2, <1>3, <1>4, <1>5, <1>6, <1>7, <1>8, <1>9, <1>10, <1>11, <1>12, <1>13, <1>14
  DEF ServerMoves, ServerActs, Handle

\* They hold at the start.
LEMMA TypesStart == ServerInit => ServerTypeOK
<1>1. /\ <<>> \in Seq(Bytes) /\ <<>> \in Seq(Seq(Bytes)) /\ <<>> \in Seq(Message)
      /\ <<>> \in Seq(Answer) /\ <<>> \in Seq(Command) /\ Len(<<>>) = 0
  BY EmptySeq
<1>2. ByteSpan * ByteSpan - 1 \in Nat
  BY ServerAssumption
<1>3. QED BY <1>1, <1>2, ServerAssumption DEF ServerInit, ServerTypeOK, HandlerState

-----------------------------------------------------------------------------
\* An element of a queue is a command of some connection.
LEMMA CommandAt ==
  ASSUME NEW q \in Seq(Command), NEW i \in 1 .. Len(q)
  PROVE  q[i] \in Command /\ q[i].conn \in Conn /\ q[i].n \in Nat
<1>1. q[i] \in Command
  BY ElementOfSeq
<1>2. QED BY <1>1 DEF Command

\* A command sent goes behind all others with the next number of its connection.
LEMMA NumberedSent ==
  ASSUME NEW q \in Seq(Command), NEW h \in [Conn -> Nat], NEW p \in [Conn -> Seq(Seq(Bytes))],
         NEW c \in Conn, NEW m \in Seq(Bytes), h[c] <= Len(p[c]),
         Numbered(q, h, p), Complete(q, h, p)
  PROVE  LET q2 == Append(q, [conn |-> c, n |-> Len(p[c]) + 1])
             p2 == [p EXCEPT ![c] = Append(@, m)]
         IN  Numbered(q2, h, p2) /\ Complete(q2, h, p2)
<1> DEFINE x == [conn |-> c, n |-> Len(p[c]) + 1]
           q2 == Append(q, x)
           p2 == [p EXCEPT ![c] = Append(@, m)]
<1>1. \A d \in Conn : p[d] \in Seq(Seq(Bytes)) /\ Len(p[d]) \in Nat /\ h[d] \in Nat
  OBVIOUS
<1>2. /\ Len(p2[c]) = Len(p[c]) + 1
      /\ \A d \in Conn : d # c => p2[d] = p[d]
  BY <1>1
<1>3. x \in Command /\ x.conn = c /\ x.n = Len(p[c]) + 1
  BY <1>1 DEF Command
<1>a. \A i \in 1 .. Len(q) : q[i].conn \in Conn /\ q[i].n \in Nat
  BY CommandAt
<1>b. /\ Len(q) \in Nat /\ Len(q2) = Len(q) + 1 /\ q2[Len(q) + 1] = x
      /\ \A i \in 1 .. Len(q) : q2[i] = q[i]
  <2> HIDE DEF x
  <2>1. QED BY <1>3
<1>4. /\ Len(q) \in Nat /\ Len(q2) = Len(q) + 1 /\ q2[Len(q) + 1] = x
      /\ \A i \in 1 .. Len(q) : q2[i] = q[i]
      /\ \A i \in 1 .. Len(q) : q[i].conn \in Conn /\ q[i].n \in Nat
  BY <1>a, <1>b
<1> HIDE DEF q2, p2, x
<1>5. \A i \in 1 .. Len(q2) : q2[i].n \in h[q2[i].conn] + 1 .. Len(p2[q2[i].conn])
  <2>1. ASSUME NEW i \in 1 .. Len(q)
        PROVE  q2[i].n \in h[q2[i].conn] + 1 .. Len(p2[q2[i].conn])
    <3>1. q2[i] = q[i] /\ q[i].n \in h[q[i].conn] + 1 .. Len(p[q[i].conn])
      BY <1>4 DEF Numbered
    <3>2. Len(p2[q[i].conn]) \in Nat /\ Len(p[q[i].conn]) <= Len(p2[q[i].conn])
      <4>1. q[i].conn \in Conn
        BY <1>a
      <4>2. CASE q[i].conn = c
        BY <1>1, <1>2, <4>2
      <4>3. CASE q[i].conn # c
        BY <1>1, <1>2, <4>1, <4>3
      <4>4. QED BY <4>2, <4>3
    <3>3. QED BY <1>1, <1>4, <3>1, <3>2
  <2>2. x.n \in h[x.conn] + 1 .. Len(p2[x.conn])
    BY <1>1, <1>2, <1>3
  <2>3. \A i \in 1 .. Len(q2) : i \in 1 .. Len(q) \/ q2[i] = x
    BY <1>b
  <2>4. QED BY <2>1, <2>2, <2>3
<1>6. \A i, j \in 1 .. Len(q2) : i < j /\ q2[i].conn = q2[j].conn => q2[i].n < q2[j].n
  <2>1. ASSUME NEW i \in 1 .. Len(q2), NEW j \in 1 .. Len(q2), i < j, q2[i].conn = q2[j].conn
        PROVE  q2[i].n < q2[j].n
    <3>1. i \in 1 .. Len(q) /\ q2[i] = q[i]
      BY <1>4, <2>1
    <3>2. CASE j \in 1 .. Len(q)
      BY <1>4, <2>1, <3>1, <3>2 DEF Numbered
    <3>3. CASE j = Len(q) + 1
      <4>1. q[i].n \in h[c] + 1 .. Len(p[c])
        BY <1>3, <1>4, <2>1, <3>1, <3>3 DEF Numbered
      <4>2. QED BY <1>1, <1>3, <1>4, <3>1, <3>3, <4>1
    <3>4. QED BY <1>4, <3>2, <3>3
  <2>2. QED BY <2>1
<1>7. \A j \in 1 .. Len(q2) :
         \/ q2[j].n = h[q2[j].conn] + 1
         \/ \E i \in 1 .. j - 1 : q2[i].conn = q2[j].conn /\ q2[i].n + 1 = q2[j].n
  <2>1. ASSUME NEW j \in 1 .. Len(q)
        PROVE  \/ q2[j].n = h[q2[j].conn] + 1
               \/ \E i \in 1 .. j - 1 : q2[i].conn = q2[j].conn /\ q2[i].n + 1 = q2[j].n
    <3>1. \/ q[j].n = h[q[j].conn] + 1
          \/ \E i \in 1 .. j - 1 : q[i].conn = q[j].conn /\ q[i].n + 1 = q[j].n
      BY DEF Numbered
    <3>2. \A i \in 1 .. j - 1 : q2[i] = q[i]
      <4>1. 1 .. j - 1 \subseteq 1 .. Len(q)
        BY <1>b
      <4>2. QED BY <1>b, <4>1
    <3>3. q2[j] = q[j]
      BY <1>4
    <3>4. QED BY <3>1, <3>2, <3>3
  <2>2. \/ x.n = h[c] + 1
        \/ \E i \in 1 .. Len(q) : q2[i].conn = c /\ q2[i].n + 1 = x.n
    <3>1. CASE Len(p[c]) = h[c]
      BY <1>3, <3>1
    <3>2. CASE Len(p[c]) # h[c]
      <4>1. Len(p[c]) \in h[c] + 1 .. Len(p[c])
        BY <1>1, <3>2
      <4>2. \E i \in 1 .. Len(q) : q[i].conn = c /\ q[i].n = Len(p[c])
        BY <4>1 DEF Complete
      <4>3. QED BY <1>3, <1>4, <4>2
    <3>3. QED BY <3>1, <3>2
  <2>3. ASSUME NEW j \in 1 .. Len(q2), j \notin 1 .. Len(q)
        PROVE  \/ q2[j].n = h[q2[j].conn] + 1
               \/ \E i \in 1 .. j - 1 : q2[i].conn = q2[j].conn /\ q2[i].n + 1 = q2[j].n
    <3>1. j = Len(q) + 1 /\ j - 1 = Len(q) /\ q2[j] = x
      BY <1>b, <2>3
    <3>2. QED BY <1>3, <2>2, <3>1
  <2>4. QED BY <2>1, <2>3
<1>8. Complete(q2, h, p2)
  <2>1. ASSUME NEW d \in Conn, NEW n \in h[d] + 1 .. Len(p2[d])
        PROVE  \E i \in 1 .. Len(q2) : q2[i].conn = d /\ q2[i].n = n
    <3>1. CASE n \in h[d] + 1 .. Len(p[d])
      <4>1. \E i \in 1 .. Len(q) : q[i].conn = d /\ q[i].n = n
        BY <3>1 DEF Complete
      <4>2. QED BY <1>4, <4>1
    <3>2. CASE n \notin h[d] + 1 .. Len(p[d])
      <4>1. d = c /\ n = Len(p[c]) + 1
        BY <1>1, <1>2, <2>1, <3>2
      <4>2. Len(q) + 1 \in 1 .. Len(q2)
        BY <1>4
      <4>3. QED BY <1>3, <1>4, <4>1, <4>2
    <3>3. QED BY <3>1, <3>2
  <2>2. QED BY <2>1 DEF Complete
<1>9. QED BY <1>5, <1>6, <1>7, <1>8 DEF Numbered, q2, p2, x

\* The command in front is the next one of its connection, and leaves the others
\* consecutive.
LEMMA NumberedWritten ==
  ASSUME NEW q \in Seq(Command), NEW h \in [Conn -> Nat], NEW p \in [Conn -> Seq(Seq(Bytes))],
         q # <<>>, Numbered(q, h, p)
  PROVE  LET c == q[1].conn
             h2 == [h EXCEPT ![c] = @ + 1]
         IN  /\ c \in Conn /\ q[1].n = h[c] + 1 /\ h[c] + 1 <= Len(p[c])
             /\ Numbered(Tail(q), h2, p)
             /\ Complete(q, h, p) => Complete(Tail(q), h2, p)
<1> DEFINE c == q[1].conn
           h2 == [h EXCEPT ![c] = @ + 1]
           r == Tail(q)
<1>1. \A d \in Conn : Len(p[d]) \in Nat /\ h[d] \in Nat
  OBVIOUS
<1>2. /\ Len(q) \in Nat \ {0}
      /\ \A i \in 1 .. Len(q) : q[i].conn \in Conn /\ q[i].n \in Nat
  BY EmptySeq, CommandAt
<1>3. Len(r) = Len(q) - 1 /\ \A i \in 1 .. Len(r) : r[i] = q[i + 1]
  BY HeadTailProperties
<1>4. 1 \in 1 .. Len(q) /\ c \in Conn
  BY <1>2
<1>5. q[1].n = h[c] + 1
  <2>1. 1 .. 1 - 1 = {}
    OBVIOUS
  <2>2. QED BY <1>4, <2>1 DEF Numbered
<1>6. h[c] + 1 <= Len(p[c])
  BY <1>1, <1>4, <1>5 DEF Numbered
<1>7. /\ h2[c] = h[c] + 1
      /\ \A d \in Conn : d # c => h2[d] = h[d]
  BY <1>4
<1> HIDE DEF c, h2, r
<1>8. \A i \in 1 .. Len(r) : r[i].n \in h2[r[i].conn] + 1 .. Len(p[r[i].conn])
  <2>1. ASSUME NEW i \in 1 .. Len(r)
        PROVE  r[i].n \in h2[r[i].conn] + 1 .. Len(p[r[i].conn])
    <3>1. r[i] = q[i + 1] /\ i + 1 \in 1 .. Len(q) /\ 1 < i + 1
      BY <1>2, <1>3
    <3>2. q[i + 1].n \in h[q[i + 1].conn] + 1 .. Len(p[q[i + 1].conn])
      BY <3>1 DEF Numbered
    <3>3. q[i + 1].conn = c => q[1].n < q[i + 1].n
      BY <1>4, <3>1 DEF Numbered, c
    <3>4. q[i + 1].conn \in Conn /\ q[i + 1].n \in Nat
      BY <1>2, <3>1
    <3>5. QED BY <1>1, <1>4, <1>5, <1>7, <3>1, <3>2, <3>3, <3>4
  <2>2. QED BY <2>1
<1>9. \A i, j \in 1 .. Len(r) : i < j /\ r[i].conn = r[j].conn => r[i].n < r[j].n
  <2>1. ASSUME NEW i \in 1 .. Len(r), NEW j \in 1 .. Len(r), i < j, r[i].conn = r[j].conn
        PROVE  r[i].n < r[j].n
    <3>1. i + 1 \in 1 .. Len(q) /\ j + 1 \in 1 .. Len(q) /\ i + 1 < j + 1
      BY <1>2, <1>3, <2>1
    <3>2. r[i] = q[i + 1] /\ r[j] = q[j + 1]
      BY <1>3
    <3>3. QED BY <2>1, <3>1, <3>2 DEF Numbered
  <2>2. QED BY <2>1
<1>10. \A j \in 1 .. Len(r) :
          \/ r[j].n = h2[r[j].conn] + 1
          \/ \E i \in 1 .. j - 1 : r[i].conn = r[j].conn /\ r[i].n + 1 = r[j].n
  <2>1. ASSUME NEW j \in 1 .. Len(r)
        PROVE  \/ r[j].n = h2[r[j].conn] + 1
               \/ \E i \in 1 .. j - 1 : r[i].conn = r[j].conn /\ r[i].n + 1 = r[j].n
    <3>1. r[j] = q[j + 1] /\ j + 1 \in 1 .. Len(q) /\ 1 < j + 1 /\ j \in Nat
      BY <1>2, <1>3
    <3>2. q[j + 1].conn \in Conn /\ q[j + 1].n \in Nat
      BY <1>2, <3>1
    <3>3. CASE q[j + 1].n = h[q[j + 1].conn] + 1
      <4>1. q[j + 1].conn # c
        <5>1. q[j + 1].conn = c => q[1].n < q[j + 1].n
          BY <1>4, <3>1 DEF Numbered, c
        <5>2. QED BY <1>1, <1>4, <1>5, <3>2, <3>3, <5>1
      <4>2. QED BY <1>7, <3>1, <3>2, <3>3, <4>1
    <3>4. CASE \E i \in 1 .. j : q[i].conn = q[j + 1].conn /\ q[i].n + 1 = q[j + 1].n
      <4>1. PICK i \in 1 .. j : q[i].conn = q[j + 1].conn /\ q[i].n + 1 = q[j + 1].n
        BY <3>4
      <4>2. CASE i = 1
        BY <1>5, <1>7, <3>1, <4>1, <4>2 DEF c
      <4>3. CASE i # 1
        <5>1. i - 1 \in 1 .. j - 1 /\ i - 1 \in 1 .. Len(r) /\ (i - 1) + 1 = i
          BY <1>2, <1>3, <3>1, <4>3
        <5>2. r[i - 1] = q[i]
          BY <1>3, <5>1
        <5>3. QED BY <3>1, <4>1, <5>1, <5>2
      <4>4. QED BY <4>2, <4>3
    <3>5. j + 1 - 1 = j
      BY <3>1
    <3>6. QED BY <3>1, <3>3, <3>4, <3>5 DEF Numbered
  <2>2. QED BY <2>1
<1>11. ASSUME Complete(q, h, p)
       PROVE  Complete(r, h2, p)
  <2>1. ASSUME NEW d \in Conn, NEW n \in h2[d] + 1 .. Len(p[d])
        PROVE  \E i \in 1 .. Len(r) : r[i].conn = d /\ r[i].n = n
    <3>1. n \in h[d] + 1 .. Len(p[d]) /\ (d = c => n # h[c] + 1)
      BY <1>1, <1>7, <2>1
    <3>2. PICK i \in 1 .. Len(q) : q[i].conn = d /\ q[i].n = n
      BY <1>11, <3>1 DEF Complete
    <3>3. i # 1
      BY <1>5, <3>1, <3>2 DEF c
    <3>4. i - 1 \in 1 .. Len(r) /\ (i - 1) + 1 = i
      BY <1>2, <1>3, <3>3
    <3>5. r[i - 1] = q[i]
      BY <1>3, <3>4
    <3>6. QED BY <3>2, <3>4, <3>5
  <2>2. QED BY <2>1 DEF Complete
<1>12. QED BY <1>4, <1>5, <1>6, <1>8, <1>9, <1>10, <1>11 DEF Numbered, c, h2, r

\* A queue that loses its end keeps the numbers of the rest.
LEMMA NumberedPrefix ==
  ASSUME NEW q \in Seq(Command), NEW t \in Seq(Command), NEW h, NEW p, Numbered(q \o t, h, p)
  PROVE  Numbered(q, h, p)
<1>1. /\ Len(q) \in Nat /\ Len(t) \in Nat /\ Len(q \o t) = Len(q) + Len(t)
      /\ \A i \in 1 .. Len(q) : (q \o t)[i] = q[i]
  OBVIOUS
<1>2. \A i \in 1 .. Len(q) : i \in 1 .. Len(q \o t) /\ \A j \in 1 .. i - 1 : j \in 1 .. Len(q)
  BY <1>1
<1> DEFINE u == q \o t
<1>3. /\ \A i \in 1 .. Len(q) : u[i] = q[i] /\ i \in 1 .. Len(u)
      /\ Numbered(u, h, p)
  BY <1>1, <1>2
<1> HIDE DEF u
<1>4. QED BY <1>2, <1>3 DEF Numbered

-----------------------------------------------------------------------------
\* How many commands of c are in a queue.
Count(q, c) == Cardinality({i \in DOMAIN q : q[i].conn = c})

\* A queue is finite, and an empty one has no command of anybody.
LEMMA CountType ==
  ASSUME NEW q \in Seq(Command), NEW c
  PROVE  Count(q, c) \in Nat /\ Count(<<>>, c) = 0
<1>1. DOMAIN q = 1 .. Len(q) /\ Len(q) \in Nat
  OBVIOUS
<1>2. IsFiniteSet(1 .. Len(q))
  BY <1>1, FS_Interval
<1>3. IsFiniteSet({i \in DOMAIN q : q[i].conn = c})
  BY <1>1, <1>2, FS_Subset
<1>4. {i \in DOMAIN <<>> : <<>>[i].conn = c} = {}
  OBVIOUS
<1>5. QED BY <1>3, <1>4, FS_CardinalityType, FS_EmptySet DEF Count

\* One more command counts for the connection that sent it.
LEMMA CountAppend ==
  ASSUME NEW q \in Seq(Command), NEW x \in Command, NEW c
  PROVE  Count(Append(q, x), c) = Count(q, c) + IF x.conn = c THEN 1 ELSE 0
<1> DEFINE S == {i \in DOMAIN q : q[i].conn = c}
           n == Len(q) + 1
           r == Append(q, x)
<1>1. DOMAIN q = 1 .. Len(q) /\ Len(q) \in Nat /\ n \notin S
  OBVIOUS
<1>2. DOMAIN r = 1 .. n /\ r[n] = x /\ \A i \in 1 .. Len(q) : r[i] = q[i]
  OBVIOUS
<1>3. IsFiniteSet(S)
  <2>1. IsFiniteSet(1 .. Len(q))
    BY <1>1, FS_Interval
  <2>2. QED BY <1>1, <2>1, FS_Subset
<1>4. Cardinality(S) \in Nat
  BY <1>3, FS_CardinalityType
<1> HIDE DEF r
<1>a. /\ Count(q, c) = Cardinality(S)
      /\ Count(r, c) = Cardinality({i \in DOMAIN r : r[i].conn = c})
  BY DEF Count
<1>5. CASE x.conn = c
  <2>1. {i \in DOMAIN r : r[i].conn = c} = S \cup {n}
    BY <1>1, <1>2, <1>5
  <2>2. Cardinality(S \cup {n}) = Cardinality(S) + 1
    BY <1>1, <1>3, FS_AddElement
  <2>3. Count(r, c) = Cardinality(S \cup {n})
    BY <1>a, <2>1
  <2>4. Count(r, c) = Count(q, c) + 1
    BY <1>a, <2>2, <2>3
  <2>5. Count(q, c) \in Nat
    BY <1>a, <1>4
  <2>6. QED BY <1>5, <2>4, <2>5 DEF r
<1>6. CASE x.conn # c
  <2>1. {i \in DOMAIN r : r[i].conn = c} = S
    BY <1>1, <1>2, <1>6
  <2>2. Count(r, c) = Count(q, c)
    BY <1>a, <2>1
  <2>3. Count(q, c) \in Nat
    BY <1>a, <1>4
  <2>4. QED BY <1>6, <2>2, <2>3 DEF r
<1>7. QED BY <1>5, <1>6

\* The command in front counted for the connection that sent it.
LEMMA CountTail ==
  ASSUME NEW q \in Seq(Command), q # <<>>, NEW c
  PROVE  Count(q, c) = Count(Tail(q), c) + IF Head(q).conn = c THEN 1 ELSE 0
<1> DEFINE r == Tail(q)
           A == {i \in DOMAIN r : r[i].conn = c}
           B == {i \in 2 .. Len(q) : q[i].conn = c}
           S == {i \in DOMAIN q : q[i].conn = c}
           f == [i \in A |-> i + 1]
<1>1. Len(q) \in Nat \ {0} /\ DOMAIN q = 1 .. Len(q) /\ Head(q) = q[1]
  BY EmptySeq
<1>2. DOMAIN r = 1 .. Len(q) - 1 /\ \A i \in 1 .. Len(q) - 1 : r[i] = q[i + 1]
  BY <1>1, HeadTailProperties
<1> HIDE DEF r
<1>3. IsFiniteSet(A) /\ IsFiniteSet(B)
  <2>1. IsFiniteSet(1 .. Len(q) - 1) /\ IsFiniteSet(2 .. Len(q))
    BY <1>1, FS_Interval
  <2>2. A \subseteq 1 .. Len(q) - 1 /\ B \subseteq 2 .. Len(q)
    BY <1>2
  <2> HIDE DEF A, B
  <2>3. QED BY <2>1, <2>2, FS_Subset
<1>a. Count(q, c) = Cardinality(S) /\ Count(r, c) = Cardinality(A)
  BY DEF Count
<1>4. Cardinality(B) = Cardinality(A)
  <2>1. \A i \in A : i + 1 \in B
    BY <1>1, <1>2
  <2>2. f \in [A -> B]
    BY <2>1
  <2>3. \A k \in B : k - 1 \in A /\ (k - 1) + 1 = k
    BY <1>1, <1>2
  <2>4. \A k \in B : \E i \in A : f[i] = k
    BY <2>3
  <2>5. \A i, j \in A : f[i] = f[j] => i = j
    BY <1>2
  <2>6. f \in Bijection(A, B)
    BY <2>2, <2>4, <2>5, Zenon DEF Bijection, Injection, Surjection, IsInjective
  <2>7. ExistsBijection(A, B)
    BY <2>6 DEF ExistsBijection
  <2>8. QED BY <1>3, <2>7, FS_Bijection
<1>5. Cardinality(B) \in Nat
  BY <1>3, FS_CardinalityType
<1>6. CASE q[1].conn = c
  <2>1. S = B \cup {1} /\ 1 \notin B
    BY <1>1, <1>6
  <2>2. Cardinality(B \cup {1}) = Cardinality(B) + 1
    BY <1>3, <2>1, FS_AddElement
  <2> HIDE DEF A, B, S
  <2>3. QED BY <1>a, <1>1, <1>4, <1>5, <1>6, <2>1, <2>2 DEF r
<1>7. CASE q[1].conn # c
  <2>1. S = B
    BY <1>1, <1>7
  <2> HIDE DEF A, B, S
  <2>2. QED BY <1>a, <1>1, <1>4, <1>5, <1>7, <2>1 DEF r
<1>8. QED BY <1>6, <1>7

\* What InPipeline counts, queue by queue.
LEMMA PipelineCounts ==
  ASSUME NEW c
  PROVE  InPipeline(c) = Count(requests, c) + Count(working, c) + Count(responses, c)
BY DEF InPipeline, Count

-----------------------------------------------------------------------------
\* The steps that leave the pipeline alone, by what they do to a handler.
Idles ==
  /\ UNCHANGED <<requests, working, responses, broker, parsed, answers, handled>>
  /\ \/ UNCHANGED <<handler, peers>>
     \/ \E c \in Conn :
          \/ /\ UNCHANGED peers
             /\ \/ /\ handler[c] = "idle"
                   /\ handler' = [handler EXCEPT ![c] = "accepted"]
                \/ /\ handler[c] \in {"header", "body"}
                   /\ \E state \in {"header", "body", "send", "closing", "dead"} :
                        handler' = [handler EXCEPT ![c] = state]
          \/ InsertPeer(c) \/ RemovePeer(c)

\* Every step leaves the pipeline alone or is one of its five.
LEMMA MovesAre ==
  ASSUME ServerMoves
  PROVE  \/ Idles
         \/ \E c \in Conn : SendCommand(c)
         \/ BrokerTakes \/ BrokerAnswers \/ BrokerPanics \/ WriteAnswer
<1> USE DEF clientVars, handlerVars, brokerVars, answerVars
<1>1. ASSUME NEW c \in Conn, ReadBody(c)
      PROVE  Idles
  <2>1. UNCHANGED <<requests, working, responses, broker, parsed, answers, handled, peers>>
    BY <1>1 DEF ReadBody
  <2>2. /\ handler[c] = "body"
        /\ \E state \in {"closing", "header", "send", "dead"} :
             handler' = [handler EXCEPT ![c] = state]
    BY <1>1 DEF ReadBody, Parsed
  <2>3. QED BY <2>1, <2>2 DEF Idles
<1>2. ASSUME NEW c \in Conn, ReadHeader(c)
      PROVE  Idles
  <2>1. UNCHANGED <<requests, working, responses, broker, parsed, answers, handled, peers>>
    BY <1>2 DEF ReadHeader
  <2>2. /\ handler[c] = "header"
        /\ \E state \in {"closing", "body"} : handler' = [handler EXCEPT ![c] = state]
    BY <1>2 DEF ReadHeader
  <2>3. QED BY <2>1, <2>2 DEF Idles
<1>3. ASSUME NEW c \in Conn, Accept(c) \/ InsertPeer(c) \/ RemovePeer(c) \/ Arrive(c)
      PROVE  Idles
  BY <1>3 DEF Accept, InsertPeer, RemovePeer, Arrive, Idles
<1>4. ASSUME NEW c \in Conn, \/ \E m \in Message : Sends(c, m)
                             \/ Reads(c) \/ ClientShuts(c) \/ ClientResets(c)
      PROVE  Idles
  BY <1>4 DEF Sends, Send, Reads, ClientShuts, ClientResets, Idles
<1>5. CASE UNCHANGED serverVars
  BY <1>5 DEF serverVars, Idles
<1>6. QED BY <1>1, <1>2, <1>3, <1>4, <1>5 DEF ServerMoves, ServerActs, Handle

\* Entries of the peer map are made and removed with the steps of their handler.
LEMMA PeersMove ==
  ASSUME ServerTypeOK, PeersKept, ServerMoves
  PROVE  PeersKept'
<1> USE DEF clientVars, handlerVars, brokerVars, answerVars
<1>0. /\ handler \in [Conn -> HandlerState] /\ peers \subseteq Conn
      /\ parsed \in [Conn -> Seq(Seq(Bytes))]
  BY DEF ServerTypeOK
<1>1. CASE Idles
  <2>1. ASSUME NEW d \in Conn
        PROVE  /\ d \in peers' <=> handler'[d] \in {"header", "body", "send", "closing", "dead"}
               /\ handler'[d] \in {"idle", "accepted"} => parsed'[d] = <<>>
    <3>1. CASE UNCHANGED <<handler, peers>>
      BY <1>1, <3>1 DEF Idles, PeersKept
    <3>2. ASSUME NEW c \in Conn, InsertPeer(c)
          PROVE  /\ d \in peers' <=> handler'[d] \in {"header", "body", "send", "closing", "dead"}
                 /\ handler'[d] \in {"idle", "accepted"} => parsed'[d] = <<>>
      BY <1>0, <3>2 DEF InsertPeer, PeersKept
    <3>3. ASSUME NEW c \in Conn, RemovePeer(c)
          PROVE  /\ d \in peers' <=> handler'[d] \in {"header", "body", "send", "closing", "dead"}
                 /\ handler'[d] \in {"idle", "accepted"} => parsed'[d] = <<>>
      BY <1>0, <3>3 DEF RemovePeer, PeersKept
    <3>4. ASSUME NEW c \in Conn, UNCHANGED peers, handler[c] = "idle",
                 handler' = [handler EXCEPT ![c] = "accepted"]
          PROVE  /\ d \in peers' <=> handler'[d] \in {"header", "body", "send", "closing", "dead"}
                 /\ handler'[d] \in {"idle", "accepted"} => parsed'[d] = <<>>
      BY <1>0, <1>1, <3>4 DEF Idles, PeersKept
    <3>5. ASSUME NEW c \in Conn, UNCHANGED peers, handler[c] \in {"header", "body"},
                 NEW state \in {"header", "body", "send", "closing", "dead"},
                 handler' = [handler EXCEPT ![c] = state]
          PROVE  /\ d \in peers' <=> handler'[d] \in {"header", "body", "send", "closing", "dead"}
                 /\ handler'[d] \in {"idle", "accepted"} => parsed'[d] = <<>>
      BY <1>0, <1>1, <3>5 DEF Idles, PeersKept
    <3>6. QED BY <1>1, <3>1, <3>2, <3>3, <3>4, <3>5 DEF Idles
  <2>2. QED BY <2>1 DEF PeersKept
<1>2. ASSUME NEW c \in Conn, SendCommand(c)
      PROVE  PeersKept'
  <2>1. /\ peers' = peers /\ handler[c] = "send"
        /\ \E state \in {"header", "dead"} : handler' = [handler EXCEPT ![c] = state]
        /\ \/ parsed' = parsed
           \/ parsed' = [parsed EXCEPT ![c] = Append(@, command[c])]
    BY <1>2 DEF SendCommand
  <2>2. QED BY <1>0, <2>1 DEF PeersKept
<1>3. CASE BrokerTakes \/ BrokerAnswers \/ BrokerPanics \/ WriteAnswer
  BY <1>3 DEF BrokerTakes, BrokerAnswers, BrokerPanics, WriteAnswer, PeersKept
<1>4. QED BY <1>1, <1>2, <1>3, MovesAre

\* The pipeline begins with the answers that wait.
LEMMA PipeIs ==
  ASSUME ServerTypeOK
  PROVE  /\ Pipe \in Seq(Command) /\ Pipe = (responses \o working) \o requests
         /\ responses # <<>> => /\ Pipe # <<>> /\ Pipe[1] = Head(responses)
                               /\ Tail(Pipe) = Tail(responses) \o (working \o requests)
<1>1. responses \in Seq(Command) /\ working \in Seq(Command) /\ requests \in Seq(Command)
  BY DEF ServerTypeOK
<1>2. Pipe \in Seq(Command) /\ Pipe = (responses \o working) \o requests
  BY <1>1 DEF Pipe
<1> DEFINE t == working \o requests
<1>3. t \in Seq(Command) /\ Pipe = responses \o t
  BY <1>1 DEF Pipe
<1> HIDE DEF t
<1>4. ASSUME responses # <<>>
      PROVE  Pipe # <<>> /\ Pipe[1] = Head(responses) /\ Tail(Pipe) = Tail(responses) \o t
  <2>1. Len(responses) \in Nat \ {0} /\ Len(t) \in Nat
    BY <1>1, <1>3, <1>4, EmptySeq
  <2>2. Len(responses \o t) = Len(responses) + Len(t) /\ (responses \o t)[1] = responses[1]
    BY <1>1, <1>3, <2>1
  <2>3. Pipe # <<>> /\ Pipe[1] = Head(responses)
    BY <1>1, <1>2, <1>3, <1>4, <2>1, <2>2, EmptySeq
  <2>4. Tail(responses \o t) = Tail(responses) \o t
    BY <1>1, <1>3, <1>4, <2>1
  <2>5. QED BY <1>3, <2>3, <2>4
<1>5. QED BY <1>2, <1>4 DEF t

\* A command is put at the end of the pipeline and taken from its front, and a
\* panic cuts the end off: the numbers stay consecutive.
LEMMA CommandsMove ==
  ASSUME ServerTypeOK, CommandsNumbered, AnswersNumbered, ServerMoves
  PROVE  CommandsNumbered'
<1> USE DEF clientVars, handlerVars, brokerVars, answerVars
<1>0. /\ requests \in Seq(Command) /\ working \in Seq(Command) /\ responses \in Seq(Command)
      /\ handled \in [Conn -> Nat] /\ parsed \in [Conn -> Seq(Seq(Bytes))]
      /\ Pipe \in Seq(Command)
  BY PipeIs DEF ServerTypeOK
<1>1. CASE Idles
  <2>1. UNCHANGED <<broker, working, requests, responses, handled, parsed>>
    BY <1>1 DEF Idles
  <2>2. Pipe' = Pipe
    BY <2>1 DEF Pipe
  <2>3. QED BY <2>1, <2>2 DEF CommandsNumbered
<1>2. ASSUME NEW c \in Conn, SendCommand(c)
      PROVE  CommandsNumbered'
  <2>1. CASE broker = "up"
    <3> DEFINE x == [conn |-> c, n |-> Len(parsed[c]) + 1]
               p2 == [parsed EXCEPT ![c] = Append(@, command[c])]
    <3>1. /\ UNCHANGED <<working, responses, broker, handled>>
          /\ requests' = Append(requests, x)
          /\ parsed' = p2
      BY <1>2, <2>1 DEF SendCommand
    <3>2. x \in Command
      BY <1>0 DEF Command
    <3> HIDE DEF x, p2
    <3>3. Pipe' = Append(Pipe, x)
      <4>1. working \o Append(requests, x) = Append(working \o requests, x)
        BY <1>0, <3>2
      <4>2. /\ working \o requests \in Seq(Command)
            /\ \A t \in Seq(Command) : responses \o Append(t, x) = Append(responses \o t, x)
        BY <1>0, <3>2
      <4>3. QED BY <3>1, <4>1, <4>2 DEF Pipe
    <3>4. Numbered(Pipe, handled, parsed) /\ Complete(Pipe, handled, parsed)
      BY <2>1 DEF CommandsNumbered
    <3>5. handled[c] <= Len(parsed[c]) /\ command[c] \in Seq(Bytes)
      BY DEF AnswersNumbered, ServerTypeOK
    <3>6. /\ Numbered(Append(Pipe, x), handled, p2)
          /\ Complete(Append(Pipe, x), handled, p2)
      BY <1>0, <3>4, <3>5, NumberedSent DEF x, p2
    <3>7. QED BY <2>1, <3>1, <3>3, <3>6 DEF CommandsNumbered
  <2>2. CASE broker # "up"
    BY <1>2, <2>2 DEF SendCommand, CommandsNumbered, Pipe
  <2>3. QED BY <2>1, <2>2
<1>3. CASE BrokerTakes
  <2>1. /\ UNCHANGED <<responses, broker, handled, parsed>>
        /\ working = <<>> /\ requests # <<>> /\ broker = "up"
        /\ working' = <<Head(requests)>> /\ requests' = Tail(requests)
    BY <1>3 DEF BrokerTakes
  <2>2. <<Head(requests)>> \o Tail(requests) = requests /\ <<>> \o requests = requests
    BY <1>0, <2>1, HeadTailProperties
  <2>3. Pipe' = Pipe
    BY <2>1, <2>2 DEF Pipe
  <2>4. QED BY <2>1, <2>3 DEF CommandsNumbered
<1>4. CASE BrokerAnswers
  <2>1. /\ UNCHANGED <<requests, broker, handled, parsed>>
        /\ working # <<>> /\ working' = <<>> /\ responses' = responses \o working
    BY <1>4 DEF BrokerAnswers
  <2>2. <<>> \o requests = requests
    BY <1>0
  <2>3. Pipe' = Pipe
    BY <2>1, <2>2, PipeIs DEF Pipe
  <2>4. QED BY <2>1, <2>3 DEF CommandsNumbered
<1>5. CASE BrokerPanics
  <2>1. /\ UNCHANGED <<responses, handled, parsed>>
        /\ working' = <<>> /\ requests' = <<>> /\ broker' = "dead"
    BY <1>5 DEF BrokerPanics
  <2>2. Pipe' = responses
    <3>1. <<>> \o <<>> = <<>> /\ responses \o <<>> = responses
      BY <1>0
    <3>2. QED BY <2>1, <3>1 DEF Pipe
  <2>3. working \o requests \in Seq(Command) /\ Pipe = responses \o (working \o requests)
    BY <1>0 DEF Pipe
  <2>4. Numbered(responses, handled, parsed)
    BY <1>0, <2>3, NumberedPrefix DEF CommandsNumbered
  <2>5. QED BY <2>1, <2>2, <2>4 DEF CommandsNumbered
<1>6. CASE WriteAnswer
  <2> DEFINE c == Head(responses).conn
             h2 == [handled EXCEPT ![c] = @ + 1]
  <2>1. /\ UNCHANGED <<requests, working, broker, parsed>>
        /\ responses # <<>> /\ responses' = Tail(responses) /\ handled' = h2
    BY <1>6 DEF WriteAnswer
  <2>2. Pipe # <<>> /\ Pipe[1] = Head(responses) /\ Pipe' = Tail(Pipe)
    BY <2>1, PipeIs DEF Pipe
  <2>3. Numbered(Tail(Pipe), h2, parsed)
        /\ (Complete(Pipe, handled, parsed) => Complete(Tail(Pipe), h2, parsed))
    BY <1>0, <2>2, NumberedWritten DEF CommandsNumbered
  <2> HIDE DEF h2
  <2>4. QED BY <2>1, <2>2, <2>3 DEF CommandsNumbered
<1>7. QED BY <1>1, <1>2, <1>3, <1>4, <1>5, <1>6, MovesAre

\* The answer that is written has the next number of its connection.
LEMMA AnswersMove ==
  ASSUME ServerTypeOK, PeersKept, CommandsNumbered, AnswersNumbered, ServerMoves
  PROVE  AnswersNumbered'
<1> USE DEF clientVars, handlerVars, brokerVars, answerVars
<1>0. /\ handled \in [Conn -> Nat] /\ parsed \in [Conn -> Seq(Seq(Bytes))]
      /\ answers \in [Conn -> Seq(Answer)] /\ peers \subseteq Conn
  BY DEF ServerTypeOK
<1>1. CASE Idles
  <2>1. ASSUME NEW d \in Conn
        PROVE  Len(answers[d]) = handled[d] \/ d \notin peers'
    <3>1. CASE d \in peers
      BY <3>1 DEF AnswersNumbered
    <3>2. CASE d \notin peers /\ d \in peers'
      <4>1. InsertPeer(d)
        BY <1>1, <3>2 DEF Idles, InsertPeer, RemovePeer
      <4>2. Len(parsed[d]) = 0
        BY <4>1, EmptySeq DEF InsertPeer, PeersKept
      <4>3. QED BY <1>0, <4>2 DEF AnswersNumbered
    <3>3. QED BY <3>1, <3>2
  <2>2. QED BY <1>1, <2>1 DEF Idles, AnswersNumbered
<1>2. ASSUME NEW c \in Conn, SendCommand(c)
      PROVE  AnswersNumbered'
  <2>1. /\ UNCHANGED <<answers, handled, peers>>
        /\ \/ parsed' = parsed
           \/ parsed' = [parsed EXCEPT ![c] = Append(@, command[c])]
    BY <1>2 DEF SendCommand
  <2>2. \A d \in Conn : Len(parsed[d]) <= Len(parsed'[d]) /\ Len(parsed'[d]) \in Nat
    <3>1. \A d \in Conn : parsed[d] \in Seq(Seq(Bytes)) /\ Len(parsed[d]) \in Nat
      BY <1>0
    <3>2. Len(Append(parsed[c], command[c])) = Len(parsed[c]) + 1
      BY <3>1
    <3>3. CASE parsed' = parsed
      BY <3>1, <3>3
    <3>4. CASE parsed' = [parsed EXCEPT ![c] = Append(@, command[c])]
      <4>1. /\ parsed'[c] = Append(parsed[c], command[c])
            /\ \A d \in Conn : d # c => parsed'[d] = parsed[d]
        BY <1>0, <3>4
      <4>2. Len(parsed[c]) <= Len(parsed'[c]) /\ Len(parsed'[c]) \in Nat
        BY <3>1, <3>2, <4>1
      <4>3. \A d \in Conn : d # c => Len(parsed[d]) <= Len(parsed'[d]) /\ Len(parsed'[d]) \in Nat
        BY <3>1, <4>1
      <4>4. QED BY <4>2, <4>3
    <3>5. QED BY <2>1, <3>3, <3>4
  <2>3. QED
    <3> SUFFICES ASSUME NEW d \in Conn
                 PROVE  /\ Len(answers[d]) <= handled[d] /\ handled[d] <= Len(parsed'[d])
                        /\ \A i \in 1 .. Len(answers[d]) : answers[d][i].n = i
                        /\ Len(answers[d]) = handled[d] \/ d \notin peers
      BY <2>1 DEF AnswersNumbered
    <3>1. Len(parsed[d]) \in Nat /\ handled[d] \in Nat
      BY <1>0
    <3>2. QED BY <2>2, <3>1 DEF AnswersNumbered
<1>3. CASE BrokerTakes \/ BrokerAnswers \/ BrokerPanics
  BY <1>3 DEF BrokerTakes, BrokerAnswers, BrokerPanics, AnswersNumbered
<1>4. CASE WriteAnswer
  <2> DEFINE r == Head(responses)
             c == r.conn
             a(n) == [n |-> r.n, whole |-> n = AnswerSize]
  <2>1. /\ UNCHANGED <<peers, parsed>> /\ responses # <<>>
        /\ handled' = [handled EXCEPT ![c] = @ + 1]
        /\ \/ /\ c \in peers
              /\ \E n \in Written(c) : answers' = [answers EXCEPT ![c] = Append(@, a(n))]
           \/ c \notin peers /\ answers' = answers
    BY <1>4 DEF WriteAnswer
  <2>2. c \in Conn /\ r.n = handled[c] + 1 /\ handled[c] + 1 <= Len(parsed[c])
    <3>1. Pipe # <<>> /\ Pipe[1] = r /\ Pipe \in Seq(Command)
      BY <2>1, PipeIs
    <3>2. QED BY <1>0, <3>1, NumberedWritten DEF CommandsNumbered
  <2>a. \A n : a(n) \in Answer /\ a(n).n = r.n
    BY <1>0, <2>2 DEF Answer
  <2> HIDE DEF c, r, a
  <2>3. ASSUME NEW d \in Conn
        PROVE  /\ Len(answers'[d]) <= handled'[d] /\ handled'[d] <= Len(parsed[d])
               /\ \A i \in 1 .. Len(answers'[d]) : answers'[d][i].n = i
               /\ Len(answers'[d]) = handled'[d] \/ d \notin peers
    <3>0. /\ answers[d] \in Seq(Answer) /\ Len(answers[d]) \in Nat
          /\ handled[d] \in Nat /\ parsed[d] \in Seq(Seq(Bytes)) /\ Len(parsed[d]) \in Nat
      BY <1>0
    <3>1. /\ Len(answers[d]) \in Nat /\ handled[d] \in Nat /\ Len(parsed[d]) \in Nat
          /\ Len(answers[d]) <= handled[d] /\ handled[d] <= Len(parsed[d])
          /\ \A i \in 1 .. Len(answers[d]) : answers[d][i].n = i
          /\ Len(answers[d]) = handled[d] \/ d \notin peers
      BY <3>0 DEF AnswersNumbered
    <3>2. CASE d # c
      <4>1. answers'[d] = answers[d] /\ handled'[d] = handled[d]
        BY <1>0, <2>1, <2>2, <3>2
      <4>2. QED BY <3>1, <4>1
    <3>3. CASE d = c /\ c \notin peers
      <4>1. answers'[d] = answers[d] /\ handled'[d] = handled[d] + 1
        BY <1>0, <2>1, <2>2, <3>3
      <4>2. QED BY <2>2, <3>1, <3>3, <4>1
    <3>4. CASE d = c /\ c \in peers
      <4>1. PICK n \in Written(c) : answers' = [answers EXCEPT ![c] = Append(@, a(n))]
        BY <2>1, <3>4
      <4>2. answers'[d] = Append(answers[d], a(n)) /\ handled'[d] = handled[d] + 1
        BY <1>0, <2>1, <2>2, <3>4, <4>1
      <4>3. Len(answers[d]) = handled[d]
        BY <3>1, <3>4
      <4>4. /\ Len(answers'[d]) = Len(answers[d]) + 1
            /\ \A i \in 1 .. Len(answers[d]) : answers'[d][i] = answers[d][i]
            /\ answers'[d][Len(answers[d]) + 1] = a(n)
        BY <1>0, <2>a, <4>2
      <4>5. a(n).n = Len(answers[d]) + 1
        BY <2>2, <2>a, <3>4, <4>3
      <4>6. \A i \in 1 .. Len(answers'[d]) : answers'[d][i].n = i
        BY <3>1, <4>4, <4>5
      <4>7. QED BY <2>2, <3>1, <3>4, <4>2, <4>3, <4>4, <4>6
    <3>5. QED BY <3>2, <3>3, <3>4
  <2>4. QED BY <2>1, <2>3 DEF AnswersNumbered
<1>5. QED BY <1>1, <1>2, <1>3, <1>4, MovesAre

\* A queue of at most one element that is not empty has one.
LEMMA Single ==
  ASSUME NEW S, NEW q \in Seq(S), q # <<>>, Len(q) <= 1
  PROVE  Len(q) = 1
<1>1. Len(q) \in Nat /\ Len(q) # 0
  BY EmptySeq
<1>2. QED BY <1>1

\* As long as the broker runs, a command moves from one queue to the next.
LEMMA CountedMove ==
  ASSUME ServerTypeOK, CommandsNumbered, NothingLostInside, ServerMoves
  PROVE  NothingLostInside'
<1> USE DEF clientVars, handlerVars, brokerVars, answerVars
<1>0. /\ requests \in Seq(Command) /\ working \in Seq(Command) /\ Len(working) <= 1
      /\ responses \in Seq(Command)
      /\ handled \in [Conn -> Nat] /\ parsed \in [Conn -> Seq(Seq(Bytes))]
  BY DEF ServerTypeOK
<1>n. ASSUME NEW c
      PROVE  /\ Count(requests, c) \in Nat /\ Count(working, c) \in Nat
             /\ Count(responses, c) \in Nat /\ Count(<<>>, c) = 0
  BY <1>0, CountType
<1> SUFFICES ASSUME broker' = "up", NEW d \in Conn
             PROVE  handled'[d] + (Count(requests', d) + Count(working', d) + Count(responses', d))
                      = Len(parsed'[d])
  BY DEF InPipeline, Count, NothingLostInside
<1> DEFINE Total == Count(requests, d) + Count(working, d) + Count(responses, d)
           Later == Count(requests', d) + Count(working', d) + Count(responses', d)
<1>i. broker = "up" => handled[d] + Total = Len(parsed[d])
  BY PipelineCounts DEF NothingLostInside
<1> HIDE DEF Total, Later
<1> SUFFICES handled'[d] + Later = Len(parsed'[d])
  BY DEF Later
<1>t. handled[d] \in Nat /\ parsed[d] \in Seq(Seq(Bytes)) /\ Len(parsed[d]) \in Nat
  BY <1>0
<1>1. CASE Idles
  BY <1>1, <1>i DEF Idles, Total, Later
<1>2. ASSUME NEW c \in Conn, SendCommand(c)
      PROVE  handled'[d] + Later = Len(parsed'[d])
  <2> DEFINE x == [conn |-> c, n |-> Len(parsed[c]) + 1]
  <2>1. broker = "up"
    BY <1>2 DEF SendCommand
  <2>2. /\ UNCHANGED <<working, responses, handled>>
        /\ requests' = Append(requests, x)
        /\ parsed' = [parsed EXCEPT ![c] = Append(@, command[c])]
    BY <1>2, <2>1 DEF SendCommand
  <2>3. x \in Command /\ x.conn = c
    BY <1>0 DEF Command
  <2> HIDE DEF x
  <2>4. Count(requests', d) = Count(requests, d) + IF c = d THEN 1 ELSE 0
    BY <1>0, <2>2, <2>3, CountAppend
  <2>5. (c = d => parsed'[d] = Append(parsed[d], command[c])) /\ (c # d => parsed'[d] = parsed[d])
    BY <1>0, <2>2
  <2>6. Len(Append(parsed[d], command[c])) = Len(parsed[d]) + 1
    BY <1>t
  <2>7. Len(parsed'[d]) = Len(parsed[d]) + IF c = d THEN 1 ELSE 0
    <3>1. CASE c = d
      BY <1>t, <2>5, <2>6, <3>1
    <3>2. CASE c # d
      BY <1>t, <2>5, <3>2
    <3>3. QED BY <3>1, <3>2
  <2>8. handled[d] + Total = Len(parsed[d])
    BY <1>i, <2>1
  <2>9. Later = Total + IF c = d THEN 1 ELSE 0
    BY <1>n, <2>2, <2>4 DEF Total, Later
  <2>10. Total \in Nat
    BY <1>n DEF Total, Later
  <2>11. handled'[d] = handled[d]
    BY <2>2
  <2> DEFINE one == IF c = d THEN 1 ELSE 0
  <2>12. one \in Nat
    OBVIOUS
  <2>13. Len(parsed'[d]) = Len(parsed[d]) + one /\ Later = Total + one
    BY <2>7, <2>9
  <2> HIDE DEF one
  <2>14. Len(parsed[d]) \in Nat /\ handled[d] \in Nat
    BY <1>t
  <2>15. QED BY <2>8, <2>10, <2>11, <2>12, <2>13, <2>14
<1>3. CASE BrokerTakes
  <2>1. /\ UNCHANGED <<responses, broker, handled, parsed>>
        /\ working = <<>> /\ requests # <<>> /\ broker = "up"
        /\ working' = <<Head(requests)>> /\ requests' = Tail(requests)
    BY <1>3 DEF BrokerTakes
  <2>2. Head(requests) \in Command /\ <<Head(requests)>> = Append(<<>>, Head(requests))
    BY <1>0, <2>1, HeadTailProperties
  <2>3. Count(working', d) = IF Head(requests).conn = d THEN 1 ELSE 0
    <3>1. <<>> \in Seq(Command)
      BY EmptySeq
    <3>2. Count(Append(<<>>, Head(requests)), d)
            = Count(<<>>, d) + IF Head(requests).conn = d THEN 1 ELSE 0
      BY <2>2, <3>1, CountAppend
    <3>3. QED BY <1>n, <2>1, <2>2, <3>2
  <2>4. Count(requests, d) = Count(requests', d) + IF Head(requests).conn = d THEN 1 ELSE 0
    BY <1>0, <2>1, CountTail
  <2>5. Count(requests', d) \in Nat
    <3>1. requests' \in Seq(Command)
      BY <1>0, <2>1, HeadTailProperties
    <3>2. QED BY <3>1, CountType
  <2>6. QED BY <1>i, <1>n, <1>t, <2>1, <2>3, <2>4, <2>5 DEF Total, Later
<1>4. CASE BrokerAnswers
  <2>1. /\ UNCHANGED <<requests, broker, handled, parsed>>
        /\ working # <<>> /\ working' = <<>> /\ responses' = responses \o working
    BY <1>4 DEF BrokerAnswers
  <2>2. working[1] \in Command /\ working = Append(<<>>, working[1])
        /\ responses \o working = Append(responses, working[1])
    <3>1. Len(working) = 1
      BY <1>0, <2>1, Single
    <3>2. working[1] \in Command
      <4>1. 1 \in 1 .. Len(working)
        BY <3>1
      <4>2. QED BY <1>0, <4>1, ElementOfSeq
    <3>3. working = <<working[1]>>
      BY <1>0, <3>1
    <3>4. \A w : <<w>> = Append(<<>>, w)
      OBVIOUS
    <3>5. \A w \in Command : responses \o <<w>> = Append(responses, w)
      BY <1>0
    <3>6. QED BY <3>2, <3>3, <3>4, <3>5, Zenon
  <2>3. Count(working, d) = IF working[1].conn = d THEN 1 ELSE 0
    <3>1. <<>> \in Seq(Command)
      BY EmptySeq
    <3>2. Count(Append(<<>>, working[1]), d) = Count(<<>>, d) + IF working[1].conn = d THEN 1 ELSE 0
      BY <2>2, <3>1, CountAppend
    <3>3. QED BY <1>n, <2>2, <3>2
  <2>4. Count(responses', d) = Count(responses, d) + IF working[1].conn = d THEN 1 ELSE 0
    BY <1>0, <2>1, <2>2, CountAppend
  <2>5. Count(working', d) = 0
    BY <1>n, <2>1
  <2>6. QED BY <1>i, <1>n, <1>t, <2>1, <2>3, <2>4, <2>5 DEF Total, Later
<1>5. CASE BrokerPanics
  BY <1>5 DEF BrokerPanics
<1>6. CASE WriteAnswer
  <2>1. /\ UNCHANGED <<requests, working, broker, parsed>> /\ responses # <<>>
        /\ responses' = Tail(responses)
        /\ handled' = [handled EXCEPT ![Head(responses).conn] = @ + 1]
    BY <1>6 DEF WriteAnswer
  <2>2. Count(responses, d) = Count(responses', d) + IF Head(responses).conn = d THEN 1 ELSE 0
    BY <1>0, <2>1, CountTail
  <2>3. Count(responses', d) \in Nat
    <3>1. responses' \in Seq(Command)
      BY <1>0, <2>1, HeadTailProperties
    <3>2. QED BY <3>1, CountType
  <2>4. handled'[d] = handled[d] + IF Head(responses).conn = d THEN 1 ELSE 0
    BY <1>0, <1>t, <2>1
  <2>5. QED BY <1>i, <1>n, <1>t, <2>1, <2>2, <2>3, <2>4 DEF Total, Later
<1>7. QED BY <1>1, <1>2, <1>3, <1>4, <1>5, <1>6, MovesAre

-----------------------------------------------------------------------------
\* AnswersToOwner and AnswerFindsPeer are not inductive: that an answer is the
\* next one of its connection rests on the numbers of all the commands behind it,
\* and that it is written and not dropped on how long an entry of the peer map
\* lives.
PipelineInv ==
  ServerTypeOK /\ PeersKept /\ CommandsNumbered /\ AnswersNumbered /\ NothingLostInside

\* The invariant holds of an empty pipeline.
LEMMA PipelineStarts == ServerInit => PipelineInv
<1> SUFFICES ASSUME ServerInit
             PROVE  PipelineInv
  OBVIOUS
<1>1. ServerTypeOK
  BY TypesStart
<1>2. /\ Pipe = <<>> /\ \A c \in Conn : handled[c] = 0 /\ parsed[c] = <<>> /\ answers[c] = <<>>
  <2>1. <<>> \o <<>> = <<>>
    OBVIOUS
  <2>2. QED BY <2>1 DEF ServerInit, Pipe
<1>3. PeersKept
  BY <1>2 DEF ServerInit, PeersKept
<1>4. Len(<<>>) = 0 /\ 1 .. 0 = {} /\ 0 + 1 .. 0 = {}
  BY EmptySeq
<1>5. CommandsNumbered
  BY <1>2, <1>4 DEF ServerInit, CommandsNumbered, Numbered, Complete
<1>6. AnswersNumbered
  BY <1>2, <1>4 DEF AnswersNumbered
<1>7. NothingLostInside
  <2>1. \A c \in Conn : InPipeline(c) = 0
    <3>1. <<>> \in Seq(Command)
      BY EmptySeq
    <3>2. \A c : Count(<<>>, c) = 0
      BY <3>1, CountType
    <3>3. QED BY <3>2, PipelineCounts DEF ServerInit
  <2>2. QED BY <1>2, <1>4, <2>1 DEF NothingLostInside
<1>8. QED BY <1>1, <1>3, <1>5, <1>6, <1>7 DEF PipelineInv

\* Every step of ServerMoves keeps it.
LEMMA PipelineMove == PipelineInv /\ ServerMoves => PipelineInv'
BY TypesMove, PeersMove, CommandsMove, AnswersMove, CountedMove DEF PipelineInv

\* It says what the runs check.
LEMMA PipelineGives ==
  ASSUME PipelineInv
  PROVE  AnswersToOwner /\ AnswerFindsPeer /\ NothingLostInside
<1>1. AnswersToOwner
  <2> SUFFICES ASSUME NEW c \in Conn, NEW i \in DOMAIN answers[c]
               PROVE  /\ answers[c][i].n <= Len(parsed[c])
                      /\ i > 1 => answers[c][i - 1].n < answers[c][i].n
    BY DEF AnswersToOwner
  <2>1. /\ answers[c] \in Seq(Answer) /\ parsed[c] \in Seq(Seq(Bytes))
        /\ handled[c] \in Nat
    BY DEF PipelineInv, ServerTypeOK
  <2>2. /\ Len(answers[c]) \in Nat /\ Len(parsed[c]) \in Nat
        /\ DOMAIN answers[c] = 1 .. Len(answers[c])
    BY <2>1
  <2>3. /\ Len(answers[c]) <= handled[c] /\ handled[c] <= Len(parsed[c])
        /\ \A j \in 1 .. Len(answers[c]) : answers[c][j].n = j
    BY DEF PipelineInv, AnswersNumbered
  <2>4. answers[c][i].n = i /\ (i > 1 => answers[c][i - 1].n = i - 1)
    BY <2>2, <2>3
  <2>5. QED BY <2>1, <2>2, <2>3, <2>4
<1>2. AnswerFindsPeer
  <2>1. responses \in Seq(Command) /\ DOMAIN responses = 1 .. Len(responses)
    BY DEF PipelineInv, ServerTypeOK
  <2>2. \A i \in DOMAIN responses : responses[i].conn \in Conn
    BY <2>1, CommandAt
  <2>3. QED BY <2>2 DEF PipelineInv, PeersKept, AnswerFindsPeer
<1>3. QED BY <1>1, <1>2 DEF PipelineInv

\* The invariant holds of every behaviour of the server.
THEOREM ServerPipeline == ServerSpec => []PipelineInv
<1>1. PipelineInv /\ [ServerNext]_serverVars => PipelineInv'
  BY StepMoves, PipelineMove DEF PipelineInv
<1>2. QED BY <1>1, PipelineStarts, PTL DEF ServerSpec

\* Types, at most one command with the broker (working), channels and sockets
\* never fuller than they can be.
THEOREM ServerTypes == ServerSpec => []ServerTypeOK
<1>1. PipelineInv => ServerTypeOK
  BY DEF PipelineInv
<1>2. QED BY <1>1, ServerPipeline, PTL

\* A socket gets answers to its own commands only, in their order and none twice,
\* whatever the handlers, the broker and the writer of answers (main.rs,
\* tcp_server.rs) do in between.
THEOREM ServerAnswers == ServerSpec => []AnswersToOwner
BY PipelineGives, ServerPipeline, PTL

\* The answer to a handler that still reads finds its socket in the peer map.
THEOREM ServerPeers == ServerSpec => []AnswerFindsPeer
BY PipelineGives, ServerPipeline, PTL

\* Until the broker panics, the commands sent are those dealt with and those in
\* the two channels and with the broker.
THEOREM ServerLoses == ServerSpec => []NothingLostInside
BY PipelineGives, ServerPipeline, PTL

-----------------------------------------------------------------------------
\* The bytes s are messages number from + 1 to number to of ms, each with its
\* header in front; b[i] is where the i-th one ends.  The first message begins at
\* base: -2 when its header is no longer among the bytes.
Cut(b, from, to, s, ms, base) ==
  /\ b[from] = base /\ b[to] = Len(s)
  /\ \A i, j \in from .. to : i <= j => b[i] <= b[j]
  /\ \A i \in from + 1 .. to :
       /\ b[i] = b[i - 1] + 2 + Len(ms[i])
       /\ b[i - 1] >= 0 => /\ s[b[i - 1] + 1] = Len(ms[i]) % ByteSpan
                           /\ s[b[i - 1] + 2] = Len(ms[i]) \div ByteSpan
       /\ \A k \in 1 .. Len(ms[i]) : s[b[i - 1] + 2 + k] = ms[i][k]

\* The bytes s are whole frames, of the messages after from up to to.
Frames(s, ms, from, to, base) ==
  from <= to /\ \E b \in [from .. to -> Int] : Cut(b, from, to, s, ms, base)

\* How many messages left the wire.
Arrived(c) == Len(sent[c]) - Len(wire[c])

\* Where the handler is in the stream of its client: what it sent to the broker is
\* a prefix of the messages; the socket has the frames that follow, without the
\* header once that was read, and the wire the frames after those.
Framed(c) ==
  LET p == Len(parsed[c]) IN
  /\ p <= Len(sent[c]) /\ \A i \in 1 .. p : parsed[c][i] = sent[c][i]
  /\ handler[c] = "send" => p < Len(sent[c]) /\ command[c] = sent[c][p + 1]
  /\ link[c] # "reset" =>
       /\ Len(wire[c]) <= Len(sent[c])
       /\ \A i \in 1 .. Len(wire[c]) : wire[c][i] = Frame(sent[c][Arrived(c) + i])
       /\ handler[c] \in {"idle", "accepted", "header"} => Frames(socket[c], sent[c], p, Arrived(c), 0)
       /\ handler[c] = "body" => /\ p < Arrived(c) /\ size[c] = Len(sent[c][p + 1])
                                 /\ Frames(socket[c], sent[c], p, Arrived(c), -2)
       /\ handler[c] = "send" => Frames(socket[c], sent[c], p + 1, Arrived(c), 0)

\* CommandsAreMessages is not inductive: it rests on every handler being at the
\* border of a frame when it reads a header.
FramesInOrder == \A c \in Conn : Framed(c)

-----------------------------------------------------------------------------
\* The borders of messages are inside the bytes, and so is what they delimit.
LEMMA CutBounds ==
  ASSUME NEW s \in Seq(Bytes), NEW ms \in Seq(Message), NEW from \in Nat, NEW to \in Nat,
         from <= to, to <= Len(ms), NEW base \in Int, base >= -2,
         NEW b \in [from .. to -> Int], Cut(b, from, to, s, ms, base)
  PROVE  /\ \A i \in from .. to : b[i] \in Int /\ base <= b[i] /\ b[i] <= Len(s)
         /\ \A i \in from + 1 .. to :
              /\ i - 1 \in from .. to /\ i \in from .. to
              /\ ms[i] \in Message /\ Len(ms[i]) \in Nat \ {0}
              /\ b[i] = b[i - 1] + 2 + Len(ms[i])
              /\ \A k \in 1 .. Len(ms[i]) : b[i - 1] + 2 + k \in 1 .. Len(s)
              /\ b[i - 1] >= 0 => b[i - 1] + 1 \in 1 .. Len(s) /\ b[i - 1] + 2 \in 1 .. Len(s)
<1>1. Len(s) \in Nat /\ Len(ms) \in Nat
  OBVIOUS
<1>2. from \in from .. to /\ to \in from .. to /\ b[from] = base /\ b[to] = Len(s)
      /\ \A i, j \in from .. to : i <= j => b[i] <= b[j]
  BY DEF Cut
<1>3. \A i \in from .. to : b[i] \in Int /\ base <= b[i] /\ b[i] <= Len(s)
  BY <1>2
<1>4. ASSUME NEW i \in from + 1 .. to
      PROVE  /\ i - 1 \in from .. to /\ i \in from .. to
             /\ ms[i] \in Message /\ Len(ms[i]) \in Nat \ {0}
             /\ b[i] = b[i - 1] + 2 + Len(ms[i])
             /\ \A k \in 1 .. Len(ms[i]) : b[i - 1] + 2 + k \in 1 .. Len(s)
             /\ b[i - 1] >= 0 => b[i - 1] + 1 \in 1 .. Len(s) /\ b[i - 1] + 2 \in 1 .. Len(s)
  <2>0. i - 1 \in from .. to /\ i \in from .. to /\ i \in 1 .. Len(ms)
    BY <1>1
  <2>a. ms[i] \in Message
    BY <2>0, ElementOfSeq
  <2>b. Len(ms[i]) \in Nat \ {0}
    BY <2>a, FrameBytes
  <2>c. b[i] = b[i - 1] + 2 + Len(ms[i])
    BY DEF Cut
  <2>1. /\ i - 1 \in from .. to /\ i \in from .. to
        /\ ms[i] \in Message /\ Len(ms[i]) \in Nat \ {0}
        /\ b[i] = b[i - 1] + 2 + Len(ms[i])
    BY <2>0, <2>a, <2>b, <2>c
  <2>5. b[i - 1] \in Int /\ b[i] \in Int /\ -2 <= b[i - 1] /\ b[i] <= Len(s)
    BY <1>3, <2>1
  <2> DEFINE x == b[i - 1]
             y == b[i]
             l == Len(ms[i])
             n == Len(s)
  <2>6. /\ x \in Int /\ y \in Int /\ -2 <= x /\ y <= n /\ n \in Nat /\ l \in Nat \ {0}
        /\ y = x + 2 + l
    BY <1>1, <2>1, <2>5
  <2> HIDE DEF x, y, l, n
  <2>7. /\ \A k \in 1 .. l : x + 2 + k \in 1 .. n
        /\ x >= 0 => x + 1 \in 1 .. n /\ x + 2 \in 1 .. n
    BY <2>6
  <2>8. QED BY <2>1, <2>7 DEF x, l, n
<1>5. QED BY <1>3, <1>4

\* One more frame behind the others.
LEMMA CutExtends ==
  ASSUME NEW s \in Seq(Bytes), NEW ms \in Seq(Message), NEW from \in Nat, NEW to \in Nat,
         from <= to, to + 1 <= Len(ms), NEW base \in Int, base >= -2,
         NEW b \in [from .. to -> Int], Cut(b, from, to, s, ms, base)
  PROVE  \E b2 \in [from .. to + 1 -> Int] :
           Cut(b2, from, to + 1, s \o Frame(ms[to + 1]), ms, base)
<1> DEFINE m == ms[to + 1]
           f == Frame(m)
           s2 == s \o f
           b2 == [i \in from .. to + 1 |-> IF i = to + 1 THEN Len(s) + 2 + Len(m) ELSE b[i]]
<1>1. Len(ms) \in Nat /\ to + 1 \in 1 .. Len(ms) /\ Len(s) \in Nat
  OBVIOUS
<1>2. m \in Message
  BY <1>1, ElementOfSeq
<1>3. /\ f \in Seq(Bytes) /\ Len(m) \in Nat \ {0} /\ Len(f) = Len(m) + 2
      /\ f[1] = Len(m) % ByteSpan /\ f[2] = Len(m) \div ByteSpan
      /\ \A i \in 1 .. Len(m) : f[i + 2] = m[i]
  BY <1>2, FrameBytes
<1> HIDE DEF f, m
<1>4. /\ Len(s2) = Len(s) + Len(f)
      /\ \A i \in 1 .. Len(s) + Len(f) : s2[i] = IF i <= Len(s) THEN s[i] ELSE f[i - Len(s)]
  BY <1>3, ConcatProperties
<1> HIDE DEF s2
<1>5. /\ \A i \in 1 .. Len(s) : s2[i] = s[i]
      /\ Len(s2) = Len(s) + 2 + Len(m)
      /\ s2[Len(s) + 1] = f[1] /\ s2[Len(s) + 2] = f[2]
      /\ \A k \in 1 .. Len(m) : s2[Len(s) + 2 + k] = f[k + 2]
  <2> DEFINE n == Len(s)
             l == Len(m)
  <2>0. n \in Nat /\ l \in Nat /\ Len(f) = l + 2
        /\ \A i \in 1 .. n + (l + 2) : s2[i] = IF i <= n THEN s[i] ELSE f[i - n]
    BY <1>1, <1>3, <1>4
  <2> HIDE DEF n, l
  <2>a. \A i \in 1 .. n : s2[i] = s[i]
    BY <2>0
  <2>b. \A k \in 1 .. l + 2 : s2[n + k] = f[k]
    <3>1. \A k \in 1 .. l + 2 : n + k \in 1 .. n + (l + 2) /\ ~(n + k <= n) /\ n + k - n = k
      BY <2>0
    <3>2. QED BY <2>0, <3>1
  <2>1. \A i \in 1 .. Len(s) : s2[i] = s[i]
    BY <2>a DEF n
  <2>2. \A k \in 1 .. Len(m) + 2 : s2[Len(s) + k] = f[k]
    BY <2>b DEF n, l
  <2>3. 1 \in 1 .. Len(m) + 2 /\ 2 \in 1 .. Len(m) + 2
    BY <1>3
  <2>4. \A k \in 1 .. Len(m) : k + 2 \in 1 .. Len(m) + 2 /\ Len(s) + (k + 2) = Len(s) + 2 + k
    BY <1>1, <1>3
  <2>5. \A k \in 1 .. Len(m) : s2[Len(s) + 2 + k] = f[k + 2]
    BY <2>2, <2>4
  <2>6. QED BY <1>1, <1>3, <1>4, <2>1, <2>2, <2>3, <2>5
<1>6. /\ \A i \in from .. to : b[i] \in Int /\ base <= b[i] /\ b[i] <= Len(s)
      /\ \A i \in from + 1 .. to :
           /\ i - 1 \in from .. to /\ i \in from .. to
           /\ ms[i] \in Message /\ Len(ms[i]) \in Nat \ {0}
           /\ b[i] = b[i - 1] + 2 + Len(ms[i])
           /\ \A k \in 1 .. Len(ms[i]) : b[i - 1] + 2 + k \in 1 .. Len(s)
           /\ b[i - 1] >= 0 => b[i - 1] + 1 \in 1 .. Len(s) /\ b[i - 1] + 2 \in 1 .. Len(s)
  <2>1. to <= Len(ms)
    BY <1>1
  <2>2. QED BY <2>1, CutBounds
<1>7. /\ b[from] = base /\ b[to] = Len(s)
      /\ \A i, j \in from .. to : i <= j => b[i] <= b[j]
  BY DEF Cut
<1>8. /\ b2 \in [from .. to + 1 -> Int] /\ b2[to + 1] = Len(s) + 2 + Len(m)
      /\ \A i \in from .. to : b2[i] = b[i] /\ i \in from .. to + 1
  <2>1. \A i \in from .. to + 1 : i # to + 1 => i \in from .. to
    OBVIOUS
  <2>2. \A i \in from .. to : i # to + 1 /\ i \in from .. to + 1
    OBVIOUS
  <2>3. to + 1 \in from .. to + 1
    OBVIOUS
  <2>4. Len(s) + 2 + Len(m) \in Int
    BY <1>1, <1>3
  <2>5. QED BY <1>6, <2>1, <2>2, <2>3, <2>4
<1> HIDE DEF b2
<1>9. b2[from] = base /\ b2[to + 1] = Len(s2)
  BY <1>5, <1>7, <1>8
<1>10. \A i, j \in from .. to + 1 : i <= j => b2[i] <= b2[j]
  <2>1. ASSUME NEW i \in from .. to + 1, NEW j \in from .. to + 1, i <= j
        PROVE  b2[i] <= b2[j]
    <3>1. CASE j # to + 1
      <4>1. i \in from .. to /\ j \in from .. to
        BY <2>1, <3>1
      <4>2. QED BY <1>7, <1>8, <2>1, <4>1
    <3>2. CASE j = to + 1 /\ i # to + 1
      <4>1. i \in from .. to
        BY <2>1, <3>2
      <4>2. b[i] <= Len(s) /\ b[i] \in Int /\ b2[i] = b[i]
        BY <1>6, <1>8, <4>1
      <4>3. QED BY <1>1, <1>3, <1>8, <3>2, <4>2
    <3>3. CASE j = to + 1 /\ i = to + 1
      BY <1>1, <1>3, <1>8, <3>3
    <3>4. QED BY <3>1, <3>2, <3>3
  <2>2. QED BY <2>1
<1>11. ASSUME NEW i \in from + 1 .. to + 1
       PROVE  /\ b2[i] = b2[i - 1] + 2 + Len(ms[i])
              /\ b2[i - 1] >= 0 => /\ s2[b2[i - 1] + 1] = Len(ms[i]) % ByteSpan
                                   /\ s2[b2[i - 1] + 2] = Len(ms[i]) \div ByteSpan
              /\ \A k \in 1 .. Len(ms[i]) : s2[b2[i - 1] + 2 + k] = ms[i][k]
  <2>1. CASE i = to + 1
    <3>1. i - 1 = to /\ to \in from .. to /\ ms[i] = m
      BY <2>1 DEF m
    <3>2. b2[i - 1] = Len(s) /\ b2[i] = Len(s) + 2 + Len(m)
      BY <1>7, <1>8, <2>1, <3>1
    <3>3. /\ s2[Len(s) + 1] = Len(m) % ByteSpan /\ s2[Len(s) + 2] = Len(m) \div ByteSpan
          /\ \A k \in 1 .. Len(m) : s2[Len(s) + 2 + k] = m[k]
      BY <1>3, <1>5
    <3>4. QED BY <3>1, <3>2, <3>3
  <2>2. CASE i # to + 1
    <3>1. i \in from + 1 .. to /\ i - 1 \in from .. to /\ i \in from .. to
      BY <2>2
    <3>2. b2[i] = b[i] /\ b2[i - 1] = b[i - 1]
      BY <1>8, <3>1
    <3>3. /\ b[i] = b[i - 1] + 2 + Len(ms[i])
          /\ b[i - 1] >= 0 => /\ s[b[i - 1] + 1] = Len(ms[i]) % ByteSpan
                              /\ s[b[i - 1] + 2] = Len(ms[i]) \div ByteSpan
          /\ \A k \in 1 .. Len(ms[i]) : s[b[i - 1] + 2 + k] = ms[i][k]
      BY <3>1 DEF Cut
    <3>4. /\ \A k \in 1 .. Len(ms[i]) : s2[b[i - 1] + 2 + k] = s[b[i - 1] + 2 + k]
          /\ b[i - 1] >= 0 => /\ s2[b[i - 1] + 1] = s[b[i - 1] + 1]
                              /\ s2[b[i - 1] + 2] = s[b[i - 1] + 2]
      BY <1>5, <1>6, <3>1
    <3>5. QED BY <3>2, <3>3, <3>4
  <2>3. QED BY <2>1, <2>2
<1>12. Cut(b2, from, to + 1, s2, ms, base)
  BY <1>9, <1>10, <1>11 DEF Cut
<1>13. QED BY <1>8, <1>12 DEF s2, f, m

\* The first bytes are taken away, up to the border of a message or of its header.
LEMMA CutShifts ==
  ASSUME NEW s \in Seq(Bytes), NEW ms \in Seq(Message), NEW from \in Nat, NEW to \in Nat,
         from <= to, to <= Len(ms), NEW base \in Int, base >= -2,
         NEW b \in [from .. to -> Int], Cut(b, from, to, s, ms, base),
         NEW first \in from .. to, NEW n \in Nat, b[first] - n >= -2,
         NEW s2 \in Seq(Bytes), Len(s2) = Len(s) - n,
         \A i \in 1 .. Len(s2) : s2[i] = s[n + i]
  PROVE  \E b2 \in [first .. to -> Int] : Cut(b2, first, to, s2, ms, b[first] - n)
<1> DEFINE b2 == [i \in first .. to |-> b[i] - n]
           base2 == b[first] - n
<1>1. Len(s) \in Nat /\ Len(s2) \in Nat /\ Len(ms) \in Nat
  OBVIOUS
<1>2. /\ \A i \in from .. to : b[i] \in Int /\ base <= b[i] /\ b[i] <= Len(s)
      /\ \A i \in from + 1 .. to :
           /\ i - 1 \in from .. to /\ i \in from .. to
           /\ ms[i] \in Message /\ Len(ms[i]) \in Nat \ {0}
           /\ b[i] = b[i - 1] + 2 + Len(ms[i])
           /\ \A k \in 1 .. Len(ms[i]) : b[i - 1] + 2 + k \in 1 .. Len(s)
           /\ b[i - 1] >= 0 => b[i - 1] + 1 \in 1 .. Len(s) /\ b[i - 1] + 2 \in 1 .. Len(s)
  BY CutBounds
<1>3. /\ b[from] = base /\ b[to] = Len(s)
      /\ \A i, j \in from .. to : i <= j => b[i] <= b[j]
  BY DEF Cut
<1>4. first \in first .. to /\ to \in first .. to /\ first .. to \subseteq from .. to /\ first \in Int
  OBVIOUS
<1>5. b2 \in [first .. to -> Int] /\ \A i \in first .. to : b2[i] = b[i] - n /\ b[i] \in Int
  BY <1>2, <1>4
<1> HIDE DEF b2
<1>6. b2[first] = base2 /\ b2[to] = Len(s2)
  BY <1>1, <1>3, <1>4, <1>5
<1>7. \A i, j \in first .. to : i <= j => b2[i] <= b2[j]
  <2>1. ASSUME NEW i \in first .. to, NEW j \in first .. to, i <= j
        PROVE  b2[i] <= b2[j]
    <3>1. b[i] <= b[j]
      BY <1>3, <1>4, <2>1
    <3>2. b[i] \in Int /\ b[j] \in Int /\ b2[i] = b[i] - n /\ b2[j] = b[j] - n
      BY <1>5
    <3> DEFINE v == b[i]
               w == b[j]
    <3>3. v \in Int /\ w \in Int /\ v <= w /\ b2[i] = v - n /\ b2[j] = w - n
      BY <3>1, <3>2
    <3> HIDE DEF v, w
    <3>4. QED BY <3>3
  <2>2. QED BY <2>1
<1>8. ASSUME NEW i \in first + 1 .. to
      PROVE  /\ b2[i] = b2[i - 1] + 2 + Len(ms[i])
             /\ b2[i - 1] >= 0 => /\ s2[b2[i - 1] + 1] = Len(ms[i]) % ByteSpan
                                  /\ s2[b2[i - 1] + 2] = Len(ms[i]) \div ByteSpan
             /\ \A k \in 1 .. Len(ms[i]) : s2[b2[i - 1] + 2 + k] = ms[i][k]
  <2>1. i \in from + 1 .. to /\ i - 1 \in first .. to /\ i \in first .. to
    BY <1>4
  <2>2. /\ Len(ms[i]) \in Nat \ {0} /\ b[i] = b[i - 1] + 2 + Len(ms[i])
        /\ b[i] \in Int /\ b[i - 1] \in Int /\ b[i] <= Len(s) /\ b[first] <= b[i - 1]
        /\ b2[i] = b[i] - n /\ b2[i - 1] = b[i - 1] - n
    <3>1. first <= i - 1
      BY <1>4
    <3>2. QED BY <1>2, <1>3, <1>4, <1>5, <2>1, <3>1
  <2>3. /\ b[i - 1] >= 0 => /\ s[b[i - 1] + 1] = Len(ms[i]) % ByteSpan
                            /\ s[b[i - 1] + 2] = Len(ms[i]) \div ByteSpan
        /\ \A k \in 1 .. Len(ms[i]) : s[b[i - 1] + 2 + k] = ms[i][k]
    BY <2>1 DEF Cut
  <2>4. b[first] \in Int
    BY <1>2
  <2> DEFINE x == b[i - 1]
             y == b[i]
             z == b[first]
             l == Len(ms[i])
             len == Len(s)
             len2 == Len(s2)
             x2 == b2[i - 1]
             y2 == b2[i]
  <2>a. /\ x \in Int /\ y \in Int /\ z \in Int /\ l \in Nat \ {0} /\ len \in Nat /\ n \in Nat
        /\ y = x + 2 + l /\ y <= len /\ z <= x /\ z - n >= -2 /\ len2 = len - n
        /\ x2 = x - n /\ y2 = y - n
    BY <1>1, <2>2, <2>4
  <2> HIDE DEF x, y, z, l, len, len2, x2, y2
  <2>b. /\ y2 = x2 + 2 + l
        /\ \A k \in 1 .. l : x2 + 2 + k \in 1 .. len2 /\ n + (x2 + 2 + k) = x + 2 + k
        /\ x2 >= 0 => /\ x >= 0
                      /\ x2 + 1 \in 1 .. len2 /\ n + (x2 + 1) = x + 1
                      /\ x2 + 2 \in 1 .. len2 /\ n + (x2 + 2) = x + 2
    BY <2>a
  <2>c. \A k \in 1 .. len2 : s2[k] = s[n + k]
    BY DEF len2
  <2>5. ASSUME NEW k \in 1 .. Len(ms[i])
        PROVE  s2[b2[i - 1] + 2 + k] = s[b[i - 1] + 2 + k]
    <3>1. k \in 1 .. l
      BY DEF l
    <3>2. s2[x2 + 2 + k] = s[x + 2 + k]
      <4>1. x2 + 2 + k \in 1 .. len2 /\ n + (x2 + 2 + k) = x + 2 + k
        BY <2>b, <3>1
      <4>2. s2[x2 + 2 + k] = s[n + (x2 + 2 + k)]
        BY <2>c, <4>1, Zenon
      <4>3. QED BY <4>1, <4>2, Zenon
    <3>3. QED BY <3>2 DEF x, x2
  <2>6. ASSUME b2[i - 1] >= 0
        PROVE  /\ b[i - 1] >= 0
               /\ s2[b2[i - 1] + 1] = s[b[i - 1] + 1] /\ s2[b2[i - 1] + 2] = s[b[i - 1] + 2]
    <3>1. x2 >= 0
      BY <2>6 DEF x2
    <3>2. x >= 0 /\ s2[x2 + 1] = s[x + 1] /\ s2[x2 + 2] = s[x + 2]
      <4>1. /\ x >= 0
            /\ x2 + 1 \in 1 .. len2 /\ n + (x2 + 1) = x + 1
            /\ x2 + 2 \in 1 .. len2 /\ n + (x2 + 2) = x + 2
        BY <2>b, <3>1
      <4>2. s2[x2 + 1] = s[n + (x2 + 1)] /\ s2[x2 + 2] = s[n + (x2 + 2)]
        BY <2>c, <4>1, Zenon
      <4>3. QED BY <4>1, <4>2, Zenon
    <3>3. QED BY <3>2 DEF x, x2
  <2>7. b2[i] = b2[i - 1] + 2 + Len(ms[i])
    BY <2>b DEF x2, y2, l
  <2>8. QED BY <2>3, <2>5, <2>6, <2>7
<1>9. Cut(b2, first, to, s2, ms, base2)
  BY <1>6, <1>7, <1>8 DEF Cut
<1>10. QED BY <1>5, <1>9

\* A message that is only sent changes no border.
LEMMA CutGrows ==
  ASSUME NEW s, NEW ms \in Seq(Message), NEW m \in Message, NEW from \in Nat, NEW to \in Nat,
         to <= Len(ms), NEW base, NEW b, Cut(b, from, to, s, ms, base)
  PROVE  Cut(b, from, to, s, Append(ms, m), base)
<1> DEFINE ms2 == Append(ms, m)
<1>1. \A i \in from + 1 .. to : ms2[i] = ms[i]
  OBVIOUS
<1> HIDE DEF ms2
<1>2. ASSUME NEW i \in from + 1 .. to
      PROVE  /\ b[i] = b[i - 1] + 2 + Len(ms2[i])
             /\ b[i - 1] >= 0 => /\ s[b[i - 1] + 1] = Len(ms2[i]) % ByteSpan
                                 /\ s[b[i - 1] + 2] = Len(ms2[i]) \div ByteSpan
             /\ \A k \in 1 .. Len(ms2[i]) : s[b[i - 1] + 2 + k] = ms2[i][k]
  <2>1. ms2[i] = ms[i]
    BY <1>1
  <2>2. /\ b[i] = b[i - 1] + 2 + Len(ms[i])
        /\ b[i - 1] >= 0 => /\ s[b[i - 1] + 1] = Len(ms[i]) % ByteSpan
                            /\ s[b[i - 1] + 2] = Len(ms[i]) \div ByteSpan
        /\ \A k \in 1 .. Len(ms[i]) : s[b[i - 1] + 2 + k] = ms[i][k]
    BY DEF Cut
  <2>3. QED BY <2>1, <2>2, Zenon
<1>3. /\ b[from] = base /\ b[to] = Len(s)
      /\ \A i, j \in from .. to : i <= j => b[i] <= b[j]
  BY DEF Cut
<1>4. Cut(b, from, to, s, ms2, base)
  BY <1>2, <1>3, Zenon DEF Cut
<1>5. QED BY <1>4 DEF ms2

\* The next frame arrives.
LEMMA FramesArrive ==
  ASSUME NEW s \in Seq(Bytes), NEW ms \in Seq(Message), NEW from \in Nat, NEW to \in Nat,
         to + 1 <= Len(ms), NEW base \in Int, base >= -2, Frames(s, ms, from, to, base)
  PROVE  Frames(s \o Frame(ms[to + 1]), ms, from, to + 1, base)
<1>1. PICK b \in [from .. to -> Int] : Cut(b, from, to, s, ms, base)
  BY DEF Frames
<1>2. from <= to /\ from <= to + 1
  BY DEF Frames
<1>3. \E b2 \in [from .. to + 1 -> Int] :
        Cut(b2, from, to + 1, s \o Frame(ms[to + 1]), ms, base)
  BY <1>1, <1>2, CutExtends
<1>4. QED BY <1>2, <1>3 DEF Frames

\* The client sends a message.
LEMMA FramesSent ==
  ASSUME NEW s, NEW ms \in Seq(Message), NEW m \in Message, NEW from \in Nat, NEW to \in Nat,
         to <= Len(ms), NEW base, Frames(s, ms, from, to, base)
  PROVE  Frames(s, Append(ms, m), from, to, base)
<1>1. PICK b \in [from .. to -> Int] : Cut(b, from, to, s, ms, base)
  BY DEF Frames
<1>2. Cut(b, from, to, s, Append(ms, m), base)
  BY <1>1, CutGrows
<1>3. QED BY <1>2 DEF Frames

\* Without its header, the first message is in front of the bytes, all of it, and
\* behind it are whole frames.
LEMMA FramesBody ==
  ASSUME NEW s \in Seq(Bytes), NEW ms \in Seq(Message), NEW from \in Nat, NEW to \in Nat,
         from < to, to <= Len(ms), Frames(s, ms, from, to, -2)
  PROVE  LET n == Len(ms[from + 1]) IN
         /\ ms[from + 1] \in Message /\ n \in Nat \ {0} /\ n <= Len(s)
         /\ \A k \in 1 .. n : s[k] = ms[from + 1][k]
         /\ \A r \in Seq(Bytes) :
              Len(r) = Len(s) - n /\ (\A i \in 1 .. Len(r) : r[i] = s[n + i])
                => Frames(r, ms, from + 1, to, 0)
<1> DEFINE n == Len(ms[from + 1])
<1>1. PICK b \in [from .. to -> Int] : Cut(b, from, to, s, ms, -2)
  BY DEF Frames
<1>2. from + 1 \in from + 1 .. to /\ from + 1 \in from .. to /\ from + 1 - 1 = from /\ from <= to
  OBVIOUS
<1> DEFINE j == from + 1
<1>a. j \in from + 1 .. to /\ j \in from .. to /\ j - 1 = from
  BY <1>2
<1> HIDE DEF j
<1>b. /\ ms[j] \in Message /\ Len(ms[j]) \in Nat \ {0} /\ b[j] = b[j - 1] + 2 + Len(ms[j])
      /\ b[j] <= Len(s)
  <2> DEFINE base == -2
  <2>1. base \in Int /\ base >= -2 /\ Cut(b, from, to, s, ms, base)
    BY <1>1
  <2> HIDE DEF base
  <2>2. /\ \A i \in from .. to : b[i] \in Int /\ base <= b[i] /\ b[i] <= Len(s)
        /\ \A i \in from + 1 .. to :
             /\ i - 1 \in from .. to /\ i \in from .. to
             /\ ms[i] \in Message /\ Len(ms[i]) \in Nat \ {0}
             /\ b[i] = b[i - 1] + 2 + Len(ms[i])
             /\ \A k \in 1 .. Len(ms[i]) : b[i - 1] + 2 + k \in 1 .. Len(s)
             /\ b[i - 1] >= 0 => b[i - 1] + 1 \in 1 .. Len(s) /\ b[i - 1] + 2 \in 1 .. Len(s)
    BY <1>2, <2>1, CutBounds
  <2>3. QED BY <1>a, <2>2, Zenon
<1>3. /\ ms[from + 1] \in Message /\ n \in Nat \ {0} /\ b[from + 1] = b[from] + 2 + n
      /\ b[from + 1] <= Len(s)
  <2>1. b[j] = b[from] + 2 + Len(ms[j])
    BY <1>a, <1>b
  <2>2. QED BY <1>b, <2>1 DEF j
<1>c. \A k \in 1 .. Len(ms[j]) : s[b[j - 1] + 2 + k] = ms[j][k]
  BY <1>1, <1>a DEF Cut
<1>4. /\ b[from] = -2
      /\ \A k \in 1 .. n : s[b[from] + 2 + k] = ms[from + 1][k]
  <2>1. \A k \in 1 .. Len(ms[j]) : s[b[from] + 2 + k] = ms[j][k]
    BY <1>a, <1>c
  <2>2. b[from] = -2
    BY <1>1 DEF Cut
  <2>3. QED BY <2>1, <2>2 DEF j
<1>5. b[from + 1] = n /\ n <= Len(s)
  BY <1>3, <1>4
<1>6. \A k \in 1 .. n : s[k] = ms[from + 1][k]
  <2>1. \A k \in 1 .. n : -2 + 2 + k = k
    BY <1>3
  <2>2. QED BY <1>4, <2>1
<1>7. ASSUME NEW r \in Seq(Bytes), Len(r) = Len(s) - n, \A i \in 1 .. Len(r) : r[i] = s[n + i]
      PROVE  Frames(r, ms, from + 1, to, 0)
  <2>1. b[from + 1] - n = 0 /\ n \in Nat
    BY <1>3, <1>5
  <2>2. -2 \in Int /\ -2 >= -2 /\ b[from + 1] - n >= -2 /\ from + 1 \in Nat /\ from + 1 <= to
    BY <1>2, <2>1
  <2> HIDE DEF n
  <2>3. \E b2 \in [from + 1 .. to -> Int] : Cut(b2, from + 1, to, r, ms, b[from + 1] - n)
    BY <1>1, <1>2, <1>7, <2>1, <2>2, CutShifts
  <2>4. QED BY <2>1, <2>2, <2>3 DEF Frames
<1>8. QED BY <1>3, <1>5, <1>6, <1>7

\* In front of bytes that are whole frames is the header of the next message, and
\* both of its bytes are there.
LEMMA FramesHeader ==
  ASSUME NEW s \in Seq(Bytes), s # <<>>, NEW ms \in Seq(Message), NEW from \in Nat,
         NEW to \in Nat, to <= Len(ms), Frames(s, ms, from, to, 0)
  PROVE  /\ from < to /\ 2 < Len(s)
         /\ ms[from + 1] \in Message
         /\ s[1] = Len(ms[from + 1]) % ByteSpan /\ s[2] = Len(ms[from + 1]) \div ByteSpan
         /\ \A r \in Seq(Bytes) :
              Len(r) = Len(s) - 2 /\ (\A i \in 1 .. Len(r) : r[i] = s[2 + i])
                => Frames(r, ms, from, to, -2)
<1>1. PICK b \in [from .. to -> Int] : Cut(b, from, to, s, ms, 0)
  BY DEF Frames
<1>2. from <= to /\ Len(s) \in Nat \ {0}
  BY EmptySeq DEF Frames
<1>3. b[from] = 0 /\ b[to] = Len(s)
  BY <1>1 DEF Cut
<1>4. from < to
  BY <1>2, <1>3
<1>5. from + 1 \in from + 1 .. to /\ from \in from .. to /\ from + 1 - 1 = from
  BY <1>4
<1> DEFINE n == Len(ms[from + 1])
<1> DEFINE j == from + 1
<1>a. j \in from + 1 .. to /\ j - 1 = from
  BY <1>5
<1> HIDE DEF j
<1>b. /\ ms[j] \in Message /\ Len(ms[j]) \in Nat \ {0} /\ b[j] = b[j - 1] + 2 + Len(ms[j])
  <2>0. 0 \in Int /\ 0 >= -2
    OBVIOUS
  <2>1. /\ \A i \in from .. to : b[i] \in Int /\ 0 <= b[i] /\ b[i] <= Len(s)
        /\ \A i \in from + 1 .. to :
             /\ i - 1 \in from .. to /\ i \in from .. to
             /\ ms[i] \in Message /\ Len(ms[i]) \in Nat \ {0}
             /\ b[i] = b[i - 1] + 2 + Len(ms[i])
             /\ \A k \in 1 .. Len(ms[i]) : b[i - 1] + 2 + k \in 1 .. Len(s)
             /\ b[i - 1] >= 0 => b[i - 1] + 1 \in 1 .. Len(s) /\ b[i - 1] + 2 \in 1 .. Len(s)
    BY <1>1, <1>2, <2>0, CutBounds
  <2>2. QED BY <1>a, <2>1, Zenon
<1>6. /\ ms[from + 1] \in Message /\ n \in Nat \ {0} /\ b[from + 1] = b[from] + 2 + n
  <2>1. b[j] = b[from] + 2 + Len(ms[j])
    BY <1>a, <1>b
  <2>2. QED BY <1>b, <2>1 DEF j
<1>7. b[from + 1] <= Len(s)
  <2>1. from + 1 \in from .. to
    BY <1>4
  <2>2. QED BY <1>1, <1>2, <2>1, CutBounds
<1>8. b[from + 1] = 2 + n /\ 2 < Len(s)
  BY <1>2, <1>3, <1>6, <1>7
<1>9. s[b[from] + 1] = n % ByteSpan /\ s[b[from] + 2] = n \div ByteSpan
  <2>1. b[j - 1] >= 0 /\ b[from] = b[j - 1]
    BY <1>3, <1>a
  <2>2. /\ s[b[j - 1] + 1] = Len(ms[j]) % ByteSpan
        /\ s[b[j - 1] + 2] = Len(ms[j]) \div ByteSpan
    BY <1>1, <1>a, <2>1 DEF Cut
  <2>3. /\ s[b[from] + 1] = Len(ms[j]) % ByteSpan
        /\ s[b[from] + 2] = Len(ms[j]) \div ByteSpan
    BY <2>1, <2>2
  <2>4. QED BY <2>3 DEF j
<1>10. s[1] = n % ByteSpan /\ s[2] = n \div ByteSpan
  BY <1>3, <1>9
<1>11. ASSUME NEW r \in Seq(Bytes), Len(r) = Len(s) - 2, \A i \in 1 .. Len(r) : r[i] = s[2 + i]
       PROVE  Frames(r, ms, from, to, -2)
  <2>1. b[from] - 2 = -2 /\ b[from] - 2 >= -2 /\ 0 \in Int /\ 0 >= -2 /\ 2 \in Nat
    BY <1>3
  <2>2. \E b2 \in [from .. to -> Int] : Cut(b2, from, to, r, ms, b[from] - 2)
    BY <1>1, <1>2, <1>5, <1>11, <2>1, CutShifts
  <2>3. QED BY <1>2, <2>1, <2>2 DEF Frames
<1>12. QED BY <1>4, <1>6, <1>8, <1>10, <1>11

-----------------------------------------------------------------------------
\* Nothing that matters to c changes, or its handler starts or gives up.
LEMMA FramedKept ==
  ASSUME NEW c \in Conn, Framed(c),
         link'[c] = link[c], wire'[c] = wire[c], socket'[c] = socket[c], sent'[c] = sent[c],
         parsed'[c] = parsed[c],
         \/ handler'[c] = handler[c] /\ size'[c] = size[c] /\ command'[c] = command[c]
         \/ handler[c] \in {"idle", "accepted"} /\ handler'[c] \in {"accepted", "header"}
         \/ handler'[c] \in {"closing", "done", "dead"}
  PROVE  Framed(c)'
BY DEF Framed, Arrived

\* Framed when the client sends.
LEMMA FramedSent ==
  ASSUME ServerTypeOK, NEW c \in Conn, NEW m \in Message, Framed(c), Sends(c, m)
  PROVE  Framed(c)'
<1> DEFINE ms == sent[c]
           ms2 == Append(ms, m)
           w == wire[c]
           p == Len(parsed[c])
<1>1. /\ link' = link /\ link[c] # "reset" /\ socket' = socket /\ handler' = handler
      /\ size' = size /\ command' = command /\ parsed' = parsed
      /\ sent'[c] = ms2 /\ wire'[c] = Append(w, Frame(m))
  BY DEF Sends, Send, handlerVars, ServerTypeOK
<1>2. /\ ms \in Seq(Message) /\ w \in Seq(Seq(Bytes)) /\ Frame(m) \in Seq(Bytes)
      /\ p \in Nat /\ Len(ms) \in Nat /\ Len(w) \in Nat
  BY FrameBytes DEF ServerTypeOK
<1> HIDE DEF ms, w, p
<1>3. /\ Len(ms2) = Len(ms) + 1 /\ ms2[Len(ms) + 1] = m
      /\ \A i \in 1 .. Len(ms) : ms2[i] = ms[i]
  BY <1>2
<1> DEFINE w2 == Append(w, Frame(m))
<1>4. /\ Len(w2) = Len(w) + 1 /\ w2[Len(w) + 1] = Frame(m)
      /\ \A i \in 1 .. Len(w) : w2[i] = w[i]
  BY <1>2
<1> HIDE DEF ms2, w2
<1> DEFINE a == Len(ms) - Len(w)
<1>5. /\ p <= Len(ms) /\ \A i \in 1 .. p : parsed[c][i] = ms[i]
      /\ handler[c] = "send" => p < Len(ms) /\ command[c] = ms[p + 1]
      /\ Len(w) <= Len(ms)
      /\ \A i \in 1 .. Len(w) : w[i] = Frame(ms[a + i])
      /\ handler[c] \in {"idle", "accepted", "header"} => Frames(socket[c], ms, p, a, 0)
      /\ handler[c] = "body" => /\ p < a /\ size[c] = Len(ms[p + 1])
                                /\ Frames(socket[c], ms, p, a, -2)
      /\ handler[c] = "send" => Frames(socket[c], ms, p + 1, a, 0)
  BY <1>1 DEF Framed, Arrived, ms, w, p
<1>6. a \in Nat /\ a <= Len(ms) /\ Len(ms2) - Len(w2) = a
  BY <1>2, <1>3, <1>4, <1>5
<1> HIDE DEF a
<1>7. \A from \in Nat : \A base :
        Frames(socket[c], ms, from, a, base) => Frames(socket[c], ms2, from, a, base)
  BY <1>2, <1>6, FramesSent DEF ms2
<1>8. \A i \in 1 .. Len(w2) : w2[i] = Frame(ms2[a + i])
  <2>1. ASSUME NEW i \in 1 .. Len(w)
        PROVE  w2[i] = Frame(ms2[a + i])
    <3>1. a + i \in 1 .. Len(ms)
      BY <1>2, <1>3, <1>4, <1>6
    <3>2. QED BY <1>3, <1>4, <1>5, <3>1
  <2>2. a + (Len(w) + 1) = Len(ms) + 1
    BY <1>2, <1>3, <1>4, <1>6
  <2>3. w2[Len(w) + 1] = Frame(ms2[a + (Len(w) + 1)])
    BY <1>3, <1>4, <2>2
  <2>4. \A i \in 1 .. Len(w2) : i \in 1 .. Len(w) \/ i = Len(w) + 1
    BY <1>2, <1>4
  <2>5. QED BY <2>1, <2>3, <2>4
<1>9. Len(w2) <= Len(ms2) /\ p <= Len(ms2)
  BY <1>2, <1>3, <1>4, <1>5
<1>10. \A i \in 1 .. p : parsed[c][i] = ms2[i]
  BY <1>2, <1>3, <1>5
<1>11. handler[c] = "send" => p < Len(ms2) /\ command[c] = ms2[p + 1]
  BY <1>2, <1>3, <1>5
<1>12. handler[c] = "body" => /\ p < a /\ size[c] = Len(ms2[p + 1])
                              /\ Frames(socket[c], ms2, p, a, -2)
  <2>1. p < a => p + 1 \in 1 .. Len(ms)
    BY <1>2, <1>6
  <2>2. QED BY <1>2, <1>3, <1>5, <1>7, <2>1
<1>13. handler[c] = "send" => Frames(socket[c], ms2, p + 1, a, 0)
  BY <1>2, <1>5, <1>7
<1>14. handler[c] \in {"idle", "accepted", "header"} => Frames(socket[c], ms2, p, a, 0)
  BY <1>2, <1>5, <1>7
<1>15. sent'[c] = ms2 /\ wire'[c] = w2
  BY <1>1 DEF w2
<1>16. Len(parsed'[c]) = p
  BY <1>1 DEF p
<1>17. Arrived(c)' = a
  BY <1>6, <1>15 DEF Arrived
<1>18. QED
  BY <1>1, <1>8, <1>9, <1>10, <1>11, <1>12, <1>13, <1>14, <1>15, <1>16, <1>17 DEF Framed

\* Framed when a frame arrives.
LEMMA FramedArrived ==
  ASSUME ServerTypeOK, Fragments = FALSE, NEW c \in Conn, Framed(c), Arrive(c)
  PROVE  Framed(c)'
<1> DEFINE ms == sent[c]
           w == wire[c]
           s == socket[c]
           f == Head(w)
           p == Len(parsed[c])
           a == Len(ms) - Len(w)
<1>1. /\ w \in Seq(Seq(Bytes)) /\ w # <<>> /\ s \in Seq(Bytes) /\ ms \in Seq(Message)
      /\ Len(ms) \in Nat /\ p \in Nat
  <2>1. w \in Seq(Seq(Bytes)) /\ s \in Seq(Bytes) /\ ms \in Seq(Message)
        /\ parsed[c] \in Seq(Seq(Bytes))
    BY DEF ServerTypeOK
  <2>2. w # <<>>
    BY DEF Arrive
  <2>3. QED BY <2>1, <2>2
<1>2. /\ f \in Seq(Bytes) /\ f = w[1] /\ Tail(w) \in Seq(Seq(Bytes)) /\ Len(f) \in Nat
      /\ Len(w) \in Nat \ {0} /\ Len(Tail(w)) = Len(w) - 1
      /\ \A i \in 1 .. Len(Tail(w)) : Tail(w)[i] = w[i + 1]
  BY <1>1, HeadTailProperties, EmptySeq
<1>3. SubSeq(f, 1, Len(f)) = f
  BY <1>2
<1>4. /\ link' = link /\ handler' = handler /\ size' = size /\ command' = command
      /\ parsed' = parsed /\ sent' = sent
      /\ socket'[c] = s \o f /\ wire'[c] = Tail(w)
  <2>1. PICK n \in {Len(f)} :
          /\ socket' = [socket EXCEPT ![c] = @ \o SubSeq(f, 1, n)]
          /\ wire' = [wire EXCEPT ![c] =
               IF n = Len(f) THEN Tail(@) ELSE <<SubSeq(f, n + 1, Len(f))>> \o Tail(@)]
    BY DEF Arrive
  <2>2. /\ socket' = [socket EXCEPT ![c] = @ \o f]
        /\ wire' = [wire EXCEPT ![c] = Tail(@)]
    BY <1>3, <2>1
  <2>3. socket \in [Conn -> Seq(Bytes)] /\ wire \in [Conn -> Seq(Seq(Bytes))]
    BY DEF ServerTypeOK
  <2>4. QED BY <2>2, <2>3 DEF Arrive, handlerVars
<1>5. CASE link[c] = "reset"
  BY <1>4, <1>5 DEF Framed
<1>6. CASE link[c] # "reset"
  <2>1. /\ p <= Len(ms) /\ \A i \in 1 .. p : parsed[c][i] = ms[i]
        /\ handler[c] = "send" => p < Len(ms) /\ command[c] = ms[p + 1]
        /\ Len(w) <= Len(ms)
        /\ \A i \in 1 .. Len(w) : w[i] = Frame(ms[a + i])
        /\ handler[c] \in {"idle", "accepted", "header"} => Frames(s, ms, p, a, 0)
        /\ handler[c] = "body" => /\ p < a /\ size[c] = Len(ms[p + 1])
                                  /\ Frames(s, ms, p, a, -2)
        /\ handler[c] = "send" => Frames(s, ms, p + 1, a, 0)
    BY <1>6 DEF Framed, Arrived
  <2> HIDE DEF ms, w, s, f, p
  <2>2. a \in Nat /\ a + 1 <= Len(ms) /\ Len(ms) - Len(Tail(w)) = a + 1
    BY <1>1, <1>2, <2>1
  <2>3. f = Frame(ms[a + 1])
    <3>1. 1 \in 1 .. Len(w)
      BY <1>2
    <3>2. QED BY <1>2, <2>1, <3>1
  <2>4. \A i \in 1 .. Len(Tail(w)) : Tail(w)[i] = Frame(ms[a + 1 + i])
    <3>1. ASSUME NEW i \in 1 .. Len(Tail(w))
          PROVE  Tail(w)[i] = Frame(ms[a + 1 + i])
      <4>1. i + 1 \in 1 .. Len(w) /\ a + (i + 1) = a + 1 + i
        BY <1>2, <2>2
      <4>2. w[i + 1] = Frame(ms[a + (i + 1)])
        BY <2>1, <4>1, Zenon
      <4>3. QED BY <1>2, <4>1, <4>2
    <3>2. QED BY <3>1
  <2> HIDE DEF a
  <2>5. \A from \in Nat, base \in {0, -2} :
          Frames(s, ms, from, a, base) => Frames(s \o f, ms, from, a + 1, base)
    <3>1. ASSUME NEW from \in Nat, NEW base \in Int, base >= -2, Frames(s, ms, from, a, base)
          PROVE  Frames(s \o f, ms, from, a + 1, base)
      <4>1. Frames(s \o Frame(ms[a + 1]), ms, from, a + 1, base)
        BY <1>1, <2>2, <3>1, FramesArrive
      <4>2. QED BY <2>3, <4>1
    <3>2. \A base \in {0, -2} : base \in Int /\ base >= -2
      OBVIOUS
    <3>3. QED BY <3>1, <3>2
  <2>6. Arrived(c)' = a + 1
    BY <1>4, <2>2 DEF Arrived, ms
  <2>7. /\ handler[c] \in {"idle", "accepted", "header"} => Frames(s \o f, ms, p, a + 1, 0)
        /\ handler[c] = "body" => /\ p < a + 1 /\ size[c] = Len(ms[p + 1])
                                  /\ Frames(s \o f, ms, p, a + 1, -2)
        /\ handler[c] = "send" => Frames(s \o f, ms, p + 1, a + 1, 0)
    BY <1>1, <2>1, <2>2, <2>5
  <2>8. Len(Tail(w)) <= Len(ms)
    BY <1>1, <1>2, <2>1
  <2>9. /\ Len(parsed'[c]) = p /\ sent'[c] = ms /\ \A i \in 1 .. p : parsed'[c][i] = ms[i]
    BY <1>4, <2>1 DEF p, ms
  <2>10. QED BY <1>4, <2>1, <2>4, <2>6, <2>7, <2>8, <2>9 DEF Framed
<1>7. QED BY <1>5, <1>6

\* Framed when the handler reads a header.
LEMMA FramedHeader ==
  ASSUME ServerTypeOK, NEW c \in Conn, Framed(c), ReadHeader(c)
  PROVE  Framed(c)'
<1>0. /\ handler[c] = "header" /\ link' = link /\ wire' = wire /\ sent' = sent
      /\ command' = command /\ parsed' = parsed
      /\ handler \in [Conn -> HandlerState] /\ size \in [Conn -> 0 .. ByteSpan * ByteSpan - 1]
      /\ socket \in [Conn -> Seq(Bytes)]
  BY DEF ReadHeader, clientVars, ServerTypeOK
<1>1. CASE link[c] = "reset" \/ AtEnd(c)
  <2>1. handler'[c] = "closing" /\ socket' = socket
    BY <1>0, <1>1 DEF ReadHeader
  <2>2. QED BY <1>0, <2>1, FramedKept
<1>2. CASE ~(link[c] = "reset" \/ AtEnd(c))
  <2> DEFINE ms == sent[c]
             s == socket[c]
             r == Rest(c, 2)
             p == Len(parsed[c])
             a == Len(ms) - Len(wire[c])
  <2>1. /\ link[c] # "reset" /\ s # <<>> /\ size'[c] = HeaderSize(Taken(c, 2))
        /\ socket'[c] = r /\ handler'[c] = "body"
    BY <1>0, <1>2 DEF ReadHeader
  <2>2. /\ p <= Len(ms) /\ \A i \in 1 .. p : parsed[c][i] = ms[i]
        /\ Len(wire[c]) <= Len(ms)
        /\ \A i \in 1 .. Len(wire[c]) : wire[c][i] = Frame(ms[a + i])
        /\ Frames(s, ms, p, a, 0)
    BY <1>0, <2>1 DEF Framed, Arrived
  <2>3. /\ s \in Seq(Bytes) /\ ms \in Seq(Message) /\ p \in Nat /\ a \in Nat /\ a <= Len(ms)
        /\ Len(s) \in Nat
    <3>1. Len(ms) \in Nat /\ Len(wire[c]) \in Nat
      BY DEF ServerTypeOK
    <3>2. QED BY <2>2, <3>1 DEF ServerTypeOK
  <2>t. /\ Taken(c, 2) \in Seq(Bytes)
        /\ Len(Taken(c, 2)) = IF 2 < Len(s) THEN 2 ELSE Len(s)
        /\ \A i \in 1 .. Len(Taken(c, 2)) : Taken(c, 2)[i] = s[i]
        /\ r \in Seq(Bytes)
        /\ Len(r) = IF 2 < Len(s) THEN Len(s) - 2 ELSE 0
        /\ \A i \in 1 .. Len(r) : r[i] = s[2 + i]
    <3> DEFINE k == 2
    <3>1. k \in Nat
      OBVIOUS
    <3> HIDE DEF k
    <3>2. /\ Taken(c, k) \in Seq(Bytes)
          /\ Len(Taken(c, k)) = IF k < Len(s) THEN k ELSE Len(s)
          /\ \A i \in 1 .. Len(Taken(c, k)) : Taken(c, k)[i] = s[i]
          /\ Rest(c, k) \in Seq(Bytes)
          /\ Len(Rest(c, k)) = IF k < Len(s) THEN Len(s) - k ELSE 0
          /\ \A i \in 1 .. Len(Rest(c, k)) : Rest(c, k)[i] = s[k + i]
      BY <3>1, TakenRest
    <3>3. QED BY <3>2 DEF k
  <2> HIDE DEF ms, s, r, p, a
  <2>4. /\ p < a /\ 2 < Len(s) /\ ms[p + 1] \in Message
        /\ s[1] = Len(ms[p + 1]) % ByteSpan /\ s[2] = Len(ms[p + 1]) \div ByteSpan
        /\ \A t \in Seq(Bytes) :
             Len(t) = Len(s) - 2 /\ (\A i \in 1 .. Len(t) : t[i] = s[2 + i])
               => Frames(t, ms, p, a, -2)
    BY <2>1, <2>2, <2>3, FramesHeader
  <2>5. Frames(r, ms, p, a, -2)
    BY <2>3, <2>4, <2>t
  <2>6. HeaderSize(Taken(c, 2)) = Len(ms[p + 1])
    <3>1. Len(Taken(c, 2)) = 2 /\ Taken(c, 2)[1] = s[1] /\ Taken(c, 2)[2] = s[2]
      BY <2>4, <2>t
    <3>2. HeaderSize(Taken(c, 2)) = s[1] + ByteSpan * s[2]
      BY <3>1 DEF HeaderSize
    <3>3. Len(ms[p + 1]) \in Nat /\ Len(ms[p + 1]) < ByteSpan * ByteSpan
      BY <2>4, FrameBytes
    <3>4. QED BY <2>4, <3>2, <3>3, Division
  <2>7. Arrived(c)' = a
    BY <1>0 DEF Arrived, a, ms
  <2>8. /\ Len(parsed'[c]) = p /\ sent'[c] = ms /\ \A i \in 1 .. p : parsed'[c][i] = ms[i]
    BY <1>0, <2>2 DEF p, ms
  <2>9. QED BY <1>0, <2>1, <2>2, <2>4, <2>5, <2>6, <2>7, <2>8 DEF Framed
<1>3. QED BY <1>1, <1>2

\* Framed when the handler reads a body: it gets all of it, and what it parses is
\* the message.
LEMMA FramedBody ==
  ASSUME ServerTypeOK, NEW c \in Conn, Framed(c), ReadBody(c)
  PROVE  Framed(c)'
<1> DEFINE got == Taken(c, size[c])
           zeros == [i \in 1 .. size[c] - Len(got) |-> 0]
<1>0. /\ handler[c] = "body" /\ link' = link /\ wire' = wire /\ sent' = sent
      /\ size' = size /\ parsed' = parsed
      /\ handler \in [Conn -> HandlerState] /\ socket \in [Conn -> Seq(Bytes)]
      /\ command \in [Conn -> Seq(Bytes)]
  BY DEF ReadBody, clientVars, ServerTypeOK
<1>1. CASE link[c] = "reset"
  <2>1. handler'[c] = "closing" /\ socket' = socket
    BY <1>0, <1>1 DEF ReadBody
  <2>2. QED BY <1>0, <2>1, FramedKept
<1>2. CASE link[c] # "reset"
  <2> DEFINE ms == sent[c]
             s == socket[c]
             p == Len(parsed[c])
             a == Len(ms) - Len(wire[c])
             m == ms[p + 1]
             n == Len(m)
             r == Rest(c, n)
  <2>1. /\ p <= Len(ms) /\ \A i \in 1 .. p : parsed[c][i] = ms[i]
        /\ Len(wire[c]) <= Len(ms)
        /\ \A i \in 1 .. Len(wire[c]) : wire[c][i] = Frame(ms[a + i])
        /\ p < a /\ size[c] = n /\ Frames(s, ms, p, a, -2)
    BY <1>0, <1>2 DEF Framed, Arrived
  <2>2. /\ s \in Seq(Bytes) /\ ms \in Seq(Message) /\ p \in Nat /\ a \in Nat /\ a <= Len(ms)
        /\ Len(s) \in Nat /\ Len(ms) \in Nat
    <3>1. Len(ms) \in Nat /\ Len(wire[c]) \in Nat
      BY DEF ServerTypeOK
    <3>2. QED BY <2>1, <3>1 DEF ServerTypeOK
  <2>3. /\ m \in Message /\ n \in Nat \ {0} /\ n <= Len(s)
        /\ \A k \in 1 .. n : s[k] = m[k]
        /\ \A t \in Seq(Bytes) :
             Len(t) = Len(s) - n /\ (\A i \in 1 .. Len(t) : t[i] = s[n + i])
               => Frames(t, ms, p + 1, a, 0)
    <3> HIDE DEF ms, s, p, a
    <3>1. QED BY <2>1, <2>2, FramesBody
  <2>4. /\ got \in Seq(Bytes)
        /\ Len(got) = IF n < Len(s) THEN n ELSE Len(s)
        /\ \A i \in 1 .. Len(got) : got[i] = s[i]
        /\ r \in Seq(Bytes)
        /\ Len(r) = IF n < Len(s) THEN Len(s) - n ELSE 0
        /\ \A i \in 1 .. Len(r) : r[i] = s[n + i]
    <3> DEFINE k == size[c]
    <3>1. k \in Nat /\ k = n
      BY <2>1, <2>3
    <3> HIDE DEF k
    <3>2. /\ Taken(c, k) \in Seq(Bytes)
          /\ Len(Taken(c, k)) = IF k < Len(s) THEN k ELSE Len(s)
          /\ \A i \in 1 .. Len(Taken(c, k)) : Taken(c, k)[i] = s[i]
          /\ Rest(c, k) \in Seq(Bytes)
          /\ Len(Rest(c, k)) = IF k < Len(s) THEN Len(s) - k ELSE 0
          /\ \A i \in 1 .. Len(Rest(c, k)) : Rest(c, k)[i] = s[k + i]
      BY <3>1, TakenRest
    <3> HIDE DEF n, s
    <3>3. got = Taken(c, n) /\ r = Rest(c, n)
      BY <3>1 DEF k
    <3> HIDE DEF got, r
    <3>4. QED BY <3>1, <3>2, <3>3, Zenon
  <2>5. s # <<>>
    <3>1. Len(s) # 0
      BY <2>2, <2>3
    <3>2. QED BY <2>2, <3>1, EmptySeq
  <2>6. /\ socket'[c] = Rest(c, size[c])
        /\ command'[c] = got \o zeros
        /\ \E state \in Parsed(got \o zeros) : handler'[c] = state
    BY <1>0, <1>2, <2>5 DEF ReadBody
  <2>7. got \o zeros = m
    <3>0. Len(got) = n
      <4> HIDE DEF got, n, s
      <4>1. n \in Nat /\ Len(s) \in Nat /\ n <= Len(s) /\ Len(got) = IF n < Len(s) THEN n ELSE Len(s)
        BY <2>2, <2>3, <2>4
      <4>2. QED BY <4>1
    <3>1. Len(got) = n /\ \A i \in 1 .. n : got[i] = m[i]
      BY <2>3, <2>4, <3>0
    <3>2. m \in Seq(Bytes)
      BY <2>3, FrameBytes
    <3>3. got = m
      BY <2>4, <3>1, <3>2, SeqEqual
    <3>4. zeros = <<>>
      <4>1. 1 .. size[c] - Len(got) = {}
        BY <2>1, <2>3, <3>1
      <4>2. QED BY <4>1
    <3> HIDE DEF got, zeros, m
    <3>5. m \o <<>> = m
      BY <3>2
    <3>6. QED BY <3>3, <3>4, <3>5
  <2> HIDE DEF got, zeros
  <2>8. handler'[c] = "send"
    BY <2>3, <2>6, <2>7 DEF Parsed
  <2>9. Frames(r, ms, p + 1, a, 0)
    <3> HIDE DEF r, ms, s, p, a, m, n
    <3>0. n \in Nat /\ Len(s) \in Nat /\ n <= Len(s)
          /\ Len(r) = IF n < Len(s) THEN Len(s) - n ELSE 0
      BY <2>2, <2>3, <2>4
    <3>1. Len(r) = Len(s) - n
      BY <3>0
    <3>2. QED BY <2>3, <2>4, <3>1
  <2>10. /\ socket'[c] = r /\ command'[c] = ms[p + 1] /\ p < Len(ms)
    <3>1. size[c] = n
      BY <2>1
    <3>2. socket'[c] = r
      BY <2>6, <3>1
    <3>3. command'[c] = ms[p + 1]
      BY <2>6, <2>7
    <3>4. p < Len(ms)
      <4> HIDE DEF ms, p, a
      <4>1. QED BY <2>1, <2>2
    <3>5. QED BY <3>2, <3>3, <3>4
  <2> HIDE DEF ms, s, p, a, r
  <2>11. Arrived(c)' = a
    BY <1>0 DEF Arrived, a, ms
  <2>12. /\ Len(parsed'[c]) = p /\ sent'[c] = ms /\ \A i \in 1 .. p : parsed'[c][i] = ms[i]
    BY <1>0, <2>1 DEF p, ms
  <2>13. QED BY <1>0, <2>1, <2>8, <2>9, <2>10, <2>11, <2>12 DEF Framed
<1>3. QED BY <1>1, <1>2

\* Framed when the handler sends a command to the broker.
LEMMA FramedCommand ==
  ASSUME ServerTypeOK, NEW c \in Conn, Framed(c), SendCommand(c)
  PROVE  Framed(c)'
<1>0. /\ handler[c] = "send" /\ link' = link /\ wire' = wire /\ sent' = sent
      /\ size' = size /\ socket' = socket /\ command' = command
      /\ handler \in [Conn -> HandlerState] /\ parsed \in [Conn -> Seq(Seq(Bytes))]
  BY DEF SendCommand, clientVars, ServerTypeOK
<1>1. CASE broker # "up"
  <2>1. handler'[c] = "dead" /\ parsed' = parsed
    BY <1>0, <1>1 DEF SendCommand
  <2>2. QED BY <1>0, <2>1, FramedKept
<1>2. CASE broker = "up"
  <2> DEFINE ms == sent[c]
             p == Len(parsed[c])
             p2 == Append(parsed[c], command[c])
  <2>1. handler'[c] = "header" /\ parsed'[c] = p2
    BY <1>0, <1>2 DEF SendCommand
  <2>2. /\ p <= Len(ms) /\ \A i \in 1 .. p : parsed[c][i] = ms[i]
        /\ p < Len(ms) /\ command[c] = ms[p + 1]
    BY <1>0 DEF Framed
  <2>3. p \in Nat /\ Len(ms) \in Nat /\ parsed[c] \in Seq(Seq(Bytes))
    BY DEF ServerTypeOK
  <2>4. Len(p2) = p + 1 /\ p2[p + 1] = command[c] /\ \A i \in 1 .. p : p2[i] = parsed[c][i]
    BY <2>3
  <2> HIDE DEF ms, p, p2
  <2>5. \A i \in 1 .. p + 1 : p2[i] = ms[i]
    <3>1. \A i \in 1 .. p + 1 : i \in 1 .. p \/ i = p + 1
      BY <2>3
    <3>2. QED BY <2>2, <2>4, <3>1
  <2>6. link[c] # "reset" =>
          /\ Len(wire[c]) <= Len(ms)
          /\ \A i \in 1 .. Len(wire[c]) : wire[c][i] = Frame(ms[Arrived(c) + i])
          /\ Frames(socket[c], ms, p + 1, Arrived(c), 0)
    BY <1>0 DEF Framed, ms, p
  <2>7. Arrived(c)' = Arrived(c)
    BY <1>0 DEF Arrived
  <2>8. p + 1 <= Len(ms)
    BY <2>2, <2>3
  <2>9. sent'[c] = ms
    BY <1>0 DEF ms
  <2>10. QED BY <1>0, <2>1, <2>4, <2>5, <2>6, <2>7, <2>8, <2>9 DEF Framed
<1>3. QED BY <1>1, <1>2

\* Every step keeps every handler at its place in the stream.
LEMMA FramingMove ==
  ASSUME ServerTypeOK, Fragments = FALSE, FramesInOrder, ServerMoves
  PROVE  FramesInOrder'
<1> USE DEF clientVars, handlerVars, brokerVars, answerVars
<1> SUFFICES ASSUME NEW d \in Conn
             PROVE  Framed(d)'
  BY DEF FramesInOrder
<1>0. /\ Framed(d) /\ \A c \in Conn : Framed(c)
      /\ link \in [Conn -> {"open", "shut", "reset"}]
      /\ wire \in [Conn -> Seq(Seq(Bytes))] /\ socket \in [Conn -> Seq(Bytes)]
      /\ handler \in [Conn -> HandlerState] /\ command \in [Conn -> Seq(Bytes)]
      /\ size \in [Conn -> 0 .. ByteSpan * ByteSpan - 1]
      /\ sent \in [Conn -> Seq(Message)] /\ parsed \in [Conn -> Seq(Seq(Bytes))]
  BY DEF FramesInOrder, ServerTypeOK
<1>1. ASSUME /\ UNCHANGED <<link, wire, socket, sent, parsed>>
             /\ UNCHANGED <<handler, size, command>>
      PROVE  Framed(d)'
  BY <1>0, <1>1, FramedKept
<1>2. ASSUME NEW c \in Conn, c # d,
             \/ \E m \in Message : Sends(c, m)
             \/ ClientShuts(c) \/ ClientResets(c) \/ Arrive(c) \/ Handle(c)
      PROVE  Framed(d)'
  <2>1. ASSUME ReadBody(c)
        PROVE  /\ link'[d] = link[d] /\ wire'[d] = wire[d] /\ socket'[d] = socket[d]
               /\ sent'[d] = sent[d] /\ parsed'[d] = parsed[d] /\ handler'[d] = handler[d]
               /\ size'[d] = size[d] /\ command'[d] = command[d]
    BY <1>0, <1>2, <2>1 DEF ReadBody
  <2>2. ASSUME ReadHeader(c)
        PROVE  /\ link'[d] = link[d] /\ wire'[d] = wire[d] /\ socket'[d] = socket[d]
               /\ sent'[d] = sent[d] /\ parsed'[d] = parsed[d] /\ handler'[d] = handler[d]
               /\ size'[d] = size[d] /\ command'[d] = command[d]
    BY <1>0, <1>2, <2>2 DEF ReadHeader
  <2>3. ASSUME SendCommand(c) \/ Accept(c) \/ InsertPeer(c) \/ RemovePeer(c)
        PROVE  /\ link'[d] = link[d] /\ wire'[d] = wire[d] /\ socket'[d] = socket[d]
               /\ sent'[d] = sent[d] /\ parsed'[d] = parsed[d] /\ handler'[d] = handler[d]
               /\ size'[d] = size[d] /\ command'[d] = command[d]
    BY <1>0, <1>2, <2>3 DEF SendCommand, Accept, InsertPeer, RemovePeer
  <2>4. ASSUME Arrive(c)
        PROVE  /\ link'[d] = link[d] /\ wire'[d] = wire[d] /\ socket'[d] = socket[d]
               /\ sent'[d] = sent[d] /\ parsed'[d] = parsed[d] /\ handler'[d] = handler[d]
               /\ size'[d] = size[d] /\ command'[d] = command[d]
    BY <1>0, <1>2, <2>4 DEF Arrive
  <2>5. ASSUME \/ \E m \in Message : Sends(c, m)
               \/ ClientShuts(c) \/ ClientResets(c)
        PROVE  /\ link'[d] = link[d] /\ wire'[d] = wire[d] /\ socket'[d] = socket[d]
               /\ sent'[d] = sent[d] /\ parsed'[d] = parsed[d] /\ handler'[d] = handler[d]
               /\ size'[d] = size[d] /\ command'[d] = command[d]
    BY <1>0, <1>2, <2>5 DEF Sends, Send, ClientShuts, ClientResets
  <2>6. QED BY <1>0, <1>2, <2>1, <2>2, <2>3, <2>4, <2>5, FramedKept DEF Handle
<1>3. ASSUME NEW m \in Message, Sends(d, m)
      PROVE  Framed(d)'
  BY <1>0, <1>3, FramedSent
<1>4. CASE ClientShuts(d)
  BY <1>0, <1>4 DEF ClientShuts, Framed, Arrived
<1>5. CASE ClientResets(d)
  BY <1>0, <1>5 DEF ClientResets, Framed
<1>6. CASE Arrive(d)
  BY <1>0, <1>6, FramedArrived
<1>7. CASE ReadHeader(d)
  BY <1>0, <1>7, FramedHeader
<1>8. CASE ReadBody(d)
  BY <1>0, <1>8, FramedBody
<1>9. CASE SendCommand(d)
  BY <1>0, <1>9, FramedCommand
<1>10. CASE Accept(d) \/ InsertPeer(d) \/ RemovePeer(d)
  <2>1. /\ UNCHANGED <<link, wire, socket, sent, parsed>>
        /\ \/ handler[d] \in {"idle", "accepted"} /\ handler'[d] \in {"accepted", "header"}
           \/ handler'[d] = "done"
    BY <1>0, <1>10 DEF Accept, InsertPeer, RemovePeer
  <2>2. QED BY <1>0, <2>1, FramedKept
<1>11. ASSUME NEW c \in Conn, Reads(c)
       PROVE  Framed(d)'
  BY <1>1, <1>11 DEF Reads
<1>12. CASE BrokerTakes \/ BrokerAnswers \/ BrokerPanics \/ WriteAnswer
  BY <1>1, <1>12 DEF BrokerTakes, BrokerAnswers, BrokerPanics, WriteAnswer
<1>13. CASE UNCHANGED serverVars
  BY <1>1, <1>13 DEF serverVars
<1>14. QED
  BY <1>2, <1>3, <1>4, <1>5, <1>6, <1>7, <1>8, <1>9, <1>10, <1>11, <1>12, <1>13
  DEF ServerMoves, ServerActs, Handle

\* Before anything is sent there is nothing to read.
LEMMA FramingStarts == ServerInit => FramesInOrder
<1> SUFFICES ASSUME ServerInit, NEW c \in Conn
             PROVE  Framed(c)
  BY DEF FramesInOrder
<1>1. /\ link[c] = "open" /\ handler[c] = "idle" /\ wire[c] = <<>> /\ socket[c] = <<>>
      /\ sent[c] = <<>> /\ parsed[c] = <<>>
  BY DEF ServerInit
<1>2. Len(<<>>) = 0 /\ 1 .. 0 = {} /\ 0 - 0 = 0 /\ 0 .. 0 = {0} /\ 0 + 1 .. 0 = {} /\ 0 <= 0
  BY EmptySeq
<1>3. Frames(<<>>, <<>>, 0, 0, 0)
  <2> DEFINE b == [i \in 0 .. 0 |-> 0]
  <2>1. b \in [0 .. 0 -> Int] /\ b[0] = 0
    OBVIOUS
  <2> HIDE DEF b
  <2>2. Cut(b, 0, 0, <<>>, <<>>, 0)
    <3>1. \A i, j \in 0 .. 0 : i <= j => b[i] <= b[j]
      BY <2>1
    <3>2. QED BY <1>2, <2>1, <3>1 DEF Cut
  <2>3. QED BY <1>2, <2>1, <2>2 DEF Frames
<1>4. Arrived(c) = 0
  BY <1>1, <1>2 DEF Arrived
<1>5. QED BY <1>1, <1>2, <1>3, <1>4 DEF Framed

\* The commands of a handler at its place in the stream are messages.
LEMMA FramingGives ==
  ASSUME ServerTypeOK, FramesInOrder
  PROVE  CommandsAreMessages
<1> SUFFICES ASSUME NEW c \in Conn
             PROVE  IsPrefix(parsed[c], sent[c])
  BY DEF CommandsAreMessages
<1> DEFINE p == parsed[c]
           s == sent[c]
<1>1. /\ p \in Seq(Seq(Bytes)) /\ s \in Seq(Message) /\ Len(p) \in Nat /\ Len(s) \in Nat
  BY DEF ServerTypeOK
<1>2. Len(p) <= Len(s) /\ \A i \in 1 .. Len(p) : p[i] = s[i]
  BY DEF FramesInOrder, Framed
<1> HIDE DEF p, s
<1>3. SubSeq(p, 1, Len(p)) = SubSeq(s, 1, Len(p))
  <2> DEFINE q == SubSeq(s, 1, Len(p))
  <2>1. \A i \in 1 .. Len(p) : s[i] \in Message
    BY <1>1, <1>2
  <2>2. q \in Seq(Message) /\ Len(q) = Len(p) /\ \A i \in 1 .. Len(p) : q[i] = s[i]
    <3> DEFINE n == Len(p)
    <3>1. n \in Nat /\ n <= Len(s)
      BY <1>1, <1>2
    <3> HIDE DEF n
    <3>2. SubSeq(s, 1, n) \in Seq(Message) /\ Len(SubSeq(s, 1, n)) = n
          /\ \A i \in 1 .. n : SubSeq(s, 1, n)[i] = s[i]
      BY <1>1, <3>1
    <3>3. QED BY <3>2 DEF n
  <2> HIDE DEF q
  <2>3. p = q
    BY <1>1, <1>2, <2>2, SeqEqual
  <2>4. SubSeq(p, 1, Len(p)) = p
    BY <1>1
  <2>5. QED BY <2>3, <2>4 DEF q
<1>4. QED BY <1>2, <1>3 DEF IsPrefix, p, s

\* As long as the network cuts no frame into pieces, the broker is sent the
\* messages of the clients, all of them and in their order, although the handler
\* (tcp_server.rs) reads header and body with one call each.  With pieces it is
\* wrong, as the run fragments shows.
THEOREM ServerFrames ==
  ASSUME Fragments = FALSE
  PROVE  ServerSpec => []CommandsAreMessages
<1>1. ServerInit => ServerTypeOK /\ FramesInOrder
  BY TypesStart, FramingStarts
<1>2. ServerTypeOK /\ FramesInOrder /\ [ServerNext]_serverVars => (ServerTypeOK /\ FramesInOrder)'
  BY StepMoves, TypesMove, FramingMove
<1>3. ServerTypeOK /\ FramesInOrder => CommandsAreMessages
  BY FramingGives
<1>4. QED BY <1>1, <1>2, <1>3, PTL DEF ServerSpec

=============================================================================
