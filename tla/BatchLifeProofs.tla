-------------------------- MODULE BatchLifeProofs ---------------------------
(***************************************************************************)
(* What the first life of a broker that handles batches promises, and what *)
(* it leaves when it stops, for all messages, batches, groups, segment     *)
(* sizes and retentions: through refused messages and failed cleanings the *)
(* log holds what the requests wrote, a success answers the offsets of its *)
(* messages, and wherever the process is cut off the directory describes   *)
(* one contiguous range of accepted messages.                              *)
(***************************************************************************)
EXTENDS BatchesProofs

-----------------------------------------------------------------------------
(* The messages of the answered requests, one after the other: a fold, like *)
(* the bytes that the cleaner counts.                                       *)

\* What an answered request wrote.
Part(a) == SubSeq(a.batch, 1, a.done)

\* What all of them wrote.
Gathered(ans) == FoldLeft(LAMBDA ms, a : ms \o SubSeq(a.batch, 1, a.done), <<>>, ans)

\* g strings together the parts of every set of answers up to k: the function that
\* FoldLeft of Gathered stands for.
Gathers(g, ans, k) ==
  g = [s \in SUBSET (1 .. k) |->
         IF s = {} THEN <<>> ELSE g[s \ {Max(s)}] \o Part(ans[Max(s)])]

\* One more answer can be added.
LEMMA GathersStep ==
  ASSUME NEW ans, NEW k \in Nat, NEW g, Gathers(g, ans, k)
  PROVE  \E h : Gathers(h, ans, k + 1)
<1> DEFINE h == [s \in SUBSET (1 .. k + 1) |->
                   IF k + 1 \in s THEN g[s \ {k + 1}] \o Part(ans[k + 1]) ELSE g[s]]
<1>1. ASSUME NEW s \in SUBSET (1 .. k + 1)
      PROVE  h[s] = IF s = {} THEN <<>> ELSE h[s \ {Max(s)}] \o Part(ans[Max(s)])
  <2>1. CASE k + 1 \in s
    <3>1. Max(s) = k + 1
      <4>1. s \in SUBSET Nat /\ \A y \in s : y <= k + 1
        OBVIOUS
      <4>2. QED BY <2>1, <4>1, MaxIs
    <3>2. s \ {k + 1} \in SUBSET (1 .. k + 1) /\ k + 1 \notin s \ {k + 1}
      OBVIOUS
    <3>3. h[s \ {k + 1}] = g[s \ {k + 1}]
      BY <3>2
    <3>4. h[s] = g[s \ {k + 1}] \o Part(ans[k + 1])
      BY <2>1
    <3>5. QED BY <2>1, <3>1, <3>3, <3>4
  <2>2. CASE k + 1 \notin s
    <3>1. s \in SUBSET (1 .. k) /\ h[s] = g[s]
      <4>1. \A y \in 1 .. k + 1 : y # k + 1 => y \in 1 .. k
        OBVIOUS
      <4>2. QED BY <2>2, <4>1
    <3>2. h[s \ {Max(s)}] = g[s \ {Max(s)}]
      <4>1. s \ {Max(s)} \in SUBSET (1 .. k + 1) /\ k + 1 \notin s \ {Max(s)}
        BY <2>2
      <4>2. QED BY <4>1
    <3>3. g[s] = IF s = {} THEN <<>> ELSE g[s \ {Max(s)}] \o Part(ans[Max(s)])
      BY <3>1 DEF Gathers
    <3>4. QED BY <3>1, <3>2, <3>3
  <2>3. QED BY <2>1, <2>2
<1>2. h = [s \in SUBSET (1 .. k + 1) |-> h[s]]
  OBVIOUS
<1>3. Gathers(h, ans, k + 1)
  <2> HIDE DEF h
  <2>1. QED BY <1>1, <1>2 DEF Gathers
<1>4. QED BY <1>3

\* So all can.
LEMMA GathersAll ==
  ASSUME NEW ans, NEW n \in Nat
  PROVE  \E g : Gathers(g, ans, n)
<1> DEFINE T == {k \in Nat : ~ \E g : Gathers(g, ans, k)}
<1>1. SUFFICES ASSUME T # {} PROVE FALSE
  OBVIOUS
<1>2. PICK k \in T : \A j \in T : k <= j
  <2>1. T \in SUBSET Nat
    OBVIOUS
  <2>2. QED BY <1>1, <2>1, LeastNat
<1>3. k # 0
  <2> DEFINE g == [s \in SUBSET (1 .. 0) |-> <<>>]
  <2>1. SUBSET (1 .. 0) = {{}}
    OBVIOUS
  <2>2. g = [s \in SUBSET (1 .. 0) |-> IF s = {} THEN <<>> ELSE g[s \ {Max(s)}] \o Part(ans[Max(s)])]
    BY <2>1
  <2>3. Gathers(g, ans, 0)
    <3> HIDE DEF g
    <3>1. QED BY <2>2 DEF Gathers
  <2>4. QED BY <2>3
<1>4. k - 1 \in Nat /\ ~(k <= k - 1) /\ (k - 1) + 1 = k
  BY <1>3
<1>5. k - 1 \notin T
  BY <1>2, <1>4
<1>6. PICK g : Gathers(g, ans, k - 1)
  BY <1>4, <1>5
<1>7. \E h : Gathers(h, ans, (k - 1) + 1)
  BY <1>4, <1>6, GathersStep
<1>8. QED BY <1>2, <1>4, <1>7

\* What Gathers says of the first i answers.
LEMMA GathersFirst ==
  ASSUME NEW ans, NEW n \in Nat, NEW g, Gathers(g, ans, n)
  PROVE  /\ g[{}] = <<>>
         /\ \A i \in 1 .. n : g[1 .. i] = g[1 .. i - 1] \o Part(ans[i])
<1>1. \A s \in SUBSET (1 .. n) : g[s] = IF s = {} THEN <<>> ELSE g[s \ {Max(s)}] \o Part(ans[Max(s)])
  BY DEF Gathers
<1>2. g[{}] = <<>>
  BY <1>1
<1>3. ASSUME NEW i \in 1 .. n
      PROVE  g[1 .. i] = g[1 .. i - 1] \o Part(ans[i])
  <2>1. /\ i \in 1 .. i /\ 1 .. i \in SUBSET Nat /\ 1 .. i \in SUBSET (1 .. n) /\ (1 .. i) \ {i} = 1 .. i - 1
        /\ \A y \in 1 .. i : y <= i
    OBVIOUS
  <2>2. Max(1 .. i) = i
    BY <2>1, MaxIs
  <2>3. 1 .. i # {}
    BY <2>1
  <2>4. QED BY <1>1, <2>1, <2>2, <2>3
<1>4. QED BY <1>2, <1>3

\* One answer more is its part more.
LEMMA GatheredMore ==
  ASSUME NEW S, NEW ans \in Seq(S), NEW a \in S
  PROVE  Gathered(Append(ans, a)) = Gathered(ans) \o Part(a)
<1> DEFINE n == Len(ans)
           bs == Append(ans, a)
<1>1. n \in Nat /\ DOMAIN ans = 1 .. n
  OBVIOUS
<1>2. bs \in Seq(S) /\ Len(bs) = n + 1 /\ DOMAIN bs = 1 .. n + 1 /\ bs[n + 1] = a
      /\ \A i \in 1 .. n : bs[i] = ans[i]
  BY AppendProperties
<1> HIDE DEF n, bs
<1> DEFINE g == CHOOSE g : Gathers(g, ans, n)
           h == CHOOSE h : Gathers(h, bs, n + 1)
<1>3. Gathered(ans) = g[1 .. n]
  BY <1>1 DEF Gathered, FoldLeft, MapThenFoldSet, Gathers, Part
<1>4. Gathered(bs) = h[1 .. n + 1]
  BY <1>2 DEF Gathered, FoldLeft, MapThenFoldSet, Gathers, Part
<1>5. Gathers(g, ans, n) /\ Gathers(h, bs, n + 1)
  <2>1. n + 1 \in Nat
    BY <1>1
  <2>2. QED BY <1>1, <2>1, GathersAll
<1> HIDE DEF g, h
<1>6. g[{}] = <<>> /\ \A i \in 1 .. n : g[1 .. i] = g[1 .. i - 1] \o Part(ans[i])
  BY <1>1, <1>5, GathersFirst
<1>7. h[{}] = <<>> /\ \A i \in 1 .. n + 1 : h[1 .. i] = h[1 .. i - 1] \o Part(bs[i])
  <2>1. n + 1 \in Nat
    BY <1>1
  <2>2. QED BY <1>5, <2>1, GathersFirst
<1>8. \A i \in 0 .. n : g[1 .. i] = h[1 .. i]
  <2> DEFINE T == {i \in 0 .. n : g[1 .. i] # h[1 .. i]}
  <2> SUFFICES ASSUME T # {} PROVE FALSE
    OBVIOUS
  <2>1. PICK i \in T : \A l \in T : i <= l
    <3>1. T \in SUBSET Nat
      OBVIOUS
    <3>2. QED BY <3>1, LeastNat
  <2>2. i \in 0 .. n /\ i # 0
    <3>1. 1 .. 0 = {}
      OBVIOUS
    <3>2. QED BY <1>6, <1>7, <2>1, <3>1
  <2>3. i \in 1 .. n /\ i - 1 \in 0 .. n /\ ~(i <= i - 1) /\ i \in 1 .. n + 1
    BY <1>1, <2>2
  <2>4. g[1 .. i - 1] = h[1 .. i - 1]
    BY <2>1, <2>3
  <2>5. g[1 .. i] = h[1 .. i]
    BY <1>2, <1>6, <1>7, <2>3, <2>4
  <2>6. QED BY <2>1, <2>5
<1>9. n \in 0 .. n /\ n + 1 \in 1 .. n + 1 /\ (n + 1) - 1 = n
  BY <1>1
<1>10. h[1 .. n + 1] = h[1 .. n] \o Part(a)
  BY <1>2, <1>7, <1>9
<1>11. QED BY <1>3, <1>4, <1>8, <1>9, <1>10 DEF bs

\* Nothing was written before the first answer.
LEMMA GatheredNone == Gathered(<<>>) = <<>>
<1> DEFINE g == CHOOSE g : Gathers(g, <<>>, 0)
<1>1. DOMAIN <<>> = 1 .. 0
  OBVIOUS
<1>2. Gathered(<<>>) = g[1 .. 0]
  BY <1>1 DEF Gathered, FoldLeft, MapThenFoldSet, Gathers, Part
<1>3. Gathers(g, <<>>, 0)
  BY GathersAll
<1> HIDE DEF g
<1>4. g[{}] = <<>>
  BY <1>3, GathersFirst
<1>5. 1 .. 0 = {}
  OBVIOUS
<1>6. QED BY <1>2, <1>4, <1>5

-----------------------------------------------------------------------------
(* What the log holds of the requests.                                      *)

\* The messages of the log, without their offsets.
Datas(log) == [i \in 1 .. Len(log) |-> log[i].data]

\* The first messages of a batch are in the log, in a row from a position on.
Holds(log, b, first, done) ==
  /\ first > 0 /\ done <= Len(b) /\ (first - 1) + done <= Len(log)
  /\ \A k \in 1 .. done : log[(first - 1) + k].data = b[k]

\* So it is of every answered request, up to where it got; one that succeeded got to
\* its end, and the offset it answers is the one of its last message.
HoldsAnswer(log, a) ==
  /\ Holds(log, a.batch, a.first, a.done)
  /\ a.success => a.done = Len(a.batch) /\ (a.done > 0 => a.last + 2 = a.first + a.done)

\* All of them, in a log.
HoldsAnswers(log, ans) == \A i \in DOMAIN ans : HoldsAnswer(log, ans[i])

\* The request in the handler writes at the end of the log.
HoldsRequest(log, r) ==
  r # NoRequest =>
    /\ Holds(log, r.batch, r.first, r.done)
    /\ (r.first - 1) + r.done = Len(log)
    /\ r.done > 0 => r.last + 1 = Len(log)

\* And nothing else is in the log than what requests wrote.
HoldsWritten == Gathered(answers) \in Seq(Messages) /\ Written = Datas(accepted)

\* What is in the log stays there.
LEMMA HoldsGrows ==
  ASSUME NEW log, NEW more, Len(log) \in Nat, Len(more) \in Nat, Len(log) <= Len(more),
         \A i \in 1 .. Len(log) : more[i] = log[i],
         NEW b, NEW first \in Nat, NEW done \in Nat, Holds(log, b, first, done)
  PROVE  Holds(more, b, first, done)
<1> DEFINE l == Len(log)
           n == Len(more)
<1>1. /\ first > 0 /\ done <= Len(b) /\ (first - 1) + done <= l
      /\ \A k \in 1 .. done : log[(first - 1) + k].data = b[k]
  BY DEF Holds
<1>2. l \in Nat /\ n \in Nat /\ l <= n /\ \A i \in 1 .. l : more[i] = log[i]
  OBVIOUS
<1> HIDE DEF l, n
<1>3. (first - 1) + done <= n /\ \A k \in 1 .. done : (first - 1) + k \in 1 .. l
  BY <1>1, <1>2
<1>4. \A k \in 1 .. done : more[(first - 1) + k].data = b[k]
  BY <1>1, <1>2, <1>3
<1>5. QED BY <1>1, <1>3, <1>4 DEF Holds, n

\* For all answers.
LEMMA HoldsAnswersGrows ==
  ASSUME NEW log, NEW more, Len(log) \in Nat, Len(more) \in Nat, Len(log) <= Len(more),
         \A i \in 1 .. Len(log) : more[i] = log[i],
         NEW ans \in Seq(Answer), HoldsAnswers(log, ans)
  PROVE  HoldsAnswers(more, ans)
<1>1. ASSUME NEW i \in DOMAIN ans
      PROVE  HoldsAnswer(more, ans[i])
  <2> DEFINE a == ans[i]
  <2>1. a \in Answer /\ HoldsAnswer(log, a)
    BY DEF HoldsAnswers
  <2> HIDE DEF a
  <2>2. a.first \in Nat /\ a.done \in Nat
    BY <2>1 DEF Answer
  <2>3. Holds(more, a.batch, a.first, a.done)
    BY <2>1, <2>2, HoldsGrows DEF HoldsAnswer
  <2>4. HoldsAnswer(more, a)
    BY <2>1, <2>3 DEF HoldsAnswer
  <2>5. QED BY <2>4 DEF a
<1>2. QED BY <1>1 DEF HoldsAnswers

\* And one more.
LEMMA HoldsAnswersMore ==
  ASSUME NEW log, NEW ans \in Seq(Answer), HoldsAnswers(log, ans),
         NEW a \in Answer, HoldsAnswer(log, a)
  PROVE  HoldsAnswers(log, Append(ans, a))
<1> DEFINE S == Answer
           t == Append(ans, a)
           n == Len(ans)
<1>1. ans \in Seq(S) /\ a \in S
  OBVIOUS
<1> HIDE DEF S
<1>2. /\ Len(t) = n + 1 /\ DOMAIN t = 1 .. n + 1 /\ t[n + 1] = a /\ n \in Nat
      /\ DOMAIN ans = 1 .. n /\ \A i \in 1 .. n : t[i] = ans[i]
  BY <1>1, AppendProperties
<1> HIDE DEF t, n
<1>3. \A i \in DOMAIN t : i = n + 1 \/ i \in 1 .. n
  BY <1>2
<1>4. \A i \in DOMAIN t : HoldsAnswer(log, t[i])
  BY <1>2, <1>3 DEF HoldsAnswers
<1>5. QED BY <1>4 DEF HoldsAnswers, t

\* One message more of a batch.
LEMMA PartMore ==
  ASSUME NEW S, NEW ms \in Seq(S), NEW b \in Seq(S), NEW d \in Nat, d < Len(b)
  PROVE  ms \o SubSeq(b, 1, d + 1) = Append(ms \o SubSeq(b, 1, d), b[d + 1])
<1> DEFINE p == SubSeq(b, 1, d)
           q == SubSeq(b, 1, d + 1)
           l == Len(ms)
           n == Len(b)
<1>1. /\ p \in Seq(S) /\ Len(p) = d /\ (\A i \in 1 .. d : p[i] = b[i])
      /\ q \in Seq(S) /\ Len(q) = d + 1 /\ (\A i \in 1 .. d + 1 : q[i] = b[i])
  BY FirstPart
<1>2. l \in Nat /\ n \in Nat /\ d < n /\ b[d + 1] \in S
  OBVIOUS
<1> DEFINE x == b[d + 1]
           s == ms \o q
           u == ms \o p
           t == Append(u, x)
<1>3. s \in Seq(S) /\ Len(s) = l + (d + 1)
      /\ \A i \in 1 .. l + (d + 1) : s[i] = IF i <= l THEN ms[i] ELSE q[i - l]
  BY <1>1, ConcatProperties
<1>4. u \in Seq(S) /\ Len(u) = l + d
      /\ \A i \in 1 .. l + d : u[i] = IF i <= l THEN ms[i] ELSE p[i - l]
  BY <1>1, ConcatProperties
<1> HIDE DEF p, q, l, n, s, u
<1>5. t \in Seq(S) /\ Len(t) = (l + d) + 1 /\ t[(l + d) + 1] = x
      /\ \A i \in 1 .. l + d : t[i] = u[i]
  BY <1>2, <1>4, AppendProperties
<1> HIDE DEF t
<1>6. ASSUME NEW i \in 1 .. l + (d + 1)
      PROVE  s[i] = t[i]
  <2>1. CASE i = l + (d + 1)
    <3>1. ~(i <= l) /\ i - l = d + 1 /\ d + 1 \in 1 .. d + 1 /\ i = (l + d) + 1
      BY <1>2, <2>1
    <3>2. s[i] = q[d + 1] /\ q[d + 1] = x
      BY <1>1, <1>3, <3>1
    <3>3. QED BY <1>5, <3>1, <3>2
  <2>2. CASE i # l + (d + 1)
    <3>1. i \in 1 .. l + d /\ (~(i <= l) => i - l \in 1 .. d /\ i - l \in 1 .. d + 1)
      BY <1>2, <2>2
    <3>2. t[i] = IF i <= l THEN ms[i] ELSE p[i - l]
      BY <1>4, <1>5, <3>1
    <3>3. s[i] = IF i <= l THEN ms[i] ELSE q[i - l]
      BY <1>3
    <3>4. ~(i <= l) => p[i - l] = q[i - l]
      BY <1>1, <3>1
    <3>5. QED BY <3>2, <3>3, <3>4
  <2>3. QED BY <2>1, <2>2
<1>7. l + (d + 1) = (l + d) + 1
  BY <1>2
<1>8. Len(s) = Len(t) /\ \A i \in 1 .. Len(s) : s[i] = t[i]
  BY <1>3, <1>5, <1>6, <1>7
<1>9. s = t
  BY <1>3, <1>5, <1>8, SeqEqual
<1>10. QED BY <1>9 DEF s, t, u, p, q, x

\* One message more in the log.
LEMMA DatasMore ==
  ASSUME NEW log \in Seq([offset : Offset, data : Messages]),
         NEW r \in [offset : Offset, data : Messages]
  PROVE  /\ Datas(log) \in Seq(Messages)
         /\ Datas(Append(log, r)) = Append(Datas(log), r.data)
<1> DEFINE S == [offset : Offset, data : Messages]
           n == Len(log)
           more == Append(log, r)
           d == Datas(log)
           t == Append(d, r.data)
<1>1. \A x \in S : x.data \in Messages
  OBVIOUS
<1>2. log \in Seq(S) /\ r \in S
  OBVIOUS
<1> HIDE DEF S
<1>3. /\ Len(more) = n + 1 /\ more[n + 1] = r /\ n \in Nat
      /\ \A i \in 1 .. n : more[i] = log[i] /\ log[i] \in S
  BY <1>2, AppendProperties
<1>4. d \in Seq(Messages) /\ Len(d) = n /\ \A i \in 1 .. n : d[i] = log[i].data
  <2> HIDE DEF n
  <2>1. d = [i \in 1 .. n |-> log[i].data] /\ \A i \in 1 .. n : log[i].data \in Messages
    BY <1>1, <1>3 DEF Datas, n
  <2>2. [i \in 1 .. n |-> log[i].data] \in Seq(Messages)
    BY <1>3, <2>1, IsASeq
  <2>3. d \in Seq(Messages) /\ DOMAIN d = 1 .. n
    BY <2>1, <2>2
  <2>4. QED BY <1>3, <2>1, <2>3
<1>5. r.data \in Messages
  BY <1>1, <1>2
<1> HIDE DEF n, more, d
<1>6. /\ t \in Seq(Messages) /\ Len(t) = n + 1 /\ t[n + 1] = r.data
      /\ \A i \in 1 .. n : t[i] = d[i]
  BY <1>4, <1>5, AppendProperties
<1> HIDE DEF t
<1>7. ASSUME NEW i \in 1 .. n + 1
      PROVE  more[i].data = t[i]
  <2>1. i = n + 1 \/ i \in 1 .. n
    BY <1>3
  <2>2. QED BY <1>3, <1>4, <1>6, <2>1
<1>8. Datas(more) = [i \in 1 .. n + 1 |-> t[i]]
  BY <1>3, <1>7 DEF Datas
<1>9. t = [i \in 1 .. n + 1 |-> t[i]]
  BY <1>3, <1>6
<1>10. QED BY <1>4, <1>8, <1>9 DEF d, t, more

-----------------------------------------------------------------------------
(* The first life.                                                          *)

\* A log file without a name is that of the oldest segment, and there is a newer one.
UnlinkedOldest ==
  unlinked # {} => Len(segments) > 1 /\ unlinked = {segments[1].start}

\* The invariant: what TopicProofs shows of one life, cleanings that fail included,
\* and what the log holds of the requests.
FirstLog ==
  /\ up
  /\ TopicInv
  /\ UnlinkedOldest
  /\ HoldsAnswers(accepted, answers)
  /\ HoldsRequest(accepted, request)
  /\ HoldsWritten

\* It holds until the first stop.
ServedInv == BatchesInv /\ (crashes = 0 => FirstLog)

\* Nothing is removed when no oldest segment is.
LEMMA LeavingNone ==
  ASSUME NEW segs \in Seq(Segment), NEW files \in [Offset -> Files]
  PROVE  Newest(segs, 0) = segs /\ Delete(files, Oldest(segs, 0)) = files
<1>1. Newest(segs, 0) = segs
  <2>1. SubSeq(segs, 0 + 1, Len(segs)) = segs
    OBVIOUS
  <2>2. QED BY <2>1 DEF Newest
<1>2. Oldest(segs, 0) = {}
  BY DEF Oldest
<1>3. Delete(files, {}) = files
  BY DEF Delete
<1>4. QED BY <1>1, <1>2, <1>3

\* A cleaning that fails removes the segments before the one it fails on, and that
\* is not the newest.
LEMMA UncleanedLeaves ==
  ASSUME NEW v, NEW m, NEW segs \in Seq(Segment), NEW files \in [Offset -> Files],
         unlinked # {} => Len(segs) > 1 /\ unlinked = {segs[1].start},
         StoreUncleaned(v, m, segs, files)
  PROVE  \E n \in 0 .. Len(segs) :
           /\ n = 0 \/ n + 1 < Len(segs)
           /\ StoreLeaving(v, m, segs, files, n)
           /\ UnlinkedOldest'
<1> DEFINE l == Len(segs)
<1>1. PICK left \in Uncleaned(segs, files) :
        segments' = left.segs /\ disk' = left.files /\ unlinked' = left.unlinked
  BY DEF StoreUncleaned
<1>2. /\ current' = Write(v, m) /\ UNCHANGED <<up, crashes>>
      /\ accepted' = Append(accepted, [offset |-> U16(v.start + v.next), data |-> m])
  BY DEF StoreUncleaned
<1>3. l \in Nat
  OBVIOUS
<1>4. CASE unlinked # {}
  <2>1. left = [segs |-> segs, files |-> files, unlinked |-> unlinked]
    BY <1>4 DEF Uncleaned
  <2>2. segments' = segs /\ disk' = files /\ unlinked' = unlinked
    BY <1>1, <2>1
  <2>3. StoreLeaving(v, m, segs, files, 0)
    BY <1>2, <2>2, LeavingNone DEF StoreLeaving
  <2>4. UnlinkedOldest'
    BY <1>4, <2>2 DEF UnlinkedOldest
  <2>5. 0 \in 0 .. l
    BY <1>3
  <2>6. QED BY <2>3, <2>4, <2>5
<1>5. CASE unlinked = {}
  <2> DEFINE failedAt(n, lost) ==
               [segs |-> SubSeq(segs, n, Len(segs)),
                files |-> Delete(files, {segs[i].start : i \in 1 .. n - 1}),
                unlinked |-> lost]
  <2>1. PICK n \in 1 .. Excess(segs) : left \in {failedAt(n, {}), failedAt(n, {segs[n].start})}
    BY <1>5, Zenon DEF Uncleaned
  <2>2. /\ n - 1 \in 0 .. l /\ (n - 1) + 1 = n /\ (n - 1) + 1 < l
        /\ l - (n - 1) > 1 /\ 1 \in 1 .. l - (n - 1)
    <3>1. Excess(segs) \in 0 .. l /\ l \in Nat /\ (l # 0 => Excess(segs) < l)
      BY RetainedIs, EmptySeq
    <3> HIDE DEF l
    <3>2. QED BY <3>1
  <2>3. /\ segments' = SubSeq(segs, (n - 1) + 1, Len(segs))
        /\ disk' = Delete(files, {segs[i].start : i \in 1 .. n - 1})
        /\ unlinked' \in {{}, {segs[n].start}}
    BY <1>1, <2>1, <2>2
  <2>4. segments' = Newest(segs, n - 1) /\ disk' = Delete(files, Oldest(segs, n - 1))
    BY <2>3 DEF Newest, Oldest
  <2>5. StoreLeaving(v, m, segs, files, n - 1)
    BY <1>2, <2>4 DEF StoreLeaving
  <2>6. Len(segments') = l - (n - 1) /\ segments'[1] = segs[(n - 1) + 1]
    BY <2>2, <2>3, Suffix
  <2>7. UnlinkedOldest'
    <3> HIDE DEF l
    <3>1. Len(segments') > 1 /\ segments'[1] = segs[n]
      BY <2>2, <2>6
    <3>2. QED BY <2>3, <3>1 DEF UnlinkedOldest
  <2>8. QED BY <2>2, <2>5, <2>7
<1>6. QED BY <1>4, <1>5

\* So an append whose cleaning fails is one that removes some of the oldest segments.
LEMMA UncleanedAppends ==
  ASSUME MaxAppends < OffsetSpan, RequestTypes, LifeInv, UnlinkedOldest, AppendUncleaned
  PROVE  AppendLeaving(Message) /\ UnlinkedOldest' /\ up' = up /\ crashes' = crashes
<1> DEFINE l == Len(segments)
<1>1. /\ Message \in Messages /\ Storable(Message)
      /\ segments \in Seq(Segment) /\ disk \in [Offset -> Files] /\ l \in Nat
  BY MessageIs DEF AppendUncleaned, LifeInv, TypeOK
<1>2. CASE Fits(current, Message)
  <2>1. StoreUncleaned(current, Message, segments, disk)
    BY <1>2 DEF AppendUncleaned
  <2>2. PICK n \in 0 .. l :
          /\ n = 0 \/ n + 1 < l
          /\ StoreLeaving(current, Message, segments, disk, n)
          /\ UnlinkedOldest'
    BY <1>1, <2>1, UncleanedLeaves DEF UnlinkedOldest
  <2>3. PlaceLeaving(Message, n)
    BY <1>2, <2>2 DEF PlaceLeaving
  <2>4. n = 0 \/ n < l
    <3> HIDE DEF l
    <3>1. QED BY <1>1, <2>2
  <2>5. QED BY <1>1, <2>1, <2>2, <2>3, <2>4 DEF AppendLeaving, StoreUncleaned
<1>3. CASE ~Fits(current, Message)
  <2> DEFINE f == Flush(disk, current)
             s == LoadSegment(f, current.start)
             t == Append(segments, s)
             v == Successor(current)
  <2>1. PICK segs \in Reloaded(f) : StoreUncleaned(v, Message, segs, f)
    BY <1>3 DEF AppendUncleaned
  <2>2. /\ f \in [Offset -> Files] /\ t \in Seq(Segment) /\ Len(t) = l + 1 /\ segs = t
        /\ s \in Segment
    BY <1>1, <1>3, <2>1, SplitMakes
  <2> HIDE DEF f, s, v
  <2>3. ASSUME unlinked # {}
        PROVE  Len(t) > 1 /\ unlinked = {t[1].start}
    <3>1. l > 1 /\ unlinked = {segments[1].start}
      BY <2>3 DEF UnlinkedOldest
    <3>2. t[1] = segments[1]
      BY <1>1, <2>2, <3>1, AppendProperties
    <3> HIDE DEF l, t
    <3>3. QED BY <1>1, <2>2, <3>1, <3>2
  <2> HIDE DEF t
  <2>4. PICK n \in 0 .. Len(t) :
          /\ n = 0 \/ n + 1 < Len(t)
          /\ StoreLeaving(v, Message, t, f, n)
          /\ UnlinkedOldest'
    BY <2>1, <2>2, <2>3, UncleanedLeaves
  <2>5. n \in 0 .. l
    <3> HIDE DEF l
    <3>1. QED BY <1>1, <2>2, <2>4
  <2>6. SplitLeaving(Message, n)
    BY <1>3, <2>1, <2>2, <2>4 DEF SplitLeaving, f, v
  <2>7. QED BY <1>1, <2>1, <2>4, <2>5, <2>6 DEF AppendLeaving, StoreUncleaned
<1>4. QED BY <1>2, <1>3

\* An append adds its message to the log, under the next number.
LEMMA LeavingAdds ==
  ASSUME LifeInv, LifeInv', NEW m \in Messages, AppendLeaving(m)
  PROVE  LET n == Len(accepted)
         IN /\ n \in Nat /\ Len(accepted') = n + 1 /\ accepted'[n + 1].data = m
            /\ \A i \in 1 .. n : accepted'[i] = accepted[i]
            /\ Last(accepted').offset = n
            /\ Datas(accepted) \in Seq(Messages)
            /\ Datas(accepted') = Append(Datas(accepted), m)
<1> DEFINE S == [offset : Offset, data : Messages]
           n == Len(accepted)
<1>1. accepted \in Seq(S) /\ n \in Nat
  BY DEF LifeInv, TypeOK
<1>2. PICK v \in VirtualSegment : accepted' = Append(accepted, [offset |-> U16(v.start + v.next), data |-> m])
  <2>1. current \in VirtualSegment /\ Successor(current) \in VirtualSegment
    BY SuccessorTypes DEF LifeInv, TypeOK
  <2>2. PICK v \in VirtualSegment : \E segs, files, k : StoreLeaving(v, m, segs, files, k)
    BY <2>1 DEF AppendLeaving, PlaceLeaving, SplitLeaving
  <2>3. QED BY <2>2 DEF StoreLeaving
<1> DEFINE r == [offset |-> U16(v.start + v.next), data |-> m]
<1>3. r \in S /\ r.data = m
  <2>1. v.start \in Nat /\ v.next \in Nat
    BY OffsetsAre DEF VirtualSegment
  <2>2. v.start + v.next \in Nat
    BY <2>1
  <2>3. QED BY <2>2, WrapsInto
<1> HIDE DEF r
<1>4. Datas(accepted) \in Seq(Messages) /\ Datas(accepted') = Append(Datas(accepted), m)
  BY <1>1, <1>2, <1>3, DatasMore DEF r
<1> HIDE DEF S
<1>5. /\ Len(accepted') = n + 1 /\ accepted'[n + 1] = r
      /\ \A i \in 1 .. n : accepted'[i] = accepted[i]
  BY <1>1, <1>2, <1>3, AppendProperties DEF r
<1> HIDE DEF n
<1>6. Last(accepted').offset = n
  <2>1. accepted'[n + 1].offset = (n + 1) - 1
    <3>1. n + 1 \in DOMAIN accepted'
      <4>1. accepted' \in Seq([offset : Offset, data : Messages])
        BY DEF LifeInv, TypeOK
      <4>2. n + 1 \in 1 .. n + 1
        BY <1>1
      <4>3. QED BY <1>5, <4>1, <4>2
    <3>2. QED BY <3>1 DEF LifeInv, OffsetsConsecutive
  <2>2. QED BY <1>1, <1>5, <2>1 DEF Last
<1>7. QED BY <1>1, <1>3, <1>4, <1>5, <1>6 DEF n

\* What is written, while a request is handled and while none is.
WrittenAre ==
  /\ request = NoRequest => Written = Gathered(answers) \o <<>>
  /\ request # NoRequest => Written = Gathered(answers) \o SubSeq(request.batch, 1, request.done)

\* In every state,
LEMMA WrittenNow == WrittenAre
  BY DEF WrittenAre, Written, Gathered

\* and in the next one.
LEMMA WrittenNext == WrittenAre'
<1>1. WrittenAre
  BY WrittenNow
<1>2. QED BY <1>1, PTL

\* The next message of the request goes to the end of the log.
LEMMA RequestGrows ==
  ASSUME RequestTypes, Unfinished, HoldsRequest(accepted, request), HoldsWritten,
         LifeInv, LifeInv', AppendLeaving(Message)
  PROVE  /\ Holds(accepted', request.batch, request.first, request.done + 1)
         /\ (request.first - 1) + (request.done + 1) = Len(accepted')
         /\ Last(accepted').offset + 1 = Len(accepted')
         /\ Gathered(answers) \o SubSeq(request.batch, 1, request.done + 1) = Datas(accepted')
<1> DEFINE n == Len(accepted)
           b == request.batch
           first == request.first
           done == request.done
<1>1. request \in Request /\ Message \in Messages /\ request # NoRequest
  BY MessageIs DEF Unfinished
<1>2. /\ b \in Seq(Messages) /\ first \in Nat /\ done \in Nat /\ done < Len(b)
      /\ Len(b) \in Nat
  BY <1>1, BatchesAssumption DEF Request, Unfinished
<1>3. /\ n \in Nat /\ Len(accepted') = n + 1 /\ accepted'[n + 1].data = Message
      /\ \A i \in 1 .. n : accepted'[i] = accepted[i]
      /\ Last(accepted').offset = n
      /\ Datas(accepted) \in Seq(Messages)
      /\ Datas(accepted') = Append(Datas(accepted), Message)
  BY <1>1, LeavingAdds
<1>4. /\ first > 0 /\ (first - 1) + done = n
      /\ \A k \in 1 .. done : accepted[(first - 1) + k].data = b[k]
  BY <1>1 DEF HoldsRequest, Holds
<1>5. Message = b[done + 1]
  BY DEF Message
<1>6. Gathered(answers) \o SubSeq(b, 1, done + 1) = Datas(accepted')
  <2>1. Datas(accepted) = Gathered(answers) \o SubSeq(b, 1, done) /\ Gathered(answers) \in Seq(Messages)
    BY <1>1, WrittenNow DEF HoldsWritten, WrittenAre
  <2>2. Gathered(answers) \o SubSeq(b, 1, done + 1) = Append(Gathered(answers) \o SubSeq(b, 1, done), b[done + 1])
    BY <1>2, <2>1, PartMore
  <2>3. QED BY <1>3, <1>5, <2>1, <2>2
<1>7. Holds(accepted', b, first, done + 1) /\ (first - 1) + (done + 1) = Len(accepted')
  <2> DEFINE l == Len(b)
  <2>1. l \in Nat /\ done < l
    BY <1>2
  <2> HIDE DEF n, b, first, done, l
  <2>2. done + 1 <= l /\ (first - 1) + (done + 1) = n + 1
    BY <1>2, <1>4, <2>1
  <2>3. ASSUME NEW k \in 1 .. done + 1
        PROVE  accepted'[(first - 1) + k].data = b[k]
    <3>1. CASE k = done + 1
      BY <1>3, <1>5, <2>2, <3>1
    <3>2. CASE k # done + 1
      <4>1. k \in 1 .. done /\ (first - 1) + k \in 1 .. n
        BY <1>2, <1>4, <3>2
      <4>2. QED BY <1>3, <1>4, <4>1
    <3>3. QED BY <3>1, <3>2
  <2>4. (first - 1) + (done + 1) = Len(accepted')
    BY <1>3, <2>2
  <2>5. (first - 1) + (done + 1) <= Len(accepted')
    BY <1>3, <2>2, <2>4
  <2>6. QED BY <1>4, <2>2, <2>3, <2>4, <2>5 DEF Holds, l
<1>8. QED BY <1>3, <1>6, <1>7

\* An answer says of the log what the request did.
LEMMA AnswerHolds ==
  ASSUME RequestTypes, request \in Request, NEW done \in Nat, NEW success \in BOOLEAN,
         NEW last \in Offset, Answered(done, success, last),
         Holds(accepted', request.batch, request.first, done),
         success => /\ done = Len(request.batch)
                    /\ done > 0 => last + 2 = request.first + done,
         HoldsAnswers(accepted', answers), Gathered(answers) \in Seq(Messages),
         Gathered(answers) \o SubSeq(request.batch, 1, done) = Datas(accepted'),
         Datas(accepted') \in Seq(Messages)
  PROVE  /\ HoldsAnswers(accepted', answers') /\ HoldsRequest(accepted', request')
         /\ HoldsWritten'
<1> DEFINE a == [batch |-> request.batch, first |-> request.first,
                 done |-> done, success |-> success, last |-> last]
<1>1. request' = NoRequest /\ answers' = Append(answers, a)
  BY DEF Answered
<1>2. a \in Answer /\ answers \in Seq(Answer)
  BY DEF Answer, Request, RequestTypes
<1>3. HoldsAnswer(accepted', a) /\ Part(a) = SubSeq(request.batch, 1, done)
  BY DEF HoldsAnswer, Part
<1> HIDE DEF a
<1>4. HoldsAnswers(accepted', answers')
  BY <1>1, <1>2, <1>3, HoldsAnswersMore
<1>5. Gathered(answers') = Datas(accepted')
  BY <1>1, <1>2, <1>3, GatheredMore
<1>6. Written' = Datas(accepted') \o <<>>
  <2>1. request' = NoRequest => Written' = Gathered(answers)' \o <<>>
    BY WrittenNext DEF WrittenAre
  <2>2. QED BY <1>1, <1>5, <2>1
<1>7. Written' = Datas(accepted')
  <2>1. ASSUME NEW s \in Seq(Messages) PROVE s \o <<>> = s
    OBVIOUS
  <2>2. QED BY <1>6, <2>1
<1>8. QED BY <1>1, <1>4, <1>5, <1>7 DEF HoldsRequest, HoldsWritten

\* Steps that leave log, groups and unlinked files.
LEMMA HandlerStays ==
  ASSUME MaxAppends < OffsetSpan, FirstLog, UNCHANGED <<logVars, groupVars, unlinked>>
  PROVE  up' /\ TopicInv' /\ UnlinkedOldest' /\ accepted' = accepted
<1>1. TopicInv'
  <2>1. UNCHANGED topicVars
    BY DEF topicVars
  <2>2. QED BY <2>1, TopicStep DEF FirstLog
<1>2. QED BY <1>1 DEF FirstLog, UnlinkedOldest, logVars

\* What the invariant says of the log as a sequence.
LEMMA FirstFacts ==
  ASSUME FirstLog
  PROVE  /\ LogIntact /\ LogInv /\ LifeInv /\ TypeOK
         /\ Datas(accepted) \in Seq(Messages)
         /\ request # NoRequest =>
              Gathered(answers) \o SubSeq(request.batch, 1, request.done) = Datas(accepted)
         /\ request = NoRequest => Gathered(answers) = Datas(accepted)
<1>1. LogIntact /\ LogInv /\ LifeInv /\ TypeOK
  BY DEF FirstLog, TopicInv, LogIntact, LogInv, LifeInv
<1>2. Datas(accepted) \in Seq(Messages)
  <2> DEFINE S == [offset : Offset, data : Messages]
             n == Len(accepted)
  <2>1. \A x \in S : x.data \in Messages
    OBVIOUS
  <2>2. accepted \in Seq(S)
    BY <1>1 DEF TypeOK
  <2> HIDE DEF S
  <2>3. n \in Nat /\ \A i \in 1 .. n : accepted[i] \in S
    BY <2>2
  <2> HIDE DEF n
  <2>4. [i \in 1 .. n |-> accepted[i].data] \in Seq(Messages)
    BY <2>1, <2>3, IsASeq
  <2>5. QED BY <2>4 DEF Datas, n
<1>3. /\ Gathered(answers) \in Seq(Messages) /\ Written = Datas(accepted)
  BY DEF FirstLog, HoldsWritten
<1>4. ASSUME request = NoRequest PROVE Gathered(answers) = Datas(accepted)
  <2>1. ASSUME NEW s \in Seq(Messages) PROVE s \o <<>> = s
    OBVIOUS
  <2>2. QED BY <1>3, <1>4, <2>1, WrittenNow DEF WrittenAre
<1>5. QED BY <1>1, <1>2, <1>3, <1>4, WrittenNow DEF WrittenAre

\* A batch is taken up where the log ends.
LEMMA TakeFirst ==
  ASSUME MaxAppends < OffsetSpan, FirstLog, RequestTypes, NEW b \in Batch, TakeRequest(b)
  PROVE  FirstLog'
<1>1. /\ up' /\ TopicInv' /\ UnlinkedOldest' /\ accepted' = accepted
  BY HandlerStays DEF TakeRequest
<1>2. /\ request = NoRequest /\ answers' = answers
      /\ request' = [batch |-> b, first |-> Len(accepted) + 1, done |-> 0, last |-> 0]
  BY DEF TakeRequest
<1>3. b \in Seq(Messages) /\ Len(accepted) \in Nat
  BY BatchesAssumption, FirstFacts DEF TypeOK
<1>4. HoldsAnswers(accepted', answers')
  BY <1>1, <1>2 DEF FirstLog
<1>5. HoldsRequest(accepted', request')
  <2> DEFINE n == Len(accepted)
  <2>1. /\ request'.batch = b /\ request'.first = n + 1 /\ request'.done = 0
        /\ Len(accepted') = n /\ n \in Nat /\ Len(b) \in Nat
    BY <1>1, <1>2, <1>3
  <2> HIDE DEF n
  <2>2. n + 1 > 0 /\ ((n + 1) - 1) + 0 = n /\ n <= n /\ 0 <= Len(b) /\ ~(0 > 0)
    BY <2>1
  <2>3. QED BY <2>1, <2>2 DEF HoldsRequest, Holds
<1>6. HoldsWritten'
  <2>1. request' # NoRequest /\ request'.batch = b /\ request'.done = 0
    BY <1>2, <1>3, OffsetsAre, BatchesAssumption
  <2>2. SubSeq(b, 1, 0) = <<>>
    BY <1>3
  <2>3. Written' = Gathered(answers)' \o SubSeq(request'.batch, 1, request'.done)
    BY <2>1, WrittenNext DEF WrittenAre
  <2>4. Gathered(answers)' = Gathered(answers)
    BY <1>2
  <2>5. Written' = Gathered(answers) \o <<>>
    BY <2>1, <2>2, <2>3, <2>4
  <2>6. ASSUME NEW s \in Seq(Messages) PROVE s \o <<>> = s
    OBVIOUS
  <2>7. Gathered(answers) = Datas(accepted) /\ Gathered(answers) \in Seq(Messages)
    BY <1>2, FirstFacts
  <2>8. Written' = Datas(accepted')
    BY <1>1, <2>5, <2>6, <2>7
  <2>9. QED BY <2>4, <2>7, <2>8 DEF HoldsWritten
<1>7. QED BY <1>1, <1>4, <1>5, <1>6 DEF FirstLog

\* An append that succeeds goes on with the request.
LEMMA AppendedFirst ==
  ASSUME MaxAppends < OffsetSpan, FirstLog, RequestTypes, AppendNext
  PROVE  FirstLog' /\ up' = up /\ crashes' = crashes
<1>1. /\ request \in Request /\ Message \in Messages /\ Unfinished
      /\ LifeInv /\ LogInv
  BY MessageIs, FirstFacts DEF AppendNext
<1>2. AppendLeaving(Message) /\ AppendMessage(Message)
  BY <1>1, AppendLeaves DEF AppendNext
<1>3. TopicInv'
  BY <1>1, <1>2, LeavingKeepsTopic DEF FirstLog, AppendNext
<1>4. LifeInv' /\ up' = up /\ crashes' = crashes
  <2>1. LifeInv'
    BY <1>1, <1>2, LeavingKeeps
  <2>2. QED BY <1>2, <2>1 DEF AppendMessage, AppendInPlace, AppendAfterSplit, Store
<1>5. UnlinkedOldest'
  BY DEF AppendNext, UnlinkedOldest
<1>6. /\ Holds(accepted', request.batch, request.first, request.done + 1)
      /\ (request.first - 1) + (request.done + 1) = Len(accepted')
      /\ Last(accepted').offset + 1 = Len(accepted')
      /\ Gathered(answers) \o SubSeq(request.batch, 1, request.done + 1) = Datas(accepted')
  BY <1>1, <1>2, <1>4, RequestGrows DEF FirstLog
<1> DEFINE o == Last(accepted').offset
<1>7. /\ request' = [request EXCEPT !.done = @ + 1, !.last = o] /\ answers' = answers
  BY DEF AppendNext
<1>8. /\ request'.batch = request.batch /\ request'.first = request.first
      /\ request'.done = request.done + 1 /\ request'.last = o
  <2> HIDE DEF o
  <2>1. QED BY <1>1, <1>7 DEF Request
<1>9. request' # NoRequest
  <2>1. o \in Offset
    <3>1. AppendMessage(Message) /\ TypeOK
      BY <1>1, <1>2 DEF LifeInv
    <3>2. LifeInv' /\ accepted' # <<>>
      <4>1. Len(accepted') # 0
        BY <1>1, <1>2, <1>4, LeavingAdds
      <4>2. QED BY <1>4, <4>1
    <3>3. accepted' \in Seq([offset : Offset, data : Messages])
      BY <1>4 DEF LifeInv, TypeOK
    <3>4. \A x \in [offset : Offset, data : Messages] : x.offset \in Offset
      OBVIOUS
    <3> DEFINE S == [offset : Offset, data : Messages]
    <3> HIDE DEF S
    <3>5. Len(accepted') \in 1 .. Len(accepted') /\ accepted' \in Seq(S)
      BY <3>2, <3>3, EmptySeq DEF S
    <3>6. Last(accepted') \in S
      BY <3>5 DEF Last
    <3>7. QED BY <3>4, <3>6 DEF S
  <2> HIDE DEF o
  <2>2. request' \in Request
    <3>1. request.done + 1 \in Nat
      BY <1>1 DEF Request
    <3>2. QED BY <1>1, <1>7, <2>1, <3>1 DEF Request
  <2>3. QED BY <2>2, BatchesAssumption DEF Request
<1>10. HoldsRequest(accepted', request')
  BY <1>6, <1>8 DEF HoldsRequest
<1>11. HoldsAnswers(accepted', answers')
  <2>1. /\ Len(accepted) \in Nat /\ Len(accepted') = Len(accepted) + 1
        /\ \A i \in 1 .. Len(accepted) : accepted'[i] = accepted[i]
    BY <1>1, <1>2, <1>4, LeavingAdds
  <2> DEFINE n == Len(accepted)
  <2>2. Len(accepted') \in Nat /\ n <= Len(accepted')
    <3>1. n \in Nat /\ Len(accepted') = n + 1
      BY <2>1
    <3> HIDE DEF n
    <3>2. QED BY <3>1
  <2>3. answers \in Seq(Answer) /\ HoldsAnswers(accepted, answers)
    BY DEF FirstLog, RequestTypes
  <2>4. HoldsAnswers(accepted', answers)
    BY <2>1, <2>2, <2>3, HoldsAnswersGrows
  <2>5. QED BY <1>7, <2>4
<1>12. HoldsWritten'
  <2>1. Written' = Gathered(answers)' \o SubSeq(request'.batch, 1, request'.done)
    BY <1>9, WrittenNext DEF WrittenAre
  <2>2. Gathered(answers)' = Gathered(answers)
    BY <1>7
  <2>3. Written' = Datas(accepted')
    BY <1>6, <1>8, <2>1, <2>2
  <2>4. QED BY <2>2, <2>3 DEF HoldsWritten, FirstLog
<1>13. QED BY <1>3, <1>4, <1>5, <1>10, <1>11, <1>12 DEF FirstLog

\* One whose cleaning fails ends it.
LEMMA UncleanedFirst ==
  ASSUME MaxAppends < OffsetSpan, FirstLog, RequestTypes, AppendUncleaned
  PROVE  FirstLog' /\ up' = up /\ crashes' = crashes
<1>1. /\ request \in Request /\ Message \in Messages /\ Unfinished /\ LifeInv
  BY MessageIs, FirstFacts DEF AppendUncleaned
<1>2. AppendLeaving(Message) /\ UnlinkedOldest' /\ up' = up /\ crashes' = crashes
  BY <1>1, UncleanedAppends DEF FirstLog
<1>3. TopicInv'
  BY <1>1, <1>2, LeavingKeepsTopic DEF FirstLog, AppendUncleaned
<1>4. LifeInv'
  BY <1>1, <1>2, LeavingKeeps
<1>5. /\ Holds(accepted', request.batch, request.first, request.done + 1)
      /\ Gathered(answers) \o SubSeq(request.batch, 1, request.done + 1) = Datas(accepted')
  BY <1>1, <1>2, <1>4, RequestGrows DEF FirstLog
<1>6. /\ Len(accepted) \in Nat /\ Len(accepted') = Len(accepted) + 1
      /\ \A i \in 1 .. Len(accepted) : accepted'[i] = accepted[i]
      /\ Datas(accepted') = Append(Datas(accepted), Message)
      /\ Datas(accepted) \in Seq(Messages)
  BY <1>1, <1>2, <1>4, LeavingAdds
<1>7. HoldsAnswers(accepted', answers)
  <2> DEFINE n == Len(accepted)
  <2>1. Len(accepted') \in Nat /\ n <= Len(accepted')
    <3>1. n \in Nat /\ Len(accepted') = n + 1
      BY <1>6
    <3> HIDE DEF n
    <3>2. QED BY <3>1
  <2>2. answers \in Seq(Answer) /\ HoldsAnswers(accepted, answers)
    BY DEF FirstLog, RequestTypes
  <2>3. QED BY <1>6, <2>1, <2>2, HoldsAnswersGrows
<1>8. Datas(accepted') \in Seq(Messages)
  BY <1>1, <1>6, AppendProperties
<1>9. request.done + 1 \in Nat /\ 0 \in Offset
  BY <1>1, OffsetsAre DEF Request
<1>10. Answered(request.done + 1, FALSE, 0) /\ Gathered(answers) \in Seq(Messages)
  BY DEF AppendUncleaned, FirstLog, HoldsWritten
<1>11. /\ HoldsAnswers(accepted', answers') /\ HoldsRequest(accepted', request')
       /\ HoldsWritten'
  BY <1>1, <1>5, <1>7, <1>8, <1>9, <1>10, AnswerHolds
<1>12. QED BY <1>2, <1>3, <1>11 DEF FirstLog

\* So does a message that is too long, and the end of the batch.
LEMMA EndFirst ==
  ASSUME MaxAppends < OffsetSpan, FirstLog, RequestTypes, RefuseNext \/ AnswerRequest
  PROVE  FirstLog'
<1>1. /\ up' /\ TopicInv' /\ UnlinkedOldest' /\ accepted' = accepted
  BY HandlerStays DEF RefuseNext, AnswerRequest
<1>2. request \in Request /\ request # NoRequest
  BY DEF RefuseNext, AnswerRequest, Unfinished, RequestTypes
<1> DEFINE b == request.batch
           first == request.first
           done == request.done
<1>3. /\ done \in Nat /\ first \in Nat /\ request.last \in Offset /\ 0 \in Offset
      /\ b \in Seq(Messages) /\ Len(b) \in Nat /\ request.last \in Nat
  <2>1. /\ done \in Nat /\ first \in Nat /\ request.last \in Offset /\ request.batch \in Batch
    BY <1>2 DEF Request
  <2>2. request.batch \in Seq(Messages)
    BY <2>1, BatchesAssumption
  <2>3. request.last \in Nat /\ 0 \in Offset
    BY <2>1, OffsetsAre
  <2>4. Len(request.batch) \in Nat
    BY <2>2
  <2>5. QED BY <2>1, <2>2, <2>3, <2>4
<1>4. /\ Holds(accepted, b, first, done) /\ (first - 1) + done = Len(accepted)
      /\ (done > 0 => request.last + 1 = Len(accepted)) /\ done <= Len(b)
  BY <1>2 DEF FirstLog, HoldsRequest, Holds
<1>5. PICK success \in BOOLEAN, last \in Offset :
        /\ Answered(done, success, last)
        /\ success => done = Len(b) /\ (done > 0 => last + 2 = first + done)
  <2>1. CASE RefuseNext
    <3>1. Answered(done, FALSE, 0)
      BY <2>1 DEF RefuseNext
    <3>2. QED BY <1>3, <3>1
  <2>2. CASE AnswerRequest
    <3>1. Answered(done, TRUE, request.last) /\ ~(done < Len(b))
      BY <2>2 DEF AnswerRequest, Unfinished
    <3> DEFINE n == Len(accepted)
               l == Len(b)
    <3>2. (first - 1) + done = n /\ (done > 0 => request.last + 1 = n) /\ done <= l /\ ~(done < l)
          /\ l \in Nat
      BY <1>3, <1>4, <3>1
    <3> HIDE DEF n, l, first, done, b
    <3>3. done = l /\ (done > 0 => request.last + 2 = first + done)
      BY <1>3, <3>2
    <3>4. QED BY <1>3, <3>1, <3>3 DEF l
  <2>3. QED BY <2>1, <2>2
<1>6. /\ HoldsAnswers(accepted', answers) /\ Gathered(answers) \in Seq(Messages)
      /\ Gathered(answers) \o SubSeq(b, 1, done) = Datas(accepted')
      /\ Datas(accepted') \in Seq(Messages)
  BY <1>1, <1>2, FirstFacts DEF FirstLog, HoldsWritten
<1>7. /\ HoldsAnswers(accepted', answers') /\ HoldsRequest(accepted', request')
      /\ HoldsWritten'
  BY <1>1, <1>2, <1>3, <1>4, <1>5, <1>6, AnswerHolds
<1>8. QED BY <1>1, <1>7 DEF FirstLog

\* Steps of nobody, or of a poll, leave what requests wrote.
LEMMA LogStays ==
  ASSUME FirstLog, TopicInv', UNCHANGED <<up, segments, accepted, unlinked, request, answers>>
  PROVE  FirstLog'
<1>1. Gathered(answers)' = Gathered(answers)
  OBVIOUS
<1>2. Written' = Written
  BY <1>1, WrittenNow, WrittenNext DEF WrittenAre
<1>3. QED BY <1>1, <1>2 DEF FirstLog, UnlinkedOldest, HoldsWritten

\* It holds when a broker starts on an empty directory.
LEMMA ServedStarts == BatchesInit => ServedInv
<1> SUFFICES ASSUME BatchesInit PROVE ServedInv
  OBVIOUS
<1>1. /\ TopicInit /\ request = NoRequest /\ unlinked = {} /\ answers = <<>>
      /\ up = TRUE /\ accepted = <<>>
  BY DEF BatchesInit, TopicInit, Init
<1>2. TopicInv /\ BatchesInv
  BY <1>1, TopicStarts, BatchesStarts
<1>3. Gathered(answers) = <<>> /\ <<>> \in Seq(Messages)
  BY <1>1, GatheredNone
<1>4. Written = <<>>
  <2>1. <<>> \o <<>> = <<>>
    OBVIOUS
  <2>2. QED BY <1>1, <1>3, <2>1, WrittenNow DEF WrittenAre
<1>5. Datas(accepted) = <<>>
  <2>1. Len(<<>>) = 0 /\ 1 .. 0 = {}
    OBVIOUS
  <2>2. QED BY <1>1, <2>1 DEF Datas
<1>6. HoldsAnswers(accepted, answers)
  <2>1. DOMAIN <<>> = {}
    OBVIOUS
  <2>2. QED BY <1>1, <2>1 DEF HoldsAnswers
<1>7. QED BY <1>1, <1>2, <1>3, <1>4, <1>5, <1>6
          DEF ServedInv, FirstLog, UnlinkedOldest, HoldsRequest, HoldsWritten

\* Every step keeps it.
LEMMA ServedStep ==
  ASSUME MaxAppends < OffsetSpan, ServedInv, [BatchesNext]_allVars
  PROVE  ServedInv'
<1>1. BatchesInv' /\ BatchesInv /\ RequestTypes /\ TypeOK
  BY BatchesStep DEF ServedInv, BatchesKept, BatchesInv
<1>2. SUFFICES ASSUME crashes' = 0 PROVE FirstLog'
  BY <1>1 DEF ServedInv
<1>3. crashes = 0 => FirstLog
  BY DEF ServedInv
<1>4. ASSUME NEW b \in Batch, TakeRequest(b)
      PROVE  FirstLog'
  <2>1. crashes' = crashes
    BY <1>4 DEF TakeRequest, logVars
  <2>2. QED BY <1>1, <1>2, <1>3, <1>4, <2>1, TakeFirst
<1>5. CASE AppendNext
  <2>1. crashes' = crashes
    BY <1>5 DEF AppendNext, AppendMessage, AppendInPlace, AppendAfterSplit, Store
  <2>2. QED BY <1>1, <1>2, <1>3, <1>5, <2>1, AppendedFirst
<1>6. CASE AppendUncleaned
  <2>1. crashes' = crashes
    BY <1>6 DEF AppendUncleaned, StoreUncleaned
  <2>2. QED BY <1>1, <1>2, <1>3, <1>6, <2>1, UncleanedFirst
<1>7. CASE RefuseNext \/ AnswerRequest
  <2>1. crashes' = crashes
    BY <1>7 DEF RefuseNext, AnswerRequest, logVars
  <2>2. QED BY <1>1, <1>2, <1>3, <1>7, <2>1, EndFirst
<1>8. ASSUME NEW g \in Group, NEW waits \in BOOLEAN, ConsumeBetween(g, waits)
      PROVE  FirstLog'
  <2>1. /\ Consume(g, waits) /\ UNCHANGED <<up, segments, disk, accepted, crashes>>
        /\ UNCHANGED <<request, unlinked, faults, taken, answers>>
    BY <1>8 DEF ConsumeBetween, Consume, batchVars
  <2>2. FirstLog
    BY <1>2, <1>3, <2>1
  <2>3. TopicInv'
    BY <2>1, <2>2, ConsumeKeeps DEF FirstLog
  <2>4. QED BY <2>1, <2>2, <2>3, LogStays
<1>9. ASSUME BatchStop \/ \E g \in Group : StopInPollBetween(g)
      PROVE  FirstLog'
  <2>1. crashes' = crashes + 1
    BY <1>9 DEF BatchStop, StopInPollBetween, StopInPoll, Stop
  <2>2. crashes \in Nat
    BY <1>1, CommitlogAssumption DEF TypeOK
  <2>3. QED BY <1>2, <2>1, <2>2
<1>10. CASE OpenAgain
  <2>1. ~up /\ crashes' = crashes
    BY <1>10 DEF OpenAgain, TopicOpen, Open
  <2>2. QED BY <1>2, <1>3, <2>1 DEF FirstLog
<1>11. CASE UNCHANGED allVars
  <2>1. /\ UNCHANGED <<logVars, groupVars, unlinked>>
        /\ UNCHANGED <<up, segments, accepted, unlinked, request, answers, crashes>>
    BY <1>11 DEF allVars, batchVars, logVars
  <2>2. FirstLog
    BY <1>2, <1>3, <2>1
  <2>3. TopicInv'
    BY <2>1, <2>2, HandlerStays
  <2>4. QED BY <2>1, <2>2, <2>3, LogStays
<1>12. QED
  BY <1>4, <1>5, <1>6, <1>7, <1>8, <1>9, <1>10, <1>11 DEF BatchesNext, HandleBatch

\* The invariant holds in every life; what it says is about the first.
LEMMA ServedInvariant ==
  ASSUME MaxAppends < OffsetSpan PROVE BatchesSpec => []ServedInv
<1>1. BatchesInit => ServedInv
  BY ServedStarts
<1>2. ServedInv /\ [BatchesNext]_allVars => ServedInv'
  BY ServedStep
<1>3. QED BY <1>1, <1>2, PTL DEF BatchesSpec

-----------------------------------------------------------------------------
(* What the clients are answered.                                           *)

\* A success that is still retained is served: it is among the messages of the log,
\* and reads return those.
LEMMA FirstServes == ASSUME MaxAppends < OffsetSpan, ServedInv PROVE AnsweredServed
<1>1. SUFFICES ASSUME crashes = 0,
                      NEW i \in DOMAIN answers, answers[i].success,
                      NEW k \in DOMAIN answers[i].batch,
                      answers[i].last - Len(answers[i].batch) + k >= OldestOffset
               PROVE  ReadOutcome(answers[i].last - Len(answers[i].batch) + k)
                        = Found(answers[i].batch[k])
  BY DEF AnsweredServed
<1> DEFINE a == answers[i]
           b == a.batch
           l == Len(b)
           o == a.last - l + k
<1>2. FirstLog /\ LogIntact /\ LogInv /\ BatchesInv
  BY <1>1, FirstFacts DEF ServedInv
<1>3. a \in Answer /\ HoldsAnswer(accepted, a) /\ a.success
  <2>1. answers \in Seq(Answer)
    BY <1>2 DEF FirstLog, ServedInv, BatchesInv, RequestTypes
  <2>2. HoldsAnswers(accepted, answers)
    BY <1>2 DEF FirstLog
  <2>3. QED BY <1>1, <2>1, <2>2 DEF HoldsAnswers
<1> HIDE DEF a
<1>4. b \in Seq(Messages) /\ a.first \in Nat /\ a.last \in Nat
  BY <1>3, BatchesAssumption, OffsetsAre DEF Answer
<1>5. /\ l \in Nat /\ k \in 1 .. l
      /\ a.first > 0 /\ (a.first - 1) + l <= Len(accepted)
      /\ \A j \in 1 .. l : accepted[(a.first - 1) + j].data = b[j]
      /\ l > 0 => a.last + 2 = a.first + l
  <2>1. l \in Nat /\ k \in 1 .. l
    BY <1>1, <1>4 DEF a
  <2>2. a.done = l
    BY <1>3 DEF HoldsAnswer
  <2>3. QED BY <1>3, <2>1, <2>2 DEF HoldsAnswer, Holds
<1>6. /\ OldestOffset \in Nat /\ End = Len(accepted) /\ End \in Nat
      /\ OldestOffset <= o
  BY <1>1, <1>2, Bounds DEF a
<1> DEFINE first == a.first
           last == a.last
           old == OldestOffset
           end == End
<1> HIDE DEF l, first, last, old, end
<1>7. o = (first + k) - 2 /\ o \in Nat /\ o < end /\ o + 1 = (first - 1) + k
  <2>1. /\ first \in Nat /\ last \in Nat /\ old \in Nat /\ end \in Nat
        /\ old <= last - l + k /\ (first - 1) + l <= end
    BY <1>4, <1>5, <1>6 DEF first, last, old, end
  <2>2. l \in Nat /\ k \in 1 .. l /\ last + 2 = first + l
    <3>1. l > 0
      BY <1>5
    <3>2. QED BY <1>5, <3>1 DEF first, last
  <2>3. last - l + k = (first + k) - 2
    BY <2>1, <2>2
  <2>4. o = last - l + k
    BY DEF last
  <2> HIDE DEF o
  <2>5. o = (first + k) - 2
    BY <2>3, <2>4
  <2>6. (first + k) - 2 >= 0
    BY <2>1, <2>2, <2>3
  <2>7. QED BY <2>1, <2>2, <2>5, <2>6
<1> HIDE DEF o
<1>8. ReadOutcome(o) = Found(accepted[o + 1].data)
  BY <1>2, <1>6, <1>7, ReadsIntact DEF o, last, old, end
<1>9. accepted[o + 1].data = b[k]
  BY <1>5, <1>7 DEF first
<1>10. ReadOutcome(o) = Found(b[k])
  BY <1>8, <1>9
<1>11. QED BY <1>10 DEF o, a, l, last

\* The last messages of a sequence are a suffix of it.
LEMMA SuffixIs ==
  ASSUME NEW S, NEW t \in Seq(S), NEW n \in Nat, n <= Len(t), NEW s \in Seq(S),
         Len(s) = Len(t) - n, \A i \in 1 .. Len(t) - n : s[i] = t[n + i]
  PROVE  IsSuffix(s, t)
<1> DEFINE l == Len(t)
           m == l - n
           x == Reverse(s)
           y == Reverse(t)
           p == SubSeq(x, 1, m)
           q == SubSeq(y, 1, m)
<1>1. /\ l \in Nat /\ m \in Nat /\ m <= l /\ n + m = l /\ Len(s) = m
      /\ \A i \in 1 .. m : s[i] = t[n + i]
  OBVIOUS
<1>2. x = [i \in 1 .. m |-> s[m - i + 1]] /\ y = [i \in 1 .. l |-> t[l - i + 1]]
  BY <1>1 DEF Reverse
<1>3. (\A j \in 1 .. m : s[j] \in S) /\ (\A j \in 1 .. l : t[j] \in S)
  BY <1>1
<1> HIDE DEF l, m
<1>4. /\ \A i \in 1 .. m : s[m - i + 1] \in S
      /\ \A i \in 1 .. l : t[l - i + 1] \in S
  <2>1. \A i \in 1 .. m : m - i + 1 \in 1 .. m
    BY <1>1
  <2>2. \A i \in 1 .. l : l - i + 1 \in 1 .. l
    BY <1>1
  <2>3. QED BY <1>3, <2>1, <2>2
<1> HIDE DEF x, y
<1>5. /\ x \in Seq(S) /\ Len(x) = m /\ \A i \in 1 .. m : x[i] = s[m - i + 1]
      /\ y \in Seq(S) /\ Len(y) = l /\ \A i \in 1 .. l : y[i] = t[l - i + 1]
  <2>1. x \in Seq(S)
    BY <1>1, <1>2, <1>4, IsASeq
  <2> y \in Seq(S)
    BY <1>1, <1>2, <1>4, IsASeq
  <2>2. QED BY <1>1, <1>2, <2>1
<1>6. /\ p \in Seq(S) /\ Len(p) = m /\ (\A i \in 1 .. m : p[i] = x[i])
      /\ q \in Seq(S) /\ Len(q) = m /\ (\A i \in 1 .. m : q[i] = y[i])
  BY <1>1, <1>5, FirstPart
<1> HIDE DEF p, q
<1>7. p = q
  <2>1. ASSUME NEW i \in 1 .. m PROVE p[i] = q[i]
    <3>1. m - i + 1 \in 1 .. m /\ n + (m - i + 1) = l - i + 1 /\ i \in 1 .. l
      BY <1>1
    <3>2. p[i] = s[m - i + 1] /\ q[i] = t[l - i + 1]
      BY <1>5, <1>6, <3>1
    <3>3. s[m - i + 1] = t[n + (m - i + 1)]
      BY <1>1, <3>1
    <3>4. QED BY <3>1, <3>2, <3>3
  <2>2. p = [i \in 1 .. m |-> p[i]] /\ q = [i \in 1 .. m |-> q[i]]
    BY <1>6
  <2>3. QED BY <2>1, <2>2
<1>8. Len(x) <= Len(y) /\ SubSeq(x, 1, Len(x)) = SubSeq(y, 1, Len(x))
  BY <1>1, <1>5, <1>7 DEF p, q
<1>9. QED BY <1>8 DEF IsSuffix, IsPrefix, x, y

\* What reads return is the newest part of what the requests wrote.
LEMMA FirstIsRequests == ASSUME MaxAppends < OffsetSpan, ServedInv PROVE LogIsRequests
<1> SUFFICES ASSUME crashes = 0
             PROVE  /\ IsSuffix(Kept, Written)
                    /\ \A i \in DOMAIN answers :
                         answers[i].success => answers[i].done = Len(answers[i].batch)
  BY DEF LogIsRequests
<1>1. FirstLog /\ LogIntact /\ LogInv
  BY FirstFacts DEF ServedInv
<1>2. \A i \in DOMAIN answers : answers[i].success => answers[i].done = Len(answers[i].batch)
  BY <1>1 DEF FirstLog, HoldsAnswers, HoldsAnswer
<1> DEFINE f == OldestOffset
           n == Len(accepted)
           t == Datas(accepted)
<1>3. /\ Kept = [i \in 1 .. End - f |-> accepted[f + i].data]
      /\ Kept \in Seq(Messages) /\ Len(Kept) = End - f
      /\ f \in Nat /\ End \in Nat /\ f <= End /\ End = n
  BY <1>1, KeptIs, Bounds DEF KeptAccepted
<1>4. Written = t /\ t \in Seq(Messages) /\ Len(t) = n /\ \A i \in 1 .. n : t[i] = accepted[i].data
  <2>1. Written = t /\ t \in Seq(Messages)
    BY <1>1, FirstFacts DEF FirstLog, HoldsWritten
  <2>2. n \in Nat /\ t = [i \in 1 .. n |-> accepted[i].data]
    BY <1>3 DEF Datas
  <2> HIDE DEF t, n
  <2>3. DOMAIN t = 1 .. n
    BY <2>2
  <2>4. Len(t) = n
    BY <2>1, <2>2, <2>3
  <2>5. QED BY <2>1, <2>2, <2>4
<1> HIDE DEF f, n, t
<1>5. ASSUME NEW i \in 1 .. Len(t) - f PROVE Kept[i] = t[f + i]
  <2>1. i \in 1 .. End - f /\ f + i \in 1 .. n
    BY <1>3, <1>4
  <2>2. QED BY <1>3, <1>4, <2>1
<1>6. IsSuffix(Kept, t)
  BY <1>3, <1>4, <1>5, SuffixIs
<1>7. QED BY <1>2, <1>4, <1>6

\* The offset answered for a batch names its last message, and its messages are read
\* at the offsets before it, whatever splits, cleanings and failures come along.
THEOREM BatchesServed ==
  ASSUME MaxAppends < OffsetSpan PROVE BatchesSpec => []AnsweredServed
<1>1. ServedInv => AnsweredServed
  BY FirstServes
<1>2. QED BY <1>1, ServedInvariant, PTL

\* The log reads as the newest part of what the requests wrote: of each the whole
\* batch when it was answered with success, and else the messages up to the one that
\* failed, each once and in the order of the answers.
THEOREM BatchesRequests ==
  ASSUME MaxAppends < OffsetSpan PROVE BatchesSpec => []LogIsRequests
<1>1. ServedInv => LogIsRequests
  BY FirstIsRequests
<1>2. QED BY <1>1, ServedInvariant, PTL

-----------------------------------------------------------------------------
(* What the first life leaves in the directory.                             *)

\* A part of an index.
Begins(x, entries) == Len(x) <= Len(entries) /\ \A k \in 1 .. Len(x) : x[k] = entries[k]

\* The directory has the pairs of the segments after the first n, and of no others;
\* only the index of the last can be incomplete.
Remains(files, segs, n) ==
  /\ \A o \in Pairs(files) : \E i \in n + 1 .. Len(segs) : segs[i].start = o
  /\ \A i \in n + 1 .. Len(segs) :
       /\ segs[i].start \in Pairs(files)
       /\ Begins(files[segs[i].start].index, segs[i].entries)
       /\ i < Len(segs) => files[segs[i].start].index = segs[i].entries

\* Segments whose entries describe the messages of the log.
Tracks(segs, end, log) ==
  /\ segs \in Seq(Segment) /\ end \in Nat /\ Chain(segs, end)
  /\ Len(log) \in Nat /\ end <= Len(log)
  /\ \A i \in DOMAIN segs : Tiled(segs[i].start, segs[i].entries, log)

\* What CrashLeavesChain says of a directory: its pairs describe messages of the log,
DescribesLog(files, log) ==
  \A s \in Pairs(files) : \A o \in s .. s + Len(files[s].index) - 1 :
    /\ o < Len(log)
    /\ files[s].index[o - s + 1].total = Len(log[o + 1].data)

\* and leave none out between them.
LeavesNoGap(files) ==
  \A s, t \in Pairs(files) : s < t =>
    \A o \in s .. t - 1 : \E p \in Pairs(files) : o \in p .. p + Len(files[p].index) - 1

\* The numbers of a tracked segment.
LEMMA TrackedIs ==
  ASSUME NEW segs, NEW end, NEW log, Tracks(segs, end, log), NEW i \in 1 .. Len(segs)
  PROVE  /\ i \in DOMAIN segs /\ segs[i] \in Segment /\ segs[i].start \in Nat /\ segs[i].next \in Nat
         /\ segs[i].start < segs[i].next /\ segs[i].next <= end /\ segs[i].entries \in Seq(Entry)
         /\ Len(segs[i].entries) = segs[i].next - segs[i].start /\ segs[i].start \in Offset
<1>1. segs \in Seq(Segment) /\ i \in DOMAIN segs
  BY DEF Tracks
<1>2. segs[i] \in Segment
  BY <1>1
<1>3. QED BY <1>1, <1>2, SegmentNats DEF Tracks, Chain, Segment

\* An index that holds a part of the entries describes a part of the messages.
LEMMA RemainsDescribes ==
  ASSUME NEW segs, NEW end, NEW log, Tracks(segs, end, log), NEW files \in [Offset -> Files],
         NEW n \in Nat, Remains(files, segs, n)
  PROVE  DescribesLog(files, log)
<1> SUFFICES ASSUME NEW s \in Pairs(files), NEW o \in s .. s + Len(files[s].index) - 1
             PROVE  o < Len(log) /\ files[s].index[o - s + 1].total = Len(log[o + 1].data)
  BY DEF DescribesLog
<1>1. PICK i \in n + 1 .. Len(segs) : segs[i].start = s
  BY DEF Remains
<1> DEFINE x == files[s].index
           e == segs[i].entries
           k == o - s + 1
           l == Len(log)
           next == segs[i].next
           a == Len(x)
           b == Len(e)
<1>2. /\ Begins(x, e) /\ s \in Offset
  BY <1>1 DEF Remains, Pairs
<1>3. i \in 1 .. Len(segs)
  <2>1. Len(segs) \in Nat
    BY DEF Tracks
  <2>2. QED BY <2>1
<1>4. /\ s \in Nat /\ next \in Nat /\ next <= end /\ b = next - s /\ end \in Nat /\ l \in Nat
      /\ end <= l /\ Tiled(s, e, log) /\ e \in Seq(Entry) /\ DOMAIN e = 1 .. b
  BY <1>1, <1>3, TrackedIs DEF Tracks
<1>5. a \in Nat /\ a <= b /\ \A j \in 1 .. a : x[j] = e[j]
  <2>1. x \in Seq(Entry)
    <3>1. files[s] \in Files /\ x # NoFile
      BY <1>2 DEF Pairs
    <3>2. QED BY <3>1 DEF Files
  <2>2. QED BY <1>2, <2>1 DEF Begins
<1> HIDE DEF x, e, l, next, a, b
<1>6. o \in s .. s + a - 1
  BY DEF a, x
<1>7. k \in 1 .. a /\ k \in 1 .. b /\ s + k = o + 1 /\ o < l
  <2>1. /\ s \in Nat /\ next \in Nat /\ end \in Nat /\ l \in Nat /\ a \in Nat
        /\ b = next - s /\ a <= b /\ next <= end /\ end <= l
    BY <1>4, <1>5
  <2>2. o \in Int /\ s <= o /\ o <= s + a - 1
    BY <1>6, <2>1
  <2>3. o < l /\ k \in Int /\ 1 <= k /\ k <= a /\ k <= b
    BY <2>1, <2>2
  <2>4. QED BY <2>1, <2>2, <2>3
<1> HIDE DEF k
<1>8. x[k].total = Len(log[s + k].data)
  BY <1>4, <1>5, <1>7 DEF Tiled
<1>9. QED BY <1>7, <1>8 DEF x, k, l

\* The segments between two that remain do so as well, and with all their entries.
LEMMA RemainsNoGap ==
  ASSUME NEW segs, NEW end, NEW log, Tracks(segs, end, log), NEW files \in [Offset -> Files],
         NEW n \in Nat, Remains(files, segs, n)
  PROVE  LeavesNoGap(files)
<1> SUFFICES ASSUME NEW s \in Pairs(files), NEW t \in Pairs(files), s < t, NEW o \in s .. t - 1
             PROVE  \E p \in Pairs(files) : o \in p .. p + Len(files[p].index) - 1
  BY DEF LeavesNoGap
<1> DEFINE l == Len(segs)
<1>1. PICK i \in n + 1 .. l : segs[i].start = s
  BY DEF Remains
<1>2. PICK j \in n + 1 .. l : segs[j].start = t
  BY DEF Remains
<1>3. /\ l \in Nat /\ segs \in Seq(Segment) /\ end \in Nat /\ Chain(segs, end)
      /\ DOMAIN segs = 1 .. l
  BY DEF Tracks
<1>4. i \in 1 .. l /\ j \in 1 .. l /\ 1 \in 1 .. l
  <2> HIDE DEF l
  <2>1. QED BY <1>3
<1>5. s \in Nat /\ t \in Nat /\ o \in Nat /\ s <= o /\ o < t /\ t < end
  <2>1. s \in Nat /\ t \in Nat /\ t < end
    BY <1>1, <1>2, <1>3, <1>4, ChainStarts, SegmentNats
  <2>2. QED BY <1>3, <2>1
<1>6. segs[1].start <= o
  <2>1. 1 < i => segs[1].start < segs[i].start
    BY <1>3, <1>4, ChainStarts
  <2>2. segs[1].start \in Nat /\ segs[i].start = s /\ (i = 1 \/ 1 < i)
    BY <1>1, <1>3, <1>4, TrackedIs
  <2>3. QED BY <1>5, <2>1, <2>2
<1>7. PICK k \in DOMAIN segs : segs[k].start <= o /\ o < segs[k].next
  <2>1. segs # <<>> /\ o < end
    BY <1>3, <1>4, <1>5, EmptySeq
  <2>2. QED BY <1>3, <1>5, <1>6, <2>1, SegmentOf
<1>8. /\ k \in 1 .. l /\ segs[k].start \in Nat /\ segs[k].next \in Nat
      /\ Len(segs[k].entries) = segs[k].next - segs[k].start
  BY <1>3, <1>7, TrackedIs
<1>9. ~(k < i)
  <2>1. k < i => segs[k].next <= segs[i].start
    BY <1>3, <1>4, <1>8 DEF Chain
  <2>2. QED BY <1>1, <1>5, <1>7, <1>8, <2>1
<1>10. k < j
  <2>1. j < k => segs[j].start < segs[k].start
    BY <1>3, <1>4, <1>8, ChainStarts
  <2>2. j # k
    BY <1>2, <1>5, <1>7, <1>8
  <2>3. ~(j < k)
    BY <1>2, <1>5, <1>7, <1>8, <2>1
  <2> HIDE DEF l
  <2>4. QED BY <1>4, <1>8, <2>2, <2>3
<1>11. k \in n + 1 .. l /\ k < l
  <2> HIDE DEF l
  <2>1. QED BY <1>3, <1>4, <1>8, <1>9, <1>10
<1> DEFINE p == segs[k].start
<1>12. p \in Pairs(files) /\ files[p].index = segs[k].entries
  BY <1>11 DEF Remains
<1>13. o \in p .. p + Len(files[p].index) - 1
  <2>1. Len(files[p].index) = segs[k].next - p
    BY <1>8, <1>12
  <2>2. p + (segs[k].next - p) - 1 = segs[k].next - 1 /\ o <= segs[k].next - 1
    BY <1>5, <1>7, <1>8
  <2>3. QED BY <1>5, <1>7, <1>8, <2>1, <2>2
<1>14. QED BY <1>12, <1>13

\* Segments with all their files remain.
LEMMA MirrorRemains ==
  ASSUME NEW segs \in Seq(Segment), NEW files, Mirror(segs, files)
  PROVE  Remains(files, segs, 0)
<1> DEFINE l == Len(segs)
<1>1. l \in Nat /\ DOMAIN segs = 1 .. l /\ 0 + 1 = 1
  OBVIOUS
<1>2. \A o \in Pairs(files) : \E i \in 1 .. l : segs[i].start = o
  BY <1>1 DEF Mirror
<1>3. ASSUME NEW i \in 1 .. l
      PROVE  /\ segs[i].start \in Pairs(files)
             /\ Begins(files[segs[i].start].index, segs[i].entries)
             /\ files[segs[i].start].index = segs[i].entries
  <2>1. segs[i] = LoadSegment(files, segs[i].start) /\ segs[i].start \in Pairs(files)
    BY <1>1 DEF Mirror
  <2>2. files[segs[i].start].index = segs[i].entries
    BY <2>1 DEF LoadSegment
  <2>3. segs[i].entries \in Seq(Entry)
    <3>1. segs[i] \in Segment
      BY <1>1
    <3>2. QED BY <3>1 DEF Segment
  <2>4. QED BY <2>1, <2>2, <2>3 DEF Begins
<1> HIDE DEF l
<1>4. QED BY <1>1, <1>2, <1>3 DEF Remains, l

\* So do the newer ones, when the pairs of the oldest are gone, and nothing else.
LEMMA RemainsFewer ==
  ASSUME NEW segs, NEW end, NEW log, Tracks(segs, end, log),
         NEW files, Remains(files, segs, 0), NEW n \in 0 .. Len(segs), NEW left,
         \A i \in 1 .. n : segs[i].start \notin Pairs(left),
         \A o \in Offset : (\A i \in 1 .. n : o # segs[i].start) => left[o] = files[o]
  PROVE  Remains(left, segs, n)
<1> DEFINE l == Len(segs)
<1>1. /\ l \in Nat /\ n \in 0 .. l /\ DOMAIN segs = 1 .. l /\ 0 + 1 = 1
      /\ segs \in Seq(Segment) /\ end \in Nat /\ Chain(segs, end)
  BY DEF Tracks
<1> HIDE DEF l
<1>2. ASSUME NEW o \in Pairs(left)
      PROVE  \E i \in n + 1 .. l : segs[i].start = o
  <2>1. o \in Offset /\ \A i \in 1 .. n : o # segs[i].start
    BY <1>2 DEF Pairs
  <2>2. o \in Pairs(files)
    BY <1>2, <2>1 DEF Pairs
  <2>3. PICK i \in 1 .. l : segs[i].start = o
    BY <1>1, <2>2 DEF Remains, l
  <2>4. i \notin 1 .. n
    BY <2>1, <2>3
  <2>5. i \in n + 1 .. l
    BY <1>1, <2>4
  <2>6. QED BY <2>3, <2>5
<1>3. ASSUME NEW i \in n + 1 .. l
      PROVE  /\ segs[i].start \in Pairs(left)
             /\ left[segs[i].start] = files[segs[i].start]
  <2>1. i \in 1 .. l /\ \A j \in 1 .. n : j \in 1 .. l /\ j < i
    BY <1>1
  <2>2. /\ segs[i].start \in Offset /\ segs[i].start \in Nat
        /\ \A j \in 1 .. n : segs[j].start < segs[i].start
    BY <1>1, <2>1, ChainStarts, TrackedIs DEF l
  <2>3. \A j \in 1 .. n : segs[j].start \in Nat
    BY <2>1, TrackedIs DEF l
  <2>4. \A j \in 1 .. n : segs[i].start # segs[j].start
    BY <2>2, <2>3
  <2>5. left[segs[i].start] = files[segs[i].start]
    BY <2>2, <2>4
  <2>6. segs[i].start \in Pairs(files)
    BY <1>1, <2>1 DEF Remains, l
  <2>7. QED BY <2>2, <2>5, <2>6 DEF Pairs
<1>4. ASSUME NEW i \in n + 1 .. l
      PROVE  /\ Begins(left[segs[i].start].index, segs[i].entries)
             /\ i < l => left[segs[i].start].index = segs[i].entries
  <2>1. i \in 1 .. l
    BY <1>1
  <2>2. QED BY <1>1, <1>3, <2>1 DEF Remains, l
<1>5. QED BY <1>2, <1>3, <1>4 DEF Remains, l

\* What is left can lose a log file without a name: it is that of the oldest segment,
\* and with it that segment is no pair any more.
Tells(segs, files) ==
  /\ files \in [Offset -> Files]
  /\ \E n \in 0 .. Len(segs) :
       /\ Remains(files, segs, n)
       /\ unlinked # {} => n = 0 /\ Len(segs) > 0 /\ unlinked = {segs[1].start}

\* The file without a name vanishes.
LEMMA VanishedRemains ==
  ASSUME NEW segs, NEW end, NEW log, Tracks(segs, end, log), NEW files, Tells(segs, files)
  PROVE  /\ Vanished(files) \in [Offset -> Files]
         /\ \E n \in Nat : Remains(Vanished(files), segs, n)
<1>1. files \in [Offset -> Files]
  BY DEF Tells
<1>2. PICK n \in 0 .. Len(segs) :
        /\ Remains(files, segs, n)
        /\ unlinked # {} => n = 0 /\ Len(segs) > 0 /\ unlinked = {segs[1].start}
  BY DEF Tells
<1>3. n \in Nat /\ Len(segs) \in Nat
  BY DEF Tracks
<1>4. Vanished(files) \in [Offset -> Files]
  <2>1. ASSUME NEW o \in Offset
        PROVE  [files[o] EXCEPT !.log = NoFile] \in Files
    <3>1. files[o] \in Files
      BY <1>1
    <3>2. QED BY <3>1 DEF Files
  <2>2. QED BY <1>1, <2>1 DEF Vanished
<1>5. CASE unlinked = {}
  <2>1. Vanished(files) = files
    BY <1>1, <1>5 DEF Vanished
  <2>2. QED BY <1>2, <1>3, <1>4, <2>1
<1>6. CASE unlinked # {}
  <2>1. n = 0 /\ Len(segs) > 0 /\ unlinked = {segs[1].start} /\ 1 \in 0 .. Len(segs)
    BY <1>2, <1>3, <1>6
  <2>2. \A i \in 1 .. 1 : i = 1
    OBVIOUS
  <2>3. segs[1].start \notin Pairs(Vanished(files))
    <3>1. ASSUME segs[1].start \in Offset
          PROVE  Vanished(files)[segs[1].start].log = NoFile
      <4>1. Vanished(files)[segs[1].start] = [files[segs[1].start] EXCEPT !.log = NoFile]
        BY <2>1, <3>1 DEF Vanished
      <4>2. files[segs[1].start] \in Files
        BY <1>1, <3>1
      <4>3. QED BY <4>1, <4>2 DEF Files
    <3>2. QED BY <3>1 DEF Pairs
  <2>4. ASSUME NEW o \in Offset, o # segs[1].start
        PROVE  Vanished(files)[o] = files[o]
    BY <2>1, <2>4 DEF Vanished
  <2>5. \A i \in 1 .. 1 : segs[i].start \notin Pairs(Vanished(files))
    BY <2>2, <2>3
  <2>6. \A o \in Offset : (\A i \in 1 .. 1 : o # segs[i].start) => Vanished(files)[o] = files[o]
    <3>1. 1 \in 1 .. 1
      OBVIOUS
    <3>2. QED BY <2>4, <3>1
  <2>7. Remains(files, segs, 0)
    BY <1>2, <2>1
  <2>8. Remains(Vanished(files), segs, 1)
    BY <2>1, <2>5, <2>6, <2>7, RemainsFewer
  <2>9. QED BY <1>4, <2>8
<1>7. QED BY <1>5, <1>6

\* A cleaning removes the oldest segments, one file after the other.
LEMMA CleaningTells ==
  ASSUME NEW segs, NEW end, NEW log, Tracks(segs, end, log), NEW files \in [Offset -> Files],
         Mirror(segs, files), unlinked # {} => Len(segs) > 0 /\ unlinked = {segs[1].start},
         NEW left \in Cleanings(segs, files)
  PROVE  Tells(segs, left)
<1>1. segs \in Seq(Segment) /\ Remains(files, segs, 0) /\ Len(segs) \in Nat /\ 0 \in 0 .. Len(segs)
  BY MirrorRemains DEF Tracks
<1>2. left \in [Offset -> Files]
  <2>1. Spares(files, files, 0)
    BY DEF Spares
  <2>2. QED BY <1>1, <2>1, SparesCleaning DEF Spares
<1>3. CASE unlinked # {}
  <2>1. left = files
    BY <1>3 DEF Cleanings
  <2>2. QED BY <1>1, <1>2, <2>1 DEF Tells
<1>4. CASE unlinked = {}
  <2> DEFINE done(n) == Delete(files, {segs[i].start : i \in 1 .. n})
             k == Excess(segs)
             l == Len(segs)
  <2>1. \/ \E n \in 0 .. k : left = done(n)
        \/ \E n \in 1 .. k : left = [done(n - 1) EXCEPT ![segs[n].start].log = NoFile]
    BY <1>4, Zenon DEF Cleanings, DeleteStages
  <2>2. k \in 0 .. l /\ l \in Nat
    BY <1>1, ExcessBounded
  <2>3. ASSUME NEW n \in 0 .. l
        PROVE  /\ done(n) \in [Offset -> Files]
               /\ \A i \in 1 .. n : segs[i].start \notin Pairs(done(n))
               /\ \A o \in Offset : (\A i \in 1 .. n : o # segs[i].start) => done(n)[o] = files[o]
    <3> DEFINE gone == {segs[i].start : i \in 1 .. n}
    <3>1. \A i \in 1 .. n : segs[i].start \in gone
      OBVIOUS
    <3>2. \A o : (\A i \in 1 .. n : o # segs[i].start) => o \notin gone
      OBVIOUS
    <3> HIDE DEF gone
    <3>3. /\ Delete(files, gone) \in [Offset -> Files]
          /\ \A o \in Offset : Delete(files, gone)[o] = IF o \in gone THEN Missing ELSE files[o]
          /\ Pairs(Delete(files, gone)) = Pairs(files) \ gone
      BY DeleteTypes
    <3>4. done(n) = Delete(files, gone)
      BY DEF gone
    <3> HIDE DEF done
    <3>5. QED BY <3>1, <3>2, <3>3, <3>4
  <2> HIDE DEF done, k, l
  <2>4. CASE \E n \in 0 .. k : left = done(n)
    <3>1. PICK n \in 0 .. k : left = done(n)
      BY <2>4
    <3>2. n \in 0 .. l
      BY <2>2
    <3>3. Remains(left, segs, n)
      BY <1>1, <2>3, <3>1, <3>2, RemainsFewer DEF l
    <3>4. QED BY <1>2, <1>4, <3>2, <3>3 DEF Tells, l
  <2>5. CASE \E n \in 1 .. k : left = [done(n - 1) EXCEPT ![segs[n].start].log = NoFile]
    <3>1. PICK n \in 1 .. k : left = [done(n - 1) EXCEPT ![segs[n].start].log = NoFile]
      BY <2>5
    <3>2. n \in 0 .. l /\ n - 1 \in 0 .. l /\ n \in 1 .. l /\ n \in 1 .. n
          /\ \A i \in 1 .. n : i = n \/ i \in 1 .. n - 1
      BY <2>2
    <3> DEFINE p == segs[n].start
               f == done(n - 1)
    <3>3. p \in Offset
      BY <3>2, TrackedIs DEF l
    <3>4. f \in [Offset -> Files] /\ left = [f EXCEPT ![p].log = NoFile]
      BY <2>3, <3>1, <3>2
    <3>5. /\ \A i \in 1 .. n - 1 : segs[i].start \notin Pairs(f)
          /\ \A o \in Offset : (\A i \in 1 .. n - 1 : o # segs[i].start) => f[o] = files[o]
      BY <2>3, <3>2
    <3> HIDE DEF f
    <3>6. left[p].log = NoFile /\ \A o \in Offset : o # p => left[o] = f[o]
      <4>1. f[p] \in Files
        BY <3>3, <3>4
      <4>2. QED BY <3>3, <3>4, <4>1 DEF Files
    <3>7. ASSUME NEW i \in 1 .. n PROVE segs[i].start \notin Pairs(left)
      <4>1. CASE segs[i].start = p
        BY <3>6, <4>1 DEF Pairs
      <4>2. CASE segs[i].start # p
        <5>1. i \in 1 .. n - 1
          BY <3>2, <4>2
        <5>2. segs[i].start \notin Pairs(f)
          BY <3>5, <5>1
        <5>3. QED BY <3>6, <4>2, <5>2 DEF Pairs
      <4>3. QED BY <4>1, <4>2
    <3>8. ASSUME NEW o \in Offset, \A i \in 1 .. n : o # segs[i].start
          PROVE  left[o] = files[o]
      <4>1. o # p /\ \A i \in 1 .. n - 1 : i \in 1 .. n
        BY <3>2, <3>8
      <4>2. QED BY <3>5, <3>6, <3>8, <4>1
    <3>9. Remains(left, segs, n)
      <4>1. n \in 0 .. Len(segs) /\ Remains(files, segs, 0)
        BY <1>1, <3>2 DEF l
      <4> HIDE DEF p
      <4>2. QED BY <3>7, <3>8, <4>1, RemainsFewer
    <3>10. QED BY <1>2, <1>4, <3>2, <3>9 DEF Tells, l
  <2>6. QED BY <2>1, <2>4, <2>5
<1>5. QED BY <1>3, <1>4

\* The segments of a log that runs, as they are
LEMMA LogTracks ==
  ASSUME LogInv
  PROVE  Tracks(segments, current.start, accepted) /\ Mirror(segments, disk)
<1>1. /\ TypeOK /\ Chain(segments, current.start) /\ Mirror(segments, disk)
      /\ current.start + current.next = Len(accepted)
  BY DEF LogInv, LifeInv, OffsetsConsecutive, End
<1>2. \A i \in DOMAIN segments : Tiled(segments[i].start, segments[i].entries, accepted)
  BY DEF LogInv, EntriesDescribeMessages, Tiles, Tiled
<1>3. segments \in Seq(Segment) /\ current \in VirtualSegment /\ Len(accepted) \in Nat
  BY <1>1 DEF TypeOK
<1>4. current.start \in Nat /\ current.next \in Nat
  BY <1>3, OffsetsAre DEF VirtualSegment
<1>5. current.start <= Len(accepted)
  <2> DEFINE l == Len(accepted)
             a == current.start
             b == current.next
  <2>1. a \in Nat /\ b \in Nat /\ l \in Nat /\ a + b = l
    BY <1>1, <1>3, <1>4
  <2> HIDE DEF a, b, l
  <2>2. a <= l
    BY <2>1
  <2>3. QED BY <2>2 DEF a, l
<1>6. QED BY <1>1, <1>2, <1>3, <1>4, <1>5 DEF Tracks

\* and with the one that a split adds.
LEMMA SplitTracks ==
  ASSUME MaxAppends < OffsetSpan, LogInv, NEW m \in Messages, Storable(m), ~Fits(current, m)
  PROVE  LET f == Flush(disk, current)
             t == Append(segments, LoadSegment(f, current.start))
         IN /\ f \in [Offset -> Files] /\ Mirror(t, f)
            /\ Tracks(t, Len(accepted), accepted)
            /\ Len(t) = Len(segments) + 1 /\ t[Len(segments) + 1].start = current.start
            /\ t[Len(segments) + 1].entries = current.entries
            /\ \A i \in 1 .. Len(segments) : t[i] = segments[i]
            /\ \A segs \in Reloaded(f) : segs = t
<1> DEFINE f == Flush(disk, current)
           s == LoadSegment(f, current.start)
           t == Append(segments, s)
           l == Len(segments)
<1>1. LifeInv /\ current.start + current.next = Len(accepted)
      /\ segments \in Seq(Segment) /\ Len(accepted) \in Nat
  BY DEF LogInv, LifeInv, TypeOK, OffsetsConsecutive, End
<1>2. /\ f \in [Offset -> Files] /\ t \in Seq(Segment)
      /\ Chain(t, current.start + current.next) /\ Mirror(t, f)
      /\ s \in Segment /\ s.start = current.start
      /\ s.entries = current.entries
      /\ \A segs \in Reloaded(f) : segs = t
  BY <1>1, SplitMakes
<1>3. /\ Tiled(current.start, current.entries, accepted)
      /\ \A i \in DOMAIN segments : Tiled(segments[i].start, segments[i].entries, accepted)
  BY DEF LogInv, EntriesDescribeMessages, Tiles, Tiled
<1> HIDE DEF f, s
<1>4. /\ Len(t) = l + 1 /\ t[l + 1] = s /\ l \in Nat
      /\ (\A i \in 1 .. l : t[i] = segments[i])
      /\ DOMAIN t = 1 .. l + 1 /\ DOMAIN segments = 1 .. l
  BY <1>1, <1>2, AppendProperties
<1> HIDE DEF t, l
<1>5. \A i \in DOMAIN t : Tiled(t[i].start, t[i].entries, accepted)
  <2>1. \A i \in 1 .. l + 1 : i = l + 1 \/ i \in 1 .. l
    BY <1>4
  <2>2. QED BY <1>2, <1>3, <1>4, <2>1
<1>6. Tracks(t, Len(accepted), accepted)
  <2>1. Len(accepted) <= Len(accepted)
    BY <1>1
  <2>2. QED BY <1>1, <1>2, <1>5, <2>1 DEF Tracks
<1>7. QED BY <1>2, <1>4, <1>6 DEF f, s, t, l

\* A flush makes its files where there are none,
LEMMA FlushIsNew ==
  ASSUME LogInv
  PROVE  /\ disk \in [Offset -> Files] /\ current.start \in Offset /\ disk[current.start] = Missing
         /\ \A i \in DOMAIN segments : segments[i].start # current.start
         /\ current.start \notin Pairs(disk)
         /\ current.contents \in Seq(Byte) /\ current.entries \in Seq(Entry)
<1>1. /\ TypeOK /\ Chain(segments, current.start) /\ Mirror(segments, disk)
      /\ segments \in Seq(Segment) /\ current \in VirtualSegment /\ disk \in [Offset -> Files]
  BY DEF LogInv, LifeInv, TypeOK
<1>2. /\ current.start \in Offset /\ current.start \in Nat
      /\ current.contents \in Seq(Byte) /\ current.entries \in Seq(Entry)
  BY <1>1, OffsetsAre DEF VirtualSegment
<1>3. ASSUME NEW i \in DOMAIN segments PROVE segments[i].start # current.start
  <2>1. segments[i].start < current.start /\ segments[i].start \in Nat
    BY <1>1, <1>2, ChainStarts, OffsetsAre
  <2>2. QED BY <1>2, <2>1
<1>4. current.start \notin Pairs(disk)
  BY <1>1, <1>3 DEF Mirror
<1>5. disk[current.start] = Missing
  BY <1>1, <1>2, <1>4 DEF Mirror, Orphans
<1>6. QED BY <1>1, <1>2, <1>3, <1>4, <1>5

\* first a log file on its own, which is no pair,
LEMMA LogFileTells ==
  ASSUME LogInv, UnlinkedOldest, NEW a \in Seq(Byte), NEW left,
         left = [disk EXCEPT ![current.start] = [log |-> a, index |-> NoFile]]
  PROVE  Tells(segments, left)
<1> DEFINE p == current.start
<1>1. /\ disk \in [Offset -> Files] /\ p \in Offset /\ p \notin Pairs(disk)
      /\ Tracks(segments, p, accepted) /\ Mirror(segments, disk)
  BY FlushIsNew, LogTracks
<1>2. segments \in Seq(Segment) /\ Len(segments) \in Nat
  BY <1>1 DEF Tracks
<1> DEFINE x == [log |-> a, index |-> NoFile]
<1>3. x \in Files /\ x.index = NoFile
  BY DEF Files
<1> HIDE DEF p, x
<1>4. /\ left \in [Offset -> Files] /\ left[p] = x
      /\ \A o \in Offset : o # p => left[o] = disk[o]
  BY <1>1, <1>3 DEF p, x
<1>5. Pairs(left) = Pairs(disk)
  BY <1>1, <1>3, <1>4 DEF Pairs
<1>6. \A o \in Pairs(disk) : left[o] = disk[o]
  BY <1>1, <1>4 DEF Pairs
<1>7. Remains(disk, segments, 0)
  BY <1>1, <1>2, MirrorRemains
<1>8. Remains(left, segments, 0)
  BY <1>5, <1>6, <1>7 DEF Remains
<1>9. QED BY <1>2, <1>4, <1>8 DEF Tells, UnlinkedOldest

\* then a pair whose index has a part of the entries.
LEMMA PairTells ==
  ASSUME MaxAppends < OffsetSpan, LogInv, UnlinkedOldest, NEW m \in Messages, Storable(m),
         ~Fits(current, m), NEW a \in Seq(Byte), NEW n \in 0 .. Len(current.entries), NEW left,
         left = [disk EXCEPT ![current.start] =
                   [log |-> a, index |-> SubSeq(current.entries, 1, n)]]
  PROVE  \E segs : Tracks(segs, Len(accepted), accepted) /\ Tells(segs, left)
<1> DEFINE p == current.start
           e == current.entries
           y == SubSeq(e, 1, n)
           f == Flush(disk, current)
           t == Append(segments, LoadSegment(f, p))
           l == Len(segments)
           x == [log |-> a, index |-> y]
<1>1. /\ disk \in [Offset -> Files] /\ p \in Offset /\ p \notin Pairs(disk)
      /\ Tracks(segments, p, accepted) /\ Mirror(segments, disk)
      /\ \A i \in DOMAIN segments : segments[i].start # p
      /\ e \in Seq(Entry)
  BY FlushIsNew, LogTracks
<1>2. l \in Nat /\ DOMAIN segments = 1 .. l
  BY <1>1 DEF Tracks
<1>3. /\ Tracks(t, Len(accepted), accepted)
      /\ Len(t) = l + 1 /\ t[l + 1].start = p
      /\ t[l + 1].entries = e
      /\ \A i \in 1 .. l : t[i] = segments[i]
  BY SplitTracks
<1>4. Begins(y, e) /\ y \in Seq(Entry)
  BY <1>1 DEF Begins
<1> HIDE DEF p, e, y
<1>5. x \in Files /\ x.index = y /\ x.log # NoFile /\ x.index # NoFile
  BY <1>4, NoFileIs DEF Files
<1> HIDE DEF f, t, l, x
<1>6. /\ left \in [Offset -> Files] /\ left[p] = x
      /\ \A o \in Offset : o # p => left[o] = disk[o]
  BY <1>1, <1>5 DEF p, x, y, e
<1>7. Pairs(left) = Pairs(disk) \cup {p}
  BY <1>1, <1>5, <1>6 DEF Pairs
<1>8. \A i \in 1 .. l + 1 : i = l + 1 \/ i \in 1 .. l
  BY <1>2
<1>9. ASSUME NEW o \in Pairs(left)
      PROVE  \E i \in 1 .. l + 1 : t[i].start = o
  <2>1. CASE o = p
    <3>1. l + 1 \in 1 .. l + 1
      BY <1>2
    <3>2. QED BY <1>3, <2>1, <3>1
  <2>2. CASE o # p
    <3>1. PICK i \in 1 .. l : segments[i].start = o
      BY <1>1, <1>2, <1>7, <2>2 DEF Mirror
    <3>2. i \in 1 .. l + 1
      BY <1>2
    <3>3. QED BY <1>3, <3>1, <3>2
  <2>3. QED BY <2>1, <2>2
<1>10. ASSUME NEW i \in 1 .. l + 1
       PROVE  /\ t[i].start \in Pairs(left)
              /\ Begins(left[t[i].start].index, t[i].entries)
              /\ i < l + 1 => left[t[i].start].index = t[i].entries
  <2>1. CASE i = l + 1
    <3>1. ~(i < l + 1)
      BY <1>2, <2>1
    <3>2. QED BY <1>3, <1>4, <1>5, <1>6, <1>7, <2>1, <3>1
  <2>2. CASE i \in 1 .. l
    <3>1. t[i] = segments[i] /\ segments[i].start # p
      BY <1>1, <1>2, <1>3, <2>2
    <3>2. segments[i] = LoadSegment(disk, segments[i].start) /\ segments[i].start \in Pairs(disk)
      BY <1>1, <1>2, <2>2 DEF Mirror
    <3>3. left[segments[i].start] = disk[segments[i].start]
      BY <1>6, <3>1, <3>2 DEF Pairs
    <3>4. left[t[i].start].index = t[i].entries
      <4>1. segments[i].entries = disk[segments[i].start].index
        BY <3>2 DEF LoadSegment
      <4>2. QED BY <3>1, <3>3, <4>1, Zenon
    <3>5. t[i].entries \in Seq(Entry)
      <4>1. i \in 1 .. Len(t)
        BY <1>2, <1>3, <2>2
      <4>2. QED BY <1>3, <4>1, TrackedIs
    <3>6. t[i].start \in Pairs(left)
      BY <1>7, <3>1, <3>2, Zenon
    <3>7. Begins(t[i].entries, t[i].entries)
      BY <3>5 DEF Begins
    <3>8. QED BY <3>4, <3>6, <3>7, Zenon
  <2>3. QED BY <1>8, <2>1, <2>2
<1>11. Remains(left, t, 0)
  <2>1. 0 + 1 = 1
    OBVIOUS
  <2>2. QED BY <1>3, <1>9, <1>10, <2>1 DEF Remains
<1>12. ASSUME unlinked # {}
       PROVE  Len(t) > 0 /\ unlinked = {t[1].start}
  <2>1. l > 1 /\ unlinked = {segments[1].start}
    BY <1>12 DEF UnlinkedOldest, l
  <2>2. 1 \in 1 .. l /\ l + 1 > 0
    BY <1>2, <2>1
  <2>3. QED BY <1>3, <2>1, <2>2
<1>13. 0 \in 0 .. Len(t)
  BY <1>2, <1>3
<1>14. Tells(t, left)
  BY <1>6, <1>11, <1>12, <1>13 DEF Tells
<1>15. QED BY <1>3, <1>14

\* So wherever a flush is cut off.
LEMMA FlushTells ==
  ASSUME MaxAppends < OffsetSpan, LogInv, UnlinkedOldest, NEW m \in Messages, Storable(m),
         ~Fits(current, m), NEW left \in FlushStages(disk, current)
  PROVE  \E segs, end : Tracks(segs, end, accepted) /\ Tells(segs, left)
<1> DEFINE p == current.start
           c == current.contents
           e == current.entries
           old == disk[p]
           log(n) == Overlay(old.log, SubSeq(c, 1, n))
           index(n) == Overlay(old.index, SubSeq(e, 1, n))
           stage(x) == [disk EXCEPT ![p] = x]
<1>1. old.log = NoFile /\ old.index = NoFile /\ c \in Seq(Byte) /\ e \in Seq(Entry)
  BY FlushIsNew DEF Missing
<1>2. \/ left = stage([log |-> log(0), index |-> old.index])
      \/ \E n \in 0 .. Len(e) : left = stage([log |-> log(0), index |-> index(n)])
      \/ \E n \in 0 .. Len(c) :
           left = stage([log |-> log(n), index |-> index(Len(e))])
  BY Zenon DEF FlushStages
<1>3. /\ \A n \in 0 .. Len(c) : log(n) \in Seq(Byte)
      /\ 0 \in 0 .. Len(c) /\ Len(e) \in 0 .. Len(e)
  <2>1. \A n \in 0 .. Len(c) : SubSeq(c, 1, n) \in Seq(Byte)
    BY <1>1, FirstPart
  <2>2. Len(c) \in Nat /\ Len(e) \in Nat
    BY <1>1
  <2>3. QED BY <1>1, <2>1, <2>2 DEF Overlay
<1>4. \A n : index(n) = SubSeq(e, 1, n)
  BY <1>1 DEF Overlay
<1>5. CASE left = stage([log |-> log(0), index |-> old.index])
  <2>1. log(0) \in Seq(Byte)
    BY <1>3
  <2>2. left = [disk EXCEPT ![current.start] = [log |-> log(0), index |-> NoFile]]
    BY <1>1, <1>5
  <2> HIDE DEF log
  <2>3. Tells(segments, left)
    BY <2>1, <2>2, LogFileTells
  <2>4. QED BY <2>3, LogTracks
<1>6. ASSUME NEW a \in Seq(Byte), NEW n \in 0 .. Len(e), left = stage([log |-> a, index |-> index(n)])
      PROVE  \E segs, end : Tracks(segs, end, accepted) /\ Tells(segs, left)
  <2>1. index(n) = SubSeq(e, 1, n)
    BY <1>4
  <2> HIDE DEF index
  <2>2. left = [disk EXCEPT ![current.start] = [log |-> a, index |-> SubSeq(current.entries, 1, n)]]
    BY <1>6, <2>1
  <2>3. QED BY <2>2, PairTells
<1> HIDE DEF log, index, stage
<1>7. QED BY <1>2, <1>3, <1>5, <1>6

\* Wherever the first life stops, the directory is that of tracked segments.
LEMMA StageTells ==
  ASSUME MaxAppends < OffsetSpan, BatchesInv, FirstLog, NEW left \in {disk} \cup Stages
  PROVE  \E segs, end : Tracks(segs, end, accepted) /\ Tells(segs, left)
<1>1. /\ LogInv /\ UnlinkedOldest /\ disk \in [Offset -> Files] /\ RequestTypes
  BY FirstFacts DEF FirstLog, BatchesInv, TypeOK
<1>2. /\ Tracks(segments, current.start, accepted) /\ Mirror(segments, disk)
      /\ segments \in Seq(Segment) /\ Len(segments) \in Nat
      /\ unlinked # {} => Len(segments) > 0 /\ unlinked = {segments[1].start}
  BY <1>1, LogTracks DEF Tracks, UnlinkedOldest
<1>3. Tells(segments, disk)
  <2>1. Remains(disk, segments, 0) /\ 0 \in 0 .. Len(segments)
    BY <1>2, MirrorRemains
  <2>2. QED BY <1>1, <1>2, <2>1 DEF Tells
<1>4. CASE left = disk
  BY <1>2, <1>3, <1>4
<1>5. CASE left \in Stages
  <2>1. CASE ~Unfinished \/ ~Storable(Message)
    BY <1>2, <1>3, <1>5, <2>1 DEF Stages
  <2>2. CASE ~(~Unfinished \/ ~Storable(Message)) /\ Fits(current, Message)
    <3>1. left \in Cleanings(segments, disk)
      BY <1>5, <2>2 DEF Stages
    <3>2. Tells(segments, left)
      BY <1>1, <1>2, <3>1, CleaningTells
    <3>3. QED BY <1>2, <3>2
  <2>3. CASE ~(~Unfinished \/ ~Storable(Message)) /\ ~Fits(current, Message)
    <3> DEFINE f == Flush(disk, current)
               t == Append(segments, LoadSegment(f, current.start))
    <3>1. \/ left \in FlushStages(disk, current)
          \/ \E segs \in Reloaded(f) : left \in Cleanings(segs, f)
      BY <1>5, <2>3 DEF Stages
    <3>2. Message \in Messages
      BY <1>1, <2>3, MessageIs
    <3>3. /\ f \in [Offset -> Files] /\ Mirror(t, f)
          /\ Tracks(t, Len(accepted), accepted)
          /\ Len(t) = Len(segments) + 1
          /\ \A i \in 1 .. Len(segments) : t[i] = segments[i]
          /\ \A segs \in Reloaded(f) : segs = t
      BY <1>1, <2>3, <3>2, SplitTracks
    <3>4. CASE left \in FlushStages(disk, current)
      BY <1>1, <2>3, <3>2, <3>4, FlushTells
    <3> HIDE DEF f, t
    <3>5. CASE left \in Cleanings(t, f)
      <4>1. ASSUME unlinked # {} PROVE Len(t) > 0 /\ unlinked = {t[1].start}
        <5> DEFINE l == Len(segments)
        <5>1. l \in Nat /\ l > 0 /\ unlinked = {segments[1].start}
          BY <1>2, <4>1
        <5> HIDE DEF l
        <5>2. 1 \in 1 .. l /\ l + 1 > 0
          BY <5>1
        <5>3. QED BY <3>3, <5>1, <5>2 DEF l
      <4>2. Tells(t, left)
        BY <3>3, <3>5, <4>1, CleaningTells
      <4>3. QED BY <3>3, <4>2
    <3>6. QED BY <3>1, <3>3, <3>4, <3>5
  <2>4. QED BY <2>1, <2>2, <2>3
<1>6. QED BY <1>4, <1>5

\* The directory that a stop of the first life leaves,
LEMMA StopTells ==
  ASSUME MaxAppends < OffsetSpan, BatchesInv, FirstLog, NEW left \in {disk} \cup Stages
  PROVE  DescribesLog(Vanished(left), accepted) /\ LeavesNoGap(Vanished(left))
<1>1. PICK segs, end : Tracks(segs, end, accepted) /\ Tells(segs, left)
  BY StageTells
<1>2. /\ Vanished(left) \in [Offset -> Files]
      /\ \E n \in Nat : Remains(Vanished(left), segs, n)
  BY <1>1, VanishedRemains
<1>3. QED BY <1>1, <1>2, RemainsDescribes, RemainsNoGap

\* and the one that it has as long as it runs.
LEMMA RunTells ==
  ASSUME FirstLog
  PROVE  DescribesLog(disk, accepted) /\ LeavesNoGap(disk)
<1>1. LogInv /\ disk \in [Offset -> Files]
  BY FirstFacts DEF TypeOK
<1>2. Tracks(segments, current.start, accepted) /\ Mirror(segments, disk)
  BY <1>1, LogTracks
<1>3. Remains(disk, segments, 0)
  BY <1>2, MirrorRemains DEF Tracks
<1>4. QED BY <1>1, <1>2, <1>3, RemainsDescribes, RemainsNoGap

\* The invariant of what the first stop leaves to the second life.
ChainInv == ServedInv /\ CrashLeavesChain

\* As long as the first life runs, its own invariant says it,
LEMMA RunsChain == ASSUME FirstLog PROVE CrashLeavesChain
  BY RunTells DEF CrashLeavesChain, Covered, DescribesLog, LeavesNoGap

\* also of the next state.
LEMMA RunsChainNext == FirstLog' => CrashLeavesChain'
<1>1. FirstLog => CrashLeavesChain
  BY RunsChain
<1>2. QED BY <1>1, PTL

\* Then it stops somewhere in what it was doing.
LEMMA StopChain ==
  ASSUME MaxAppends < OffsetSpan, ServedInv, crashes' = 1, NEW left \in {disk} \cup Stages,
         Stop(Vanished(left))
  PROVE  CrashLeavesChain'
<1>1. crashes = 0
  <2>1. crashes \in Nat /\ crashes' = crashes + 1
    BY CommitlogAssumption DEF ServedInv, BatchesInv, TypeOK, Stop
  <2>2. QED BY <2>1
<1>2. DescribesLog(Vanished(left), accepted) /\ LeavesNoGap(Vanished(left))
  BY <1>1, StopTells DEF ServedInv
<1>3. DescribesLog(disk', accepted') /\ LeavesNoGap(disk')
  BY <1>2 DEF Stop
<1>4. QED BY <1>3 DEF CrashLeavesChain, Covered, DescribesLog, LeavesNoGap

\* Nothing of it moves, and it is not looked at, otherwise.
LEMMA ChainStays ==
  ASSUME CrashLeavesChain, UNCHANGED <<up, disk, accepted, crashes>>
  PROVE  CrashLeavesChain'
  BY DEF CrashLeavesChain, Covered

\* Every step keeps it.
LEMMA ChainStep ==
  ASSUME MaxAppends < OffsetSpan, ChainInv, [BatchesNext]_allVars
  PROVE  ChainInv'
<1>1. ServedInv /\ CrashLeavesChain /\ ServedInv'
  BY ServedStep DEF ChainInv
<1>2. crashes' \in Nat /\ up' \in BOOLEAN
  BY <1>1, CommitlogAssumption DEF ServedInv, BatchesInv, TypeOK
<1>3. crashes' = 0 => CrashLeavesChain'
  BY <1>1, RunsChainNext DEF ServedInv
<1>4. up' /\ crashes' # 0 => CrashLeavesChain'
  <2>1. SUFFICES ASSUME up', crashes' # 0 PROVE ~(crashes' + (IF up' THEN 1 ELSE 0) <= 1)
    BY DEF CrashLeavesChain
  <2>2. (IF up' THEN 1 ELSE 0) = 1
    BY <2>1
  <2>3. ~(crashes' + 1 <= 1)
    <3>1. \A c \in Nat : c # 0 => ~(c + 1 <= 1)
      OBVIOUS
    <3>2. crashes' \in Nat
      BY <1>2
    <3>3. QED BY <2>1, <3>1, <3>2, Zenon
  <2>4. QED BY <2>2, <2>3
<1>5. SUFFICES ASSUME ~up', crashes' # 0 PROVE CrashLeavesChain'
  BY <1>1, <1>3, <1>4 DEF ChainInv
<1>6. crashes' # 1 => CrashLeavesChain'
  <2>1. SUFFICES ASSUME crashes' # 1 PROVE ~(crashes' + (IF up' THEN 1 ELSE 0) <= 1)
    BY DEF CrashLeavesChain
  <2>2. (IF up' THEN 1 ELSE 0) = 0
    BY <1>5
  <2>3. ~(crashes' + 0 <= 1)
    <3>1. \A c \in Nat : c # 0 /\ c # 1 => ~(c + 0 <= 1)
      OBVIOUS
    <3>2. crashes' \in Nat
      BY <1>2
    <3>3. QED BY <1>5, <2>1, <3>1, <3>2, Zenon
  <2>4. QED BY <2>2, <2>3
<1>7. SUFFICES ASSUME crashes' = 1 PROVE CrashLeavesChain'
  BY <1>6
<1>8. ASSUME NEW b \in Batch, TakeRequest(b)
      PROVE  CrashLeavesChain'
  BY <1>1, <1>8, ChainStays DEF TakeRequest, logVars
<1>9. CASE AppendNext \/ AppendUncleaned
  <2>1. up' = up /\ up
    BY <1>9 DEF AppendNext, AppendUncleaned, AppendMessage, AppendInPlace, AppendAfterSplit,
                Store, StoreUncleaned, Storable
  <2>2. QED BY <1>5, <2>1
<1>10. CASE RefuseNext \/ AnswerRequest
  BY <1>1, <1>10, ChainStays DEF RefuseNext, AnswerRequest, logVars
<1>11. ASSUME NEW g \in Group, NEW waits \in BOOLEAN, ConsumeBetween(g, waits)
       PROVE  CrashLeavesChain'
  BY <1>1, <1>11, ChainStays DEF ConsumeBetween, Consume
<1>12. CASE BatchStop
  <2>1. PICK left \in {disk} \cup Stages : Stop(Vanished(left))
    BY <1>12 DEF BatchStop
  <2>2. QED BY <1>1, <1>7, <2>1, StopChain
<1>13. ASSUME NEW g \in Group, StopInPollBetween(g)
       PROVE  CrashLeavesChain'
  <2>1. Stop(Vanished(disk)) /\ disk \in {disk} \cup Stages
    BY <1>13 DEF StopInPollBetween, StopInPoll
  <2>2. QED BY <1>1, <1>7, <2>1, StopChain
<1>14. CASE OpenAgain
  BY <1>5, <1>14 DEF OpenAgain, TopicOpen, Open
<1>15. CASE UNCHANGED allVars
  BY <1>1, <1>15, ChainStays DEF allVars, logVars
<1>16. QED
  BY <1>8, <1>9, <1>10, <1>11, <1>12, <1>13, <1>14, <1>15 DEF BatchesNext, HandleBatch

\* Wherever the first life is cut off, in the middle of a flush or of a cleaning, before
\* or after a cleaning that failed, the pairs in the directory describe messages of the
\* log and leave none out between them.
THEOREM BatchesChain ==
  ASSUME MaxAppends < OffsetSpan PROVE BatchesSpec => []CrashLeavesChain
<1>1. BatchesInit => ChainInv
  <2>1. BatchesInit => ServedInv /\ crashes = 0
    BY ServedStarts DEF BatchesInit, TopicInit, Init
  <2>2. QED BY <2>1, RunsChain DEF ServedInv, ChainInv
<1>2. ChainInv /\ [BatchesNext]_allVars => ChainInv'
  BY ChainStep
<1>3. ChainInv => CrashLeavesChain
  BY DEF ChainInv
<1>4. QED BY <1>1, <1>2, <1>3, PTL DEF BatchesSpec

=============================================================================
