---------------------------- MODULE BrokerProofs ----------------------------
(***************************************************************************)
(* Proofs about module Broker: every invariant that the runs check on it,  *)
(* for all names, groups and bounds.  They follow from one inductive       *)
(* invariant, RegistryInv, which says of the list in memory and of the     *)
(* list in lucidmq.meta the same thing (Sound), and what each of them      *)
(* still owes to the answers that were sent.                               *)
(***************************************************************************)
EXTENDS Broker, SequenceTheorems, FiniteSetTheorems, WellFoundedInduction, TLAPS

\* The names in a list of topics.
Names(ts) == {ts[i].name : i \in DOMAIN ts}

\* Which name is served from which directory.
Homes(ts) == {<<ts[i].name, ts[i].dir>> : i \in DOMAIN ts}

\* A list of topics as the broker may hold or have saved it: names and
\* directories are not shared, the directories are among the m that were made,
\* and the offsets are not behind r, what the answers reached.
Sound(ts, m, r) ==
  /\ ts \in Seq(TopicEntry)
  /\ \A i, j \in DOMAIN ts :
       i # j => ts[i].name # ts[j].name /\ ts[i].dir # ts[j].dir
  /\ Directories(ts) \subseteq 1 .. m
  /\ \A i \in DOMAIN ts : \A g \in Group :
       r[ts[i].dir][g] > 0 =>
         g \in DOMAIN ts[i].groups /\ r[ts[i].dir][g] <= ts[i].groups[g]

\* No answer was sent about a directory that was not made yet.
Unreached == \A d \in Dir, g \in Group : d > made => reached[d][g] = 0

\* What was answered to a create or a delete of n holds in the file, and in
\* memory while the broker runs, unless a start could not read the file.  The
\* directory of a topic is never that of another name.
AnswerHolds(n) ==
  /\ created[n] \in 0 .. made
  /\ \A h \in Homes(Listed) \cup Homes(topics) : h[2] = created[n] => h[1] = n
  /\ created[n] \notin {0} \cup unseen =>
       <<n, created[n]>> \in Homes(Listed) /\ (up => <<n, created[n]>> \in Homes(topics))
  /\ n \in deleted => n \notin Names(Listed) \cup Names(topics)

AnswersHold == \A n \in Name : AnswerHolds(n)

\* The directories that a crash at this moment would not orphan: those that
\* both lists name, of a stopped broker those that the file names, and those
\* that a start could not read.
Kept == unseen \cup IF up THEN Directories(topics) \cap Directories(Listed)
                           ELSE Directories(Listed)

\* Both lists are sound, and a broker that stopped has no memory.
ListsSound ==
  /\ Sound(topics, made, reached)
  /\ Sound(Listed, made, reached)
  /\ Unreached
  /\ ~up => topics = <<>>

\* Directories are among those made, and a topic in memory has its own.
DirectoriesNumbered ==
  /\ dirs \subseteq 1 .. made
  /\ TopicsHaveDirectories

\* Every directory that a crash would orphan was left by a fault or a crash.
OrphansCounted == Cardinality(dirs \ Kept) <= faults + crashes

\* AckedServed, ReachedSaved and LeaksBounded are not inductive: a restart takes
\* the file for the memory, so each has to hold of both, and an orphan has to be
\* counted when one of the two lists forgets it, not when both have.
RegistryInv ==
  /\ BrokerTypeOK
  /\ ListsSound
  /\ DirectoriesNumbered
  /\ AnswersHold
  /\ AckedReadable
  /\ OrphansCounted

-----------------------------------------------------------------------------
\* A set of naturals that is not empty has a least element, which Min finds.
LEMMA LeastExists ==
  ASSUME NEW S \in SUBSET Nat, S # {}
  PROVE  Min(S) \in S
<1>1. IsWellFoundedOn(OpToRel(<, Nat), Nat)
  BY NatLessThanWellFounded
<1> DEFINE R == OpToRel(<, Nat)
<1>2. \E x \in S : \A y \in S : ~(<<y, x>> \in R)
  <2> HIDE DEF R
  <2>1. IsWellFoundedOn(R, Nat) BY <1>1 DEF R
  <2>2. QED BY <2>1, WFMin
<1>3. \A x, y \in S : ~(<<y, x>> \in R) => x <= y
  BY DEF OpToRel
<1>4. QED BY <1>2, <1>3 DEF Min

\* check_topics (Position) finds a topic of the name exactly when there is one.
LEMMA Found ==
  ASSUME NEW n, topics \in Seq(TopicEntry)
  PROVE  /\ Position(n) \in 0 .. Len(topics)
         /\ Position(n) = 0 <=> n \notin Names(topics)
         /\ Position(n) # 0 => topics[Position(n)].name = n
<1> DEFINE I == {i \in 1 .. Len(topics) : topics[i].name = n}
<1>1. Position(n) = IF I # {} THEN Min(I) ELSE 0
  BY Zenon DEF Position, SelectInSeq
<1>2. I # {} => Min(I) \in I
  <2>1. I \in SUBSET Nat OBVIOUS
  <2>2. QED BY <2>1, LeastExists
<1>3. n \in Names(topics) <=> I # {}
  BY DEF Names
<1>4. QED BY <1>1, <1>2, <1>3

\* Vec::remove: what is left keeps its order.
LEMMA Removed ==
  ASSUME NEW T, NEW s \in Seq(T), NEW p \in 1 .. Len(s)
  PROVE  /\ RemoveAt(s, p) \in Seq(T)
         /\ Len(RemoveAt(s, p)) = Len(s) - 1
         /\ \A i \in 1 .. Len(s) - 1 :
              RemoveAt(s, p)[i] = IF i < p THEN s[i] ELSE s[i + 1]
<1> DEFINE a == SubSeq(s, 1, p - 1)
           b == SubSeq(s, p + 1, Len(s))
<1>1. a \in Seq(T) /\ Len(a) = p - 1 /\ \A i \in 1 .. p - 1 : a[i] = s[i]
  BY SubSeqProperties
<1>2. b \in Seq(T) /\ Len(b) = Len(s) - p /\ \A i \in 1 .. Len(s) - p : b[i] = s[p + i]
  BY SubSeqProperties
<1>3. Len(s) \in Nat
  OBVIOUS
<1>4. /\ a \o b \in Seq(T)
      /\ Len(a \o b) = Len(a) + Len(b)
      /\ \A i \in 1 .. Len(a) + Len(b) :
           (a \o b)[i] = IF i <= Len(a) THEN a[i] ELSE b[i - Len(a)]
  BY <1>1, <1>2, ConcatProperties
<1>5. RemoveAt(s, p) = a \o b
  BY DEF RemoveAt
<1> HIDE DEF a, b
<1>6. ASSUME NEW i \in 1 .. Len(s) - 1
      PROVE  (a \o b)[i] = IF i < p THEN s[i] ELSE s[i + 1]
  <2>1. CASE i < p
    BY <1>1, <1>2, <1>3, <1>4, <2>1
  <2>2. CASE ~(i < p)
    <3>1. i - Len(a) \in 1 .. Len(s) - p /\ i \in 1 .. Len(a) + Len(b)
      BY <1>1, <1>2, <1>3, <2>2
    <3>2. (a \o b)[i] = b[i - Len(a)]
      BY <1>1, <1>3, <1>4, <2>2, <3>1
    <3>3. b[i - Len(a)] = s[p + (i - Len(a))]
      BY <1>2, <3>1
    <3>4. p + (i - Len(a)) = i + 1
      BY <1>1, <1>3
    <3>5. QED BY <1>3, <2>2, <3>2, <3>3, <3>4
  <2>3. QED BY <1>3, <2>1, <2>2
<1>7. QED BY <1>1, <1>2, <1>3, <1>4, <1>5, <1>6

\* A list stays sound when more directories are made.
LEMMA SoundLater ==
  ASSUME NEW ts, NEW m \in Nat, NEW m2 \in Nat, NEW r, Sound(ts, m, r), m <= m2
  PROVE  Sound(ts, m2, r)
<1>1. 1 .. m \subseteq 1 .. m2 OBVIOUS
<1>2. QED BY <1>1 DEF Sound

\* The empty list is sound, and names nothing.
LEMMA SoundEmpty ==
  ASSUME NEW m, NEW r
  PROVE  /\ Sound(<<>>, m, r)
         /\ Names(<<>>) = {} /\ Homes(<<>>) = {} /\ Directories(<<>>) = {}
BY DEF Sound, Names, Homes, Directories

\* Names and directories of a list, seen from its homes.
LEMMA HomesTell ==
  ASSUME NEW ts
  PROVE  /\ \A n : n \in Names(ts) <=> \E d : <<n, d>> \in Homes(ts)
         /\ \A h \in Homes(ts) : h = <<h[1], h[2]>> /\ h[2] \in Directories(ts)
         /\ \A d \in Directories(ts) : \E n : <<n, d>> \in Homes(ts)
BY DEF Names, Homes, Directories

\* A topic of a new name, in a directory of its own, keeps the list sound.
LEMMA Appended ==
  ASSUME NEW n \in Name, BrokerTypeOK, Sound(topics, made, reached), Unreached,
         n \notin Names(topics), made < MaxDirs
  PROVE  LET ts == Append(topics, NewTopic(n)) IN
         /\ Sound(ts, made + 1, reached)
         /\ Names(ts) = Names(topics) \cup {n}
         /\ Homes(ts) = Homes(topics) \cup {<<n, made + 1>>}
         /\ Directories(ts) = Directories(topics) \cup {made + 1}
<1> DEFINE ts == Append(topics, NewTopic(n))
<1> USE BrokerAssumption
<1>1. made \in Nat /\ MaxDirs \in Nat /\ made + 1 \in Dir
  BY DEF BrokerTypeOK, Dir
<1>2. topics \in Seq(TopicEntry)
  BY DEF BrokerTypeOK
<1>3. NewTopic(n) \in TopicEntry
  <2>1. [g \in {} |-> 0] \in [{} -> 0 .. MaxOffset] OBVIOUS
  <2>2. [g \in {} |-> 0] \in Groups
    BY <2>1 DEF Groups
  <2>3. QED BY <1>1, <2>2 DEF NewTopic, TopicEntry
<1>4. /\ ts \in Seq(TopicEntry)
      /\ DOMAIN ts = DOMAIN topics \cup {Len(topics) + 1}
      /\ Len(topics) + 1 \notin DOMAIN topics
      /\ \A i \in DOMAIN topics : ts[i] = topics[i]
      /\ ts[Len(topics) + 1] = NewTopic(n)
  BY <1>2, <1>3
<1>5. NewTopic(n).name = n /\ NewTopic(n).dir = made + 1
  BY DEF NewTopic
<1> HIDE DEF ts
<1>6. Names(ts) = Names(topics) \cup {n}
  BY <1>4, <1>5 DEF Names
<1>7. Directories(ts) = Directories(topics) \cup {made + 1}
  BY <1>4, <1>5 DEF Directories
<1>8. Directories(topics) \subseteq 1 .. made
  BY DEF Sound
<1>9. made + 1 \notin Directories(topics)
  BY <1>1, <1>8
<1>10. ASSUME NEW i \in DOMAIN ts, NEW j \in DOMAIN ts, i # j
       PROVE  ts[i].name # ts[j].name /\ ts[i].dir # ts[j].dir
  <2>1. \A k \in DOMAIN topics : topics[k].name # n /\ topics[k].dir # made + 1
    BY <1>9 DEF Names, Directories
  <2>2. QED BY <1>4, <1>5, <1>10, <2>1 DEF Sound
<1>11. ASSUME NEW i \in DOMAIN ts, NEW g \in Group, reached[ts[i].dir][g] > 0
       PROVE  g \in DOMAIN ts[i].groups /\ reached[ts[i].dir][g] <= ts[i].groups[g]
  <2>1. CASE i \in DOMAIN topics
    BY <1>4, <1>11, <2>1 DEF Sound
  <2>2. CASE i = Len(topics) + 1
    <3>1. ts[i].dir = made + 1
      BY <1>4, <1>5, <2>2
    <3>2. reached[made + 1][g] = 0
      BY <1>1 DEF Unreached
    <3>3. QED BY <1>11, <3>1, <3>2
  <2>3. QED BY <1>4, <2>1, <2>2
<1>12. Directories(ts) \subseteq 1 .. made + 1
  BY <1>1, <1>7, <1>8
<1>13. Sound(ts, made + 1, reached)
  BY <1>4, <1>10, <1>11, <1>12 DEF Sound
<1>14. Homes(ts) = Homes(topics) \cup {<<n, made + 1>>}
  BY <1>4, <1>5 DEF Homes
<1>15. QED BY <1>6, <1>7, <1>13, <1>14 DEF ts

\* Removing the topic found by its name removes that name, that directory and
\* nothing else.
LEMMA Deleted ==
  ASSUME NEW n \in Name, Sound(topics, made, reached), Position(n) # 0
  PROVE  LET ts == RemoveAt(topics, Position(n)) IN
         /\ Sound(ts, made, reached)
         /\ Names(ts) = Names(topics) \ {n}
         /\ Homes(ts) = {h \in Homes(topics) : h[1] # n}
         /\ Directories(ts) = Directories(topics) \ {topics[Position(n)].dir}
<1> DEFINE p == Position(n)
           ts == RemoveAt(topics, p)
           old(i) == IF i < p THEN i ELSE i + 1
<1>1. topics \in Seq(TopicEntry)
  BY DEF Sound
<1>2. p \in 1 .. Len(topics) /\ topics[p].name = n
  BY <1>1, Found
<1> HIDE DEF p
<1>3. /\ ts \in Seq(TopicEntry)
      /\ DOMAIN ts = 1 .. Len(topics) - 1
      /\ \A i \in DOMAIN ts : ts[i] = topics[old(i)]
  <2>1. ts \in Seq(TopicEntry) /\ Len(ts) = Len(topics) - 1
    BY <1>1, <1>2, Removed
  <2>2. \A i \in 1 .. Len(topics) - 1 : ts[i] = IF i < p THEN topics[i] ELSE topics[i + 1]
    BY <1>1, <1>2, Removed
  <2> HIDE DEF ts
  <2>3. QED BY <2>1, <2>2
<1>4. /\ \A i \in DOMAIN ts : old(i) \in DOMAIN topics /\ old(i) # p
      /\ \A i, j \in DOMAIN ts : i # j => old(i) # old(j)
      /\ \A k \in DOMAIN topics : k # p => \E i \in DOMAIN ts : old(i) = k
  <2>1. Len(topics) \in Nat /\ DOMAIN topics = 1 .. Len(topics)
    BY <1>1
  <2> HIDE DEF ts
  <2>2. \A i \in DOMAIN ts : old(i) \in DOMAIN topics /\ old(i) # p
    BY <1>2, <1>3, <2>1
  <2>3. \A i, j \in DOMAIN ts : i # j => old(i) # old(j)
    BY <1>2, <1>3, <2>1
  <2>4. ASSUME NEW k \in DOMAIN topics, k # p
        PROVE  \E i \in DOMAIN ts : old(i) = k
    <3>1. CASE k < p
      BY <1>2, <1>3, <2>1, <3>1
    <3>2. CASE k > p
      <4>1. k - 1 \in DOMAIN ts /\ old(k - 1) = k
        BY <1>2, <1>3, <2>1, <3>2
      <4>2. QED BY <4>1
    <3>3. QED BY <1>2, <2>1, <2>4, <3>1, <3>2
  <2>5. QED BY <2>2, <2>3, <2>4
<1> HIDE DEF ts, old
<1>5. \A k \in DOMAIN topics : k # p => topics[k].name # n /\ topics[k].dir # topics[p].dir
  BY <1>1, <1>2 DEF Sound
<1>6. Names(ts) = Names(topics) \ {n}
  BY <1>2, <1>3, <1>4, <1>5 DEF Names
<1>7. Directories(ts) = Directories(topics) \ {topics[p].dir}
  BY <1>2, <1>3, <1>4, <1>5 DEF Directories
<1>8. Sound(ts, made, reached)
  <2>1. \A i, j \in DOMAIN ts :
           i # j => ts[i].name # ts[j].name /\ ts[i].dir # ts[j].dir
    BY <1>3, <1>4 DEF Sound
  <2>2. Directories(ts) \subseteq 1 .. made
    BY <1>7 DEF Sound
  <2>3. \A i \in DOMAIN ts : \A g \in Group :
           reached[ts[i].dir][g] > 0 =>
             g \in DOMAIN ts[i].groups /\ reached[ts[i].dir][g] <= ts[i].groups[g]
    BY <1>3, <1>4 DEF Sound
  <2>4. QED BY <1>3, <2>1, <2>2, <2>3 DEF Sound
<1>9. Homes(ts) = {h \in Homes(topics) : h[1] # n}
  BY <1>2, <1>3, <1>4, <1>5 DEF Homes
<1>10. QED BY <1>6, <1>7, <1>8, <1>9 DEF ts, p

\* What a poll does to the list: one group of one topic moves forward.
LEMMA Polled ==
  ASSUME NEW n \in Name, NEW g \in Group, NEW k \in 0 .. 1,
         BrokerTypeOK, Sound(topics, made, reached), Pollable(n, g, k)
  PROVE  LET p == Position(n)
             ts == PollOf(n, g, k)
         IN
         /\ p \in DOMAIN topics
         /\ ts \in Seq(TopicEntry) /\ DOMAIN ts = DOMAIN topics
         /\ \A i \in DOMAIN topics : ts[i].name = topics[i].name /\ ts[i].dir = topics[i].dir
         /\ \A i \in DOMAIN topics : i # p => ts[i] = topics[i]
         /\ g \in DOMAIN ts[p].groups
         /\ \A h \in DOMAIN topics[p].groups :
              h \in DOMAIN ts[p].groups /\ topics[p].groups[h] <= ts[p].groups[h]
         /\ ts[p].groups[g] \in 0 .. MaxOffset
<1> DEFINE p == Position(n)
           ts == PollOf(n, g, k)
           t == topics[p]
           u == AfterPoll(t, g, k)
<1> USE BrokerAssumption
<1>1. topics \in Seq(TopicEntry) /\ p \in 1 .. Len(topics) /\ p \in DOMAIN topics
  BY Found DEF Pollable, Sound
<1>2. ts = [topics EXCEPT ![p] = u]
  BY DEF PollOf
<1>3. ts[p].groups[g] <= MaxOffset /\ ts[p] = u
  BY <1>1, <1>2 DEF Pollable
<1> HIDE DEF p, ts
<1>4. t \in TopicEntry
  BY <1>1
<1>5. PICK known \in SUBSET Group : t.groups \in [known -> 0 .. MaxOffset]
  BY <1>4 DEF TopicEntry, Groups
<1> DEFINE was == IF g \in DOMAIN t.groups THEN t.groups[g] ELSE 0
           new == [h \in DOMAIN t.groups \cup {g} |-> IF h = g THEN was + k ELSE t.groups[h]]
<1>6. u = [t EXCEPT !.groups = new]
  BY DEF AfterPoll
<1>7. was \in Nat /\ was + k \in Nat /\ was <= was + k
  BY <1>5
<1> HIDE DEF t, u, was
<1>8. u = [name |-> t.name, dir |-> t.dir, groups |-> new]
  BY <1>4, <1>6 DEF TopicEntry
<1>9. new[g] = was + k /\ was + k <= MaxOffset /\ was + k \in 0 .. MaxOffset
  BY <1>3, <1>7, <1>8
<1>10. new \in [known \cup {g} -> 0 .. MaxOffset]
  BY <1>5, <1>9
<1>11. new \in Groups
  BY <1>10 DEF Groups
<1>12. u \in TopicEntry
  BY <1>4, <1>8, <1>11 DEF TopicEntry
<1>13. /\ ts \in Seq(TopicEntry) /\ DOMAIN ts = DOMAIN topics
       /\ \A i \in DOMAIN topics : i # p => ts[i] = topics[i]
  BY <1>1, <1>2, <1>12
<1>14. \A h \in DOMAIN t.groups : h \in DOMAIN new /\ t.groups[h] <= new[h]
  BY <1>5, <1>7 DEF was
<1>15. u.name = t.name /\ u.dir = t.dir /\ u.groups = new
  BY <1>8
<1> HIDE DEF new
<1>16. \A i \in DOMAIN topics : ts[i].name = topics[i].name /\ ts[i].dir = topics[i].dir
  BY <1>3, <1>13, <1>15 DEF t
<1>17. g \in DOMAIN ts[p].groups /\ ts[p].groups[g] \in 0 .. MaxOffset
  BY <1>3, <1>9, <1>15 DEF new
<1>18. \A h \in DOMAIN topics[p].groups :
          h \in DOMAIN ts[p].groups /\ topics[p].groups[h] <= ts[p].groups[h]
  BY <1>3, <1>14, <1>15 DEF t
<1>19. QED BY <1>1, <1>13, <1>16, <1>17, <1>18 DEF p, ts

\* After a poll the list is sound for the offsets reached before it and for
\* those that its answer reaches.
LEMMA PolledSound ==
  ASSUME NEW n \in Name, NEW g \in Group, NEW k \in 0 .. 1, NEW r,
         BrokerTypeOK, ListsSound, Pollable(n, g, k),
         r \in {reached,
                [reached EXCEPT ![topics[Position(n)].dir][g] =
                   PollOf(n, g, k)[Position(n)].groups[g]]}
  PROVE  LET ts == PollOf(n, g, k) IN
         /\ Sound(ts, made, r)
         /\ Names(ts) = Names(topics)
         /\ Homes(ts) = Homes(topics)
         /\ Directories(ts) = Directories(topics)
         /\ r \in [Dir -> [Group -> 0 .. MaxOffset]]
         /\ \A d \in Dir, h \in Group : d > made => r[d][h] = 0
<1> DEFINE p == Position(n)
           ts == PollOf(n, g, k)
           d == topics[p].dir
<1> USE BrokerAssumption
<1>1. /\ p \in DOMAIN topics
      /\ ts \in Seq(TopicEntry) /\ DOMAIN ts = DOMAIN topics
      /\ \A i \in DOMAIN topics : ts[i].name = topics[i].name /\ ts[i].dir = topics[i].dir
      /\ \A i \in DOMAIN topics : i # p => ts[i] = topics[i]
      /\ g \in DOMAIN ts[p].groups
      /\ \A h \in DOMAIN topics[p].groups :
           h \in DOMAIN ts[p].groups /\ topics[p].groups[h] <= ts[p].groups[h]
      /\ ts[p].groups[g] \in 0 .. MaxOffset
  BY Polled DEF ListsSound
<1>2. r = reached \/ r = [reached EXCEPT ![d][g] = ts[p].groups[g]]
  OBVIOUS
<1> HIDE DEF ts, p
<1>3. Names(ts) = Names(topics) /\ Directories(ts) = Directories(topics)
  BY <1>1 DEF Names, Directories
<1>4. topics \in Seq(TopicEntry) /\ topics[p] \in TopicEntry /\ d \in Dir
  <2>1. topics \in Seq(TopicEntry) /\ p \in DOMAIN topics
    BY <1>1 DEF BrokerTypeOK
  <2>2. topics[p] \in TopicEntry
    BY <2>1
  <2>3. QED BY <2>1, <2>2 DEF TopicEntry
<1>5. reached \in [Dir -> [Group -> 0 .. MaxOffset]]
  BY DEF BrokerTypeOK
<1>6. r \in [Dir -> [Group -> 0 .. MaxOffset]]
  <2> HIDE DEF d
  <2>1. ts[p].groups[g] \in 0 .. MaxOffset
    BY <1>1
  <2>2. [reached[d] EXCEPT ![g] = ts[p].groups[g]] \in [Group -> 0 .. MaxOffset]
    BY <1>4, <1>5, <2>1
  <2>3. r = reached \/ r = [reached EXCEPT ![d] = [reached[d] EXCEPT ![g] = ts[p].groups[g]]]
    BY <1>2
  <2>4. QED BY <1>4, <1>5, <2>2, <2>3
<1>7. d \in 1 .. made /\ made \in Nat
  <2>1. made \in Nat
    BY DEF BrokerTypeOK
  <2>2. d \in Directories(topics)
    BY <1>1 DEF Directories
  <2>3. QED BY <2>1, <2>2 DEF ListsSound, Sound
<1>8. \A e \in Dir, h \in Group :
        \/ r[e][h] = reached[e][h]
        \/ e = d /\ h = g /\ r[e][h] = ts[p].groups[g]
  <2> HIDE DEF d
  <2>1. QED BY <1>2, <1>4, <1>5
<1>9. \A e \in Dir, h \in Group : e > made => r[e][h] = 0
  <2>1. \A e \in Dir : e > made => e # d
    BY <1>7 DEF Dir
  <2>2. QED BY <1>8, <2>1 DEF ListsSound, Unreached
<1>10. \A i, j \in DOMAIN ts :
          i # j => ts[i].name # ts[j].name /\ ts[i].dir # ts[j].dir
  BY <1>1 DEF ListsSound, Sound
<1>11. ASSUME NEW i \in DOMAIN ts, NEW h \in Group, r[ts[i].dir][h] > 0
       PROVE  h \in DOMAIN ts[i].groups /\ r[ts[i].dir][h] <= ts[i].groups[h]
  <2>1. ts[i].dir = topics[i].dir /\ topics[i] \in TopicEntry /\ ts[i] \in TopicEntry
        /\ topics[i].dir \in Dir
    <3>1. i \in DOMAIN topics /\ ts \in Seq(TopicEntry) /\ ts[i].dir = topics[i].dir
      BY <1>1
    <3>2. topics[i] \in TopicEntry /\ ts[i] \in TopicEntry
      BY <1>4, <3>1
    <3>3. QED BY <3>1, <3>2 DEF TopicEntry
  <2>2. CASE r[ts[i].dir][h] = reached[ts[i].dir][h]
    <3>1. /\ h \in DOMAIN topics[i].groups
          /\ reached[topics[i].dir][h] <= topics[i].groups[h]
      BY <1>1, <1>11, <2>1, <2>2 DEF ListsSound, Sound
    <3>2. h \in DOMAIN ts[i].groups /\ topics[i].groups[h] <= ts[i].groups[h]
      <4>1. CASE i = p
        BY <1>1, <3>1, <4>1
      <4>2. CASE i # p
        <5>1. ts[i] = topics[i]
          BY <1>1, <4>2
        <5>2. topics[i].groups[h] \in Nat
          BY <2>1, <3>1 DEF TopicEntry, Groups
        <5>3. QED BY <3>1, <5>1, <5>2
      <4>3. QED BY <4>1, <4>2
    <3>3. ts[i].groups[h] \in Nat /\ topics[i].groups[h] \in Nat /\ reached[topics[i].dir][h] \in Nat
      BY <1>5, <2>1, <3>1, <3>2 DEF TopicEntry, Groups
    <3>4. QED BY <2>1, <2>2, <3>1, <3>2, <3>3
  <2>3. CASE ts[i].dir = d /\ h = g /\ r[ts[i].dir][h] = ts[p].groups[g]
    <3>1. i = p
      BY <1>1, <2>1, <2>3 DEF ListsSound, Sound
    <3>2. QED BY <1>1, <2>3, <3>1
  <2>4. QED BY <1>8, <2>1, <2>2, <2>3
<1>12. Sound(ts, made, r)
  <2>1. Directories(ts) \subseteq 1 .. made
    BY <1>3 DEF ListsSound, Sound
  <2>2. QED BY <1>1, <1>10, <1>11, <2>1 DEF Sound
<1>13. Homes(ts) = Homes(topics)
  BY <1>1 DEF Homes
<1>14. QED BY <1>3, <1>6, <1>9, <1>12, <1>13 DEF ts, p

\* A flush that failed, or did not happen, leaves what the file lists, and a
\* file that decoded still does.
LEMMA UnwrittenKeeps ==
  ASSUME BrokerTypeOK, meta' \in Unwritten
  PROVE  /\ Listed' = Listed
         /\ meta' \in {Absent, Truncated} \cup Seq(TopicEntry)
         /\ meta \notin {Absent, Truncated} => meta' \notin {Absent, Truncated}
BY DEF Unwritten, Listed, BrokerTypeOK

\* A flush that wrote makes the file list what was written.
LEMMA WrittenLists ==
  ASSUME NEW ts \in Seq(TopicEntry), meta' = ts
  PROVE  /\ Listed' = ts
         /\ meta' \in {Absent, Truncated} \cup Seq(TopicEntry)
         /\ meta' \notin {Absent, Truncated}
BY BrokerAssumption DEF Listed

\* One element more is at most one more to count.
LEMMA OneMore ==
  ASSUME NEW A, NEW B, NEW x, IsFiniteSet(A), B \subseteq A \cup {x}
  PROVE  Cardinality(B) <= Cardinality(A) + 1
<1>1. IsFiniteSet(A \cup {x}) /\ Cardinality(A \cup {x}) <= Cardinality(A) + 1
  <2>1. Cardinality(A) \in Nat
    BY FS_CardinalityType
  <2>2. IsFiniteSet(A \cup {x})
        /\ Cardinality(A \cup {x}) = IF x \in A THEN Cardinality(A) ELSE Cardinality(A) + 1
    BY FS_AddElement
  <2>3. QED BY <2>1, <2>2
<1>2. Cardinality(B) <= Cardinality(A \cup {x}) /\ IsFiniteSet(B)
  BY <1>1, FS_Subset
<1>3. /\ Cardinality(A) \in Nat /\ Cardinality(B) \in Nat
      /\ Cardinality(A \cup {x}) \in Nat
  BY <1>1, <1>2, FS_CardinalityType
<1>4. QED BY <1>1, <1>2, <1>3

\* There are finitely many directories to count.
LEMMA OrphansFinite ==
  ASSUME BrokerTypeOK
  PROVE  IsFiniteSet(dirs \ Kept) /\ Cardinality(dirs \ Kept) \in Nat
<1>1. IsFiniteSet(Dir)
  BY BrokerAssumption, FS_Interval DEF Dir
<1>2. dirs \ Kept \subseteq Dir
  BY DEF BrokerTypeOK
<1>3. QED BY <1>1, <1>2, FS_Subset, FS_CardinalityType

\* A step that orphans no directory keeps the bound.
LEMMA NoMoreOrphans ==
  ASSUME BrokerTypeOK, OrphansCounted, dirs' \ Kept' \subseteq dirs \ Kept,
         faults' + crashes' \in Nat, faults + crashes <= faults' + crashes'
  PROVE  OrphansCounted'
<1>1. Cardinality(dirs' \ Kept') <= Cardinality(dirs \ Kept)
      /\ IsFiniteSet(dirs' \ Kept')
  BY OrphansFinite, FS_Subset
<1>2. Cardinality(dirs' \ Kept') \in Nat /\ Cardinality(dirs \ Kept) \in Nat
  BY <1>1, OrphansFinite, FS_CardinalityType
<1>3. faults + crashes \in Int
  BY DEF BrokerTypeOK
<1>4. QED BY <1>1, <1>2, <1>3 DEF OrphansCounted

\* A step that orphans one directory keeps the bound when it is a fault or a
\* crash.
LEMMA OneMoreOrphan ==
  ASSUME BrokerTypeOK, OrphansCounted, NEW d, dirs' \ Kept' \subseteq (dirs \ Kept) \cup {d},
         faults' + crashes' = faults + crashes + 1
  PROVE  OrphansCounted'
<1>1. Cardinality(dirs' \ Kept') <= Cardinality(dirs \ Kept) + 1
  BY OrphansFinite, OneMore
<1>2. IsFiniteSet(dirs' \ Kept')
  <2>1. IsFiniteSet((dirs \ Kept) \cup {d})
    BY OrphansFinite, FS_AddElement
  <2>2. QED BY <2>1, FS_Subset
<1>3. Cardinality(dirs' \ Kept') \in Nat /\ Cardinality(dirs \ Kept) \in Nat
  BY <1>2, OrphansFinite, FS_CardinalityType
<1>4. faults \in Int /\ crashes \in Int
  BY DEF BrokerTypeOK
<1>5. QED BY <1>1, <1>3, <1>4 DEF OrphansCounted

-----------------------------------------------------------------------------
\* A step of a running broker that may give another name a new directory, and
\* leaves the home of n where both lists have it, keeps what was answered about n.
LEMMA OtherHolds ==
  ASSUME RegistryInv, up, NEW n \in Name,
         unseen' = unseen, made' \in Nat, made <= made',
         created'[n] = created[n], n \in deleted' => n \in deleted,
         \A h \in Homes(Listed') \cup Homes(topics') :
           \/ h \in Homes(Listed) \cup Homes(topics)
           \/ h[1] # n /\ h[2] = made + 1,
         \A h \in Homes(Listed) \cap Homes(topics) :
           h[1] = n => h \in Homes(Listed') /\ (up' => h \in Homes(topics'))
  PROVE  AnswerHolds(n)'
<1>1. AnswerHolds(n) /\ made \in Nat
  BY DEF RegistryInv, AnswersHold, BrokerTypeOK
<1>2. created[n] \in 0 .. made /\ created[n] \in 0 .. made' /\ created[n] # made + 1
  BY <1>1 DEF AnswerHolds
<1>3. ASSUME NEW h \in Homes(Listed') \cup Homes(topics'), h[2] = created[n]
      PROVE  h[1] = n
  BY <1>1, <1>2, <1>3 DEF AnswerHolds
<1>4. created[n] \notin {0} \cup unseen =>
        /\ <<n, created[n]>> \in Homes(Listed')
        /\ up' => <<n, created[n]>> \in Homes(topics')
  BY <1>1 DEF AnswerHolds
<1>5. n \in deleted => n \notin Names(Listed') \cup Names(topics')
  <2>1. SUFFICES ASSUME n \in deleted, NEW d, <<n, d>> \in Homes(Listed') \cup Homes(topics')
                 PROVE  FALSE
    BY HomesTell
  <2>2. <<n, d>> \in Homes(Listed) \cup Homes(topics)
    BY <2>1
  <2>3. QED BY <1>1, <2>1, <2>2, HomesTell DEF AnswerHolds
<1>6. QED BY <1>2, <1>3, <1>4, <1>5 DEF AnswerHolds

\* A name about which nothing is said holds nothing.
LEMMA NothingHolds ==
  ASSUME NEW n \in Name, BrokerTypeOK, ListsSound', made' \in Nat, SaysNothing(n)
  PROVE  AnswerHolds(n)' /\ created'[n] = 0 /\ n \notin deleted'
<1>1. created'[n] = 0 /\ n \notin deleted'
  BY DEF SaysNothing, BrokerTypeOK
<1>2. \A h \in Homes(Listed') \cup Homes(topics') : h[2] # 0
  <2>1. Directories(Listed') \cup Directories(topics') \subseteq 1 .. made'
    BY DEF ListsSound, Sound
  <2>2. QED BY <2>1, HomesTell
<1>3. QED BY <1>1, <1>2 DEF AnswerHolds

\* What is said of one name is not said of another, and keeps its type.
LEMMA Said ==
  ASSUME NEW n \in Name, BrokerTypeOK,
         SaysNothing(n) \/ SaysDeleted(n) \/ (SaysCreated(n) /\ made < MaxDirs)
  PROVE  /\ created' \in [Name -> 0 .. MaxDirs]
         /\ deleted' \subseteq Name
         /\ \A m \in Name \ {n} : /\ created'[m] = created[m]
                                  /\ m \in deleted' => m \in deleted
<1>1. made + 1 \in 0 .. MaxDirs \/ ~(SaysCreated(n) /\ made < MaxDirs)
  BY BrokerAssumption DEF BrokerTypeOK
<1>2. 0 \in 0 .. MaxDirs
  BY BrokerAssumption
<1>3. created \in [Name -> 0 .. MaxDirs] /\ deleted \subseteq Name
  BY DEF BrokerTypeOK
<1>4. PICK d \in 0 .. MaxDirs : created' = [created EXCEPT ![n] = d]
  BY <1>1, <1>2 DEF SaysNothing, SaysDeleted, SaysCreated
<1>5. deleted' \in {deleted \cup {n}, deleted \ {n}}
  BY DEF SaysNothing, SaysDeleted, SaysCreated
<1>6. QED BY <1>3, <1>4, <1>5

\* A step of a running broker that neither answers about names nor moves topics
\* keeps what was answered, in memory or, when it stops, in the file.
LEMMA AnswersUnsaid ==
  ASSUME RegistryInv, up, unseen' = unseen, made' = made,
         created' = created, deleted' = deleted,
         Homes(Listed') \in {Homes(Listed), Homes(topics)},
         Homes(topics') = Homes(topics) \/ (~up' /\ Homes(topics') = {})
  PROVE  AnswersHold'
<1>1. made \in Nat
  BY DEF RegistryInv, BrokerTypeOK
<1>2. ASSUME NEW n \in Name
      PROVE  AnswerHolds(n)'
  BY <1>1, OtherHolds
<1>3. QED BY <1>2 DEF AnswersHold

\* A file that could be decoded is enough when nothing more is said.
LEMMA NothingReadable ==
  ASSUME NEW n \in Name, BrokerTypeOK, AckedReadable, SaysNothing(n),
         meta \notin {Absent, Truncated} => meta' \notin {Absent, Truncated}
  PROVE  AckedReadable'
BY DEF AckedReadable, SaysNothing, BrokerTypeOK

-----------------------------------------------------------------------------
\* One lemma per action: it preserves the invariant.
LEMMA CreateKeeps ==
  ASSUME RegistryInv, NEW n \in Name, CreateTopic(n)
  PROVE  RegistryInv'
<1> USE DEF RegistryInv
<1>1. /\ up /\ up' = up /\ faults' = faults /\ crashes' = crashes /\ reached' = reached
      /\ made' = made + 1 /\ made < MaxDirs /\ dirs' = dirs \cup {made + 1}
      /\ meta' = topics'
      /\ unseen' = unseen /\ SaysCreated(n)
  BY DEF CreateTopic
<1>2. n \notin Names(topics)
  BY Found DEF CreateTopic, BrokerTypeOK
<1>3. /\ Sound(topics', made', reached')
      /\ Homes(topics') = Homes(topics) \cup {<<n, made + 1>>}
      /\ Directories(topics') = Directories(topics) \cup {made + 1}
  BY <1>1, <1>2, Appended DEF CreateTopic, ListsSound
<1>4. /\ Listed' = topics' /\ topics' \in Seq(TopicEntry) /\ meta' \notin {Absent, Truncated}
      /\ meta' \in {Absent, Truncated} \cup Seq(TopicEntry)
  BY <1>1, <1>3, WrittenLists DEF Sound
<1>5. BrokerTypeOK'
  BY <1>1, <1>4, Said, BrokerAssumption DEF BrokerTypeOK, Dir
<1>6. ListsSound'
  <2>1. \A d \in Dir : d > made + 1 => d > made
    BY DEF Dir, BrokerTypeOK
  <2>2. Unreached'
    BY <1>1, <2>1 DEF ListsSound, Unreached
  <2>3. QED BY <1>1, <1>3, <1>4, <2>2 DEF ListsSound
<1>7. DirectoriesNumbered'
  BY <1>1, <1>3 DEF DirectoriesNumbered, TopicsHaveDirectories, BrokerTypeOK
<1>8. AnswersHold'
  <2>1. made \in Nat /\ made' \in Nat /\ made <= made'
    BY <1>1 DEF BrokerTypeOK
  <2>2. ASSUME NEW m \in Name \ {n}
        PROVE  AnswerHolds(m)'
    <3>1. created'[m] = created[m] /\ (m \in deleted' => m \in deleted)
      BY <1>1, Said
    <3>2. QED BY <1>1, <1>3, <1>4, <2>1, <3>1, OtherHolds
  <2>3. created'[n] = made + 1 /\ n \notin deleted'
    BY <1>1 DEF SaysCreated, BrokerTypeOK
  <2>4. \A h \in Homes(topics) : h[2] # made + 1
    BY <2>1, HomesTell DEF ListsSound, Sound
  <2>5. AnswerHolds(n)'
    BY <1>1, <1>3, <1>4, <2>1, <2>3, <2>4 DEF AnswerHolds
  <2>6. QED BY <2>2, <2>5 DEF AnswersHold
<1>9. AckedReadable'
  BY <1>4 DEF AckedReadable
<1>10. OrphansCounted'
  <2>1. Kept' = unseen \cup Directories(topics) \cup {made + 1}
    BY <1>1, <1>3, <1>4 DEF Kept
  <2>2. dirs' \ Kept' \subseteq dirs \ Kept
    BY <1>1, <2>1 DEF Kept
  <2>3. QED BY <1>1, <2>2, NoMoreOrphans DEF BrokerTypeOK
<1>11. QED BY <1>5, <1>6, <1>7, <1>8, <1>9, <1>10

\* The invariant is preserved by DeleteTopic.
LEMMA DeleteKeeps ==
  ASSUME RegistryInv, NEW n \in Name, DeleteTopic(n)
  PROVE  RegistryInv'
<1> USE DEF RegistryInv
<1> DEFINE d == topics[Position(n)].dir
<1>1. /\ up /\ up' = up /\ faults' = faults /\ crashes' = crashes /\ reached' = reached
      /\ made' = made /\ dirs' = dirs \ {d}
      /\ meta' = topics'
      /\ unseen' = unseen /\ SaysDeleted(n)
  BY DEF DeleteTopic
<1>2. /\ Sound(topics', made', reached')
      /\ Names(topics') = Names(topics) \ {n}
      /\ Homes(topics') = {h \in Homes(topics) : h[1] # n}
      /\ Directories(topics') = Directories(topics) \ {d}
  BY <1>1, Deleted DEF DeleteTopic, ListsSound
<1> HIDE DEF d
<1>3. /\ Listed' = topics' /\ topics' \in Seq(TopicEntry) /\ meta' \notin {Absent, Truncated}
      /\ meta' \in {Absent, Truncated} \cup Seq(TopicEntry)
  BY <1>1, <1>2, WrittenLists DEF Sound
<1>4. BrokerTypeOK'
  BY <1>1, <1>3, Said DEF BrokerTypeOK
<1>5. ListsSound'
  BY <1>1, <1>2, <1>3 DEF ListsSound, Unreached
<1>6. DirectoriesNumbered'
  BY <1>1, <1>2 DEF DirectoriesNumbered, TopicsHaveDirectories
<1>7. AnswersHold'
  <2>1. made \in Nat
    BY DEF BrokerTypeOK
  <2>2. ASSUME NEW m \in Name \ {n}
        PROVE  AnswerHolds(m)'
    <3>1. created'[m] = created[m] /\ (m \in deleted' => m \in deleted)
      BY <1>1, Said
    <3>2. QED BY <1>1, <1>2, <1>3, <2>1, <3>1, OtherHolds
  <2>3. created'[n] = 0
    BY <1>1 DEF SaysDeleted, BrokerTypeOK
  <2>4. \A h \in Homes(topics') : h[2] # 0
    BY <1>1, <1>2, HomesTell DEF Sound
  <2>5. AnswerHolds(n)'
    BY <1>1, <1>2, <1>3, <2>1, <2>3, <2>4 DEF AnswerHolds
  <2>6. QED BY <2>2, <2>5 DEF AnswersHold
<1>8. AckedReadable'
  BY <1>3 DEF AckedReadable
<1>9. OrphansCounted'
  <2>1. Kept' = unseen \cup (Directories(topics) \ {d})
    BY <1>1, <1>2, <1>3 DEF Kept
  <2>2. dirs' \ Kept' \subseteq dirs \ Kept
    BY <1>1, <2>1 DEF Kept
  <2>3. QED BY <1>1, <2>2, NoMoreOrphans DEF BrokerTypeOK
<1>10. QED BY <1>4, <1>5, <1>6, <1>7, <1>8, <1>9

\* The invariant is preserved by Consume, with and without the flush.
LEMMA ConsumeKeeps ==
  ASSUME RegistryInv, NEW n \in Name, NEW g \in Group, NEW k \in 0 .. 1, Consume(n, g, k)
  PROVE  RegistryInv'
<1> USE DEF RegistryInv
<1>1. /\ up /\ up' = up /\ faults' = faults /\ crashes' = crashes
      /\ made' = made /\ dirs' = dirs /\ created' = created /\ deleted' = deleted
      /\ unseen' = unseen
      /\ meta' = IF k > 0 THEN topics' ELSE meta
      /\ topics' = PollOf(n, g, k) /\ Pollable(n, g, k)
  BY DEF Consume, Pollable
<1>2. reached' \in {reached, [reached EXCEPT ![topics[Position(n)].dir][g] =
                                PollOf(n, g, k)[Position(n)].groups[g]]}
  BY DEF Consume
<1>3. /\ Sound(topics', made', reached')
      /\ Homes(topics') = Homes(topics)
      /\ Directories(topics') = Directories(topics)
      /\ reached' \in [Dir -> [Group -> 0 .. MaxOffset]]
      /\ \A d \in Dir, h \in Group : d > made => reached'[d][h] = 0
  BY <1>1, <1>2, PolledSound
<1>4. CASE k > 0
  <2>1. /\ Listed' = topics' /\ topics' \in Seq(TopicEntry) /\ meta' \notin {Absent, Truncated}
        /\ meta' \in {Absent, Truncated} \cup Seq(TopicEntry)
    BY <1>1, <1>3, <1>4, WrittenLists DEF Sound
  <2>2. BrokerTypeOK'
    BY <1>1, <1>3, <2>1 DEF BrokerTypeOK
  <2>3. ListsSound'
    BY <1>1, <1>3, <2>1 DEF ListsSound, Unreached
  <2>4. DirectoriesNumbered'
    BY <1>1, <1>3 DEF DirectoriesNumbered, TopicsHaveDirectories
  <2>5. AnswersHold'
    BY <1>1, <1>3, <2>1, AnswersUnsaid
  <2>6. AckedReadable'
    BY <2>1 DEF AckedReadable
  <2>7. Kept' = unseen \cup Directories(topics)
    BY <1>1, <1>3, <2>1 DEF Kept
  <2>8. dirs' \ Kept' \subseteq dirs \ Kept
    BY <1>1, <2>7 DEF Kept
  <2>9. OrphansCounted'
    BY <1>1, <2>8, NoMoreOrphans DEF BrokerTypeOK
  <2>10. QED BY <2>2, <2>3, <2>4, <2>5, <2>6, <2>9
<1>5. CASE ~(k > 0)
  <2>1. meta' = meta /\ Listed' = Listed /\ topics' \in Seq(TopicEntry) /\ reached' = reached
    BY <1>1, <1>3, <1>5 DEF Listed, Sound, Consume
  <2>2. BrokerTypeOK'
    BY <1>1, <1>3, <2>1 DEF BrokerTypeOK
  <2>3. ListsSound'
    BY <1>1, <1>3, <2>1 DEF ListsSound, Unreached
  <2>4. DirectoriesNumbered'
    BY <1>1, <1>3 DEF DirectoriesNumbered, TopicsHaveDirectories
  <2>5. AnswersHold'
    BY <1>1, <1>3, <2>1, AnswersUnsaid
  <2>6. AckedReadable'
    BY <1>1, <2>1 DEF AckedReadable
  <2>7. Kept' = Kept
    BY <1>1, <1>3, <2>1 DEF Kept
  <2>8. OrphansCounted'
    BY <1>1, <2>7, NoMoreOrphans DEF BrokerTypeOK
  <2>9. QED BY <2>2, <2>3, <2>4, <2>5, <2>6, <2>8
<1>6. QED BY <1>4, <1>5

\* The invariant is preserved by CreateFails.
LEMMA CreateFailsKeeps ==
  ASSUME RegistryInv, NEW n \in Name, CreateFails(n)
  PROVE  RegistryInv'
<1> USE DEF RegistryInv
<1> DEFINE ts == Append(topics, NewTopic(n))
<1>1. /\ up /\ up' = up /\ faults' = faults + 1 /\ faults < MaxFaults
      /\ crashes' = crashes /\ reached' = reached /\ unseen' = unseen
      /\ made' = made + 1 /\ made < MaxDirs
      /\ dirs' \in {dirs, dirs \cup {made + 1}}
      /\ topics' = topics \/ (topics' = ts /\ dirs' = dirs \cup {made + 1})
      /\ meta' \in Unwritten /\ SaysNothing(n)
  BY DEF CreateFails, Fault, Unwritten
<1>2. n \notin Names(topics)
  BY Found DEF CreateFails, BrokerTypeOK
<1>3. /\ Sound(ts, made', reached')
      /\ Homes(ts) = Homes(topics) \cup {<<n, made + 1>>}
      /\ Directories(ts) = Directories(topics) \cup {made + 1}
  BY <1>1, <1>2, Appended DEF ListsSound
<1> HIDE DEF ts
<1>4. /\ Listed' = Listed
      /\ meta' \in {Absent, Truncated} \cup Seq(TopicEntry)
      /\ meta \notin {Absent, Truncated} => meta' \notin {Absent, Truncated}
  BY <1>1, UnwrittenKeeps
<1>5. Sound(Listed', made', reached') /\ Sound(topics', made', reached')
  BY <1>1, <1>3, <1>4, SoundLater DEF ListsSound, BrokerTypeOK
<1>6. BrokerTypeOK'
  <2>1. topics' \in Seq(TopicEntry)
    BY <1>5 DEF Sound
  <2>2. QED BY <1>1, <1>4, <2>1, Said, BrokerAssumption DEF BrokerTypeOK, Dir
<1>7. ListsSound'
  <2>1. \A d \in Dir : d > made + 1 => d > made
    BY DEF Dir, BrokerTypeOK
  <2>2. Unreached'
    BY <1>1, <2>1 DEF ListsSound, Unreached
  <2>3. QED BY <1>1, <1>5, <2>2 DEF ListsSound
<1>8. DirectoriesNumbered'
  BY <1>1, <1>3 DEF DirectoriesNumbered, TopicsHaveDirectories, BrokerTypeOK
<1>9. AnswersHold'
  <2>1. made \in Nat /\ made' \in Nat /\ made <= made'
    BY <1>1 DEF BrokerTypeOK
  <2>2. ASSUME NEW m \in Name \ {n}
        PROVE  AnswerHolds(m)'
    <3>1. created'[m] = created[m] /\ (m \in deleted' => m \in deleted)
      BY <1>1, Said
    <3>2. QED BY <1>1, <1>3, <1>4, <2>1, <3>1, OtherHolds
  <2>3. AnswerHolds(n)'
    BY <1>1, <1>7, <2>1, NothingHolds
  <2>4. QED BY <2>2, <2>3 DEF AnswersHold
<1>10. AckedReadable'
  BY <1>1, <1>4, NothingReadable
<1>11. OrphansCounted'
  <2>1. dirs' \ Kept' \subseteq (dirs \ Kept) \cup {made + 1}
    BY <1>1, <1>3, <1>4 DEF Kept
  <2>2. faults' + crashes' = faults + crashes + 1
    BY <1>1 DEF BrokerTypeOK
  <2>3. QED BY <2>1, <2>2, OneMoreOrphan
<1>12. QED BY <1>6, <1>7, <1>8, <1>9, <1>10, <1>11

\* The invariant is preserved by DeleteFails.
LEMMA DeleteFailsKeeps ==
  ASSUME RegistryInv, NEW n \in Name, DeleteFails(n)
  PROVE  RegistryInv'
<1> USE DEF RegistryInv
<1> DEFINE d == topics[Position(n)].dir
<1>1. /\ up /\ up' = up /\ faults' = faults + 1 /\ faults < MaxFaults
      /\ crashes' = crashes /\ reached' = reached
      /\ made' = made /\ dirs' \in {dirs, dirs \ {d}}
      /\ meta' \in Unwritten /\ unseen' = unseen /\ SaysNothing(n)
  BY DEF DeleteFails, Fault, Unwritten
<1>2. /\ Sound(topics', made', reached')
      /\ Homes(topics') = {h \in Homes(topics) : h[1] # n}
      /\ Directories(topics') = Directories(topics) \ {d}
  BY <1>1, Deleted DEF DeleteFails, ListsSound
<1> HIDE DEF d
<1>3. /\ Listed' = Listed /\ topics' \in Seq(TopicEntry)
      /\ meta' \in {Absent, Truncated} \cup Seq(TopicEntry)
      /\ meta \notin {Absent, Truncated} => meta' \notin {Absent, Truncated}
  BY <1>1, <1>2, UnwrittenKeeps DEF Sound
<1>4. BrokerTypeOK'
  BY <1>1, <1>3, Said, BrokerAssumption DEF BrokerTypeOK
<1>5. ListsSound'
  BY <1>1, <1>2, <1>3 DEF ListsSound, Unreached
<1>6. DirectoriesNumbered'
  BY <1>1, <1>2 DEF DirectoriesNumbered, TopicsHaveDirectories
<1>7. AnswersHold'
  <2>1. made \in Nat
    BY DEF BrokerTypeOK
  <2>2. ASSUME NEW m \in Name \ {n}
        PROVE  AnswerHolds(m)'
    <3>1. created'[m] = created[m] /\ (m \in deleted' => m \in deleted)
      BY <1>1, Said
    <3>2. QED BY <1>1, <1>2, <1>3, <2>1, <3>1, OtherHolds
  <2>3. AnswerHolds(n)'
    BY <1>1, <1>5, <2>1, NothingHolds
  <2>4. QED BY <2>2, <2>3 DEF AnswersHold
<1>8. AckedReadable'
  BY <1>1, <1>3, NothingReadable
<1>9. OrphansCounted'
  <2>1. dirs' \ Kept' \subseteq (dirs \ Kept) \cup {d}
    BY <1>1, <1>2, <1>3 DEF Kept
  <2>2. faults' + crashes' = faults + crashes + 1
    BY <1>1 DEF BrokerTypeOK
  <2>3. QED BY <2>1, <2>2, OneMoreOrphan
<1>10. QED BY <1>4, <1>5, <1>6, <1>7, <1>8, <1>9

\* The invariant is preserved by ConsumeFails.
LEMMA ConsumeFailsKeeps ==
  ASSUME RegistryInv, NEW n \in Name, NEW g \in Group, NEW k \in 0 .. 1, ConsumeFails(n, g, k)
  PROVE  RegistryInv'
<1> USE DEF RegistryInv
<1>1. /\ up /\ up' = up /\ faults' = faults + 1 /\ faults < MaxFaults
      /\ crashes' = crashes /\ reached' = reached
      /\ made' = made /\ dirs' = dirs /\ created' = created /\ deleted' = deleted
      /\ unseen' = unseen
      /\ meta' \in Unwritten /\ topics' = PollOf(n, g, k) /\ Pollable(n, g, k)
  BY DEF ConsumeFails, Pollable, Fault, Unwritten
<1>2. /\ Sound(topics', made', reached')
      /\ Homes(topics') = Homes(topics)
      /\ Directories(topics') = Directories(topics)
  BY <1>1, PolledSound
<1>3. /\ Listed' = Listed /\ topics' \in Seq(TopicEntry)
      /\ meta' \in {Absent, Truncated} \cup Seq(TopicEntry)
      /\ meta \notin {Absent, Truncated} => meta' \notin {Absent, Truncated}
  BY <1>1, <1>2, UnwrittenKeeps DEF Sound
<1>4. BrokerTypeOK'
  BY <1>1, <1>3, BrokerAssumption DEF BrokerTypeOK
<1>5. ListsSound'
  BY <1>1, <1>2, <1>3 DEF ListsSound, Unreached
<1>6. DirectoriesNumbered'
  BY <1>1, <1>2 DEF DirectoriesNumbered, TopicsHaveDirectories
<1>7. AnswersHold'
  BY <1>1, <1>2, <1>3, AnswersUnsaid DEF Pollable
<1>8. AckedReadable'
  BY <1>1, <1>3 DEF AckedReadable
<1>9. OrphansCounted'
  <2>1. Kept' = Kept
    BY <1>1, <1>2, <1>3 DEF Kept
  <2>2. QED BY <1>1, <2>1, NoMoreOrphans DEF BrokerTypeOK
<1>10. QED BY <1>4, <1>5, <1>6, <1>7, <1>8, <1>9

\* What every stop has in common.
LEMMA StopIs ==
  ASSUME RegistryInv, Stop
  PROVE  /\ up /\ ~up' /\ up' \in BOOLEAN /\ topics' = <<>> /\ topics' \in Seq(TopicEntry)
         /\ faults' = faults /\ reached' = reached /\ unseen' = unseen
         /\ crashes' = crashes + 1 /\ crashes' \in 0 .. MaxCrashes
         /\ faults' + crashes' = faults + crashes + 1
         /\ Kept' = unseen \cup Directories(Listed')
         /\ Homes(topics') = {} /\ Directories(topics') = {}
<1>1. Homes(<<>>) = {} /\ Directories(<<>>) = {}
  BY SoundEmpty
<1>2. <<>> \in Seq(TopicEntry)
  BY EmptySeq
<1>3. /\ up /\ up' = FALSE /\ topics' = <<>> /\ faults' = faults /\ reached' = reached
      /\ unseen' = unseen
      /\ crashes' = crashes + 1 /\ crashes < MaxCrashes
  BY DEF Stop
<1>4. crashes' \in 0 .. MaxCrashes /\ faults' + crashes' = faults + crashes + 1
  BY <1>3, BrokerAssumption DEF RegistryInv, BrokerTypeOK
<1>5. Kept' = unseen \cup Directories(Listed')
  BY <1>3 DEF Kept
<1>6. QED BY <1>1, <1>2, <1>3, <1>4, <1>5

\* The invariant is preserved by Crash.
LEMMA CrashKeeps ==
  ASSUME RegistryInv, Crash
  PROVE  RegistryInv'
<1> USE DEF RegistryInv
<1>1. meta' = meta /\ dirs' = dirs /\ made' = made /\ Stop
      /\ created' = created /\ deleted' = deleted
  BY DEF Crash
<1>2. Listed' = Listed
  BY <1>1 DEF Listed
<1>3. BrokerTypeOK'
  BY <1>1, StopIs DEF BrokerTypeOK
<1>4. ListsSound'
  BY <1>1, <1>2, StopIs, SoundEmpty DEF ListsSound, Unreached
<1>5. DirectoriesNumbered'
  BY <1>1, StopIs DEF DirectoriesNumbered, TopicsHaveDirectories
<1>6. AnswersHold'
  BY <1>1, <1>2, StopIs, AnswersUnsaid
<1>7. AckedReadable'
  BY <1>1 DEF AckedReadable
<1>8. OrphansCounted'
  <2>1. dirs' \ Kept' \subseteq (dirs \ Kept) \cup {0}
    BY <1>1, <1>2, StopIs DEF Kept
  <2>2. QED BY <1>1, <2>1, StopIs, OneMoreOrphan
<1>9. QED BY <1>3, <1>4, <1>5, <1>6, <1>7, <1>8

\* The invariant is preserved by CrashInCreate, whatever flush had done.
LEMMA CrashInCreateKeeps ==
  ASSUME RegistryInv, NEW n \in Name, CrashInCreate(n)
  PROVE  RegistryInv'
<1> USE DEF RegistryInv
<1> DEFINE ts == Append(topics, NewTopic(n))
<1>1. /\ made' = made + 1 /\ made < MaxDirs /\ dirs' = dirs \cup {made + 1}
      /\ meta' \in Unwritten \/ meta' = ts
      /\ SaysNothing(n) /\ Stop
  BY DEF CrashInCreate
<1>2. n \notin Names(topics)
  BY Found DEF CrashInCreate, BrokerTypeOK
<1>3. /\ Sound(ts, made', reached')
      /\ Homes(ts) = Homes(topics) \cup {<<n, made + 1>>}
      /\ Directories(ts) = Directories(topics) \cup {made + 1}
  BY <1>1, <1>2, Appended, StopIs DEF ListsSound
<1> HIDE DEF ts
<1>4. /\ Listed' \in {Listed, ts}
      /\ meta' \in {Absent, Truncated} \cup Seq(TopicEntry)
      /\ meta \notin {Absent, Truncated} => meta' \notin {Absent, Truncated}
  BY <1>1, <1>3, UnwrittenKeeps, WrittenLists DEF Sound
<1>5. BrokerTypeOK'
  <2>1. created' \in [Name -> 0 .. MaxDirs] /\ deleted' \subseteq Name
    BY <1>1, Said
  <2>2. made' \in 0 .. MaxDirs /\ dirs' \subseteq Dir
    BY <1>1, BrokerAssumption DEF BrokerTypeOK, Dir
  <2>3. QED BY <1>1, <1>4, <2>1, <2>2, StopIs DEF BrokerTypeOK
<1>6. ListsSound'
  <2>1. Sound(Listed, made', reached')
    BY <1>1, SoundLater, StopIs DEF ListsSound, BrokerTypeOK
  <2>2. Sound(Listed', made', reached')
    BY <1>3, <1>4, <2>1
  <2>3. \A d \in Dir : d > made + 1 => d > made
    BY DEF Dir, BrokerTypeOK
  <2>4. Unreached'
    BY <1>1, <2>3, StopIs DEF ListsSound, Unreached
  <2>5. QED BY <1>1, <2>2, <2>4, StopIs, SoundEmpty DEF ListsSound
<1>7. DirectoriesNumbered'
  BY <1>1, StopIs DEF DirectoriesNumbered, TopicsHaveDirectories, BrokerTypeOK
<1>8. AnswersHold'
  <2>1. made \in Nat /\ made' \in Nat /\ made <= made'
    BY <1>1 DEF BrokerTypeOK
  <2>2. ASSUME NEW m \in Name \ {n}
        PROVE  AnswerHolds(m)'
    <3>1. created'[m] = created[m] /\ (m \in deleted' => m \in deleted)
      BY <1>1, Said
    <3>2. QED BY <1>1, <1>3, <1>4, <2>1, <3>1, OtherHolds, StopIs
  <2>3. AnswerHolds(n)'
    BY <1>1, <1>6, <2>1, NothingHolds
  <2>4. QED BY <2>2, <2>3 DEF AnswersHold
<1>9. AckedReadable'
  BY <1>1, <1>4, NothingReadable
<1>10. OrphansCounted'
  <2>1. dirs' \ Kept' \subseteq (dirs \ Kept) \cup {made + 1}
    BY <1>1, <1>3, <1>4, StopIs DEF Kept
  <2>2. QED BY <1>1, <2>1, StopIs, OneMoreOrphan
<1>11. QED BY <1>5, <1>6, <1>7, <1>8, <1>9, <1>10

\* The invariant is preserved by CrashInDelete, whatever flush had done.
LEMMA CrashInDeleteKeeps ==
  ASSUME RegistryInv, NEW n \in Name, CrashInDelete(n)
  PROVE  RegistryInv'
<1> USE DEF RegistryInv
<1> DEFINE ts == RemoveAt(topics, Position(n))
           d == topics[Position(n)].dir
<1>1. /\ made' = made /\ dirs' = dirs \ {d}
      /\ meta' \in Unwritten \/ meta' = ts
      /\ SaysNothing(n) /\ Stop
  BY DEF CrashInDelete
<1>2. /\ Sound(ts, made, reached)
      /\ Homes(ts) = {h \in Homes(topics) : h[1] # n}
      /\ Directories(ts) = Directories(topics) \ {d}
  BY Deleted DEF CrashInDelete, ListsSound
<1> HIDE DEF ts, d
<1>3. /\ Listed' \in {Listed, ts}
      /\ meta' \in {Absent, Truncated} \cup Seq(TopicEntry)
      /\ meta \notin {Absent, Truncated} => meta' \notin {Absent, Truncated}
  BY <1>1, <1>2, UnwrittenKeeps, WrittenLists DEF Sound
<1>4. BrokerTypeOK'
  BY <1>1, <1>3, Said, StopIs DEF BrokerTypeOK
<1>5. ListsSound'
  BY <1>1, <1>2, <1>3, StopIs, SoundEmpty DEF ListsSound, Unreached
<1>6. DirectoriesNumbered'
  BY <1>1, StopIs DEF DirectoriesNumbered, TopicsHaveDirectories
<1>7. AnswersHold'
  <2>1. made \in Nat /\ made' \in Nat /\ made <= made'
    BY <1>1 DEF BrokerTypeOK
  <2>2. ASSUME NEW m \in Name \ {n}
        PROVE  AnswerHolds(m)'
    <3>1. created'[m] = created[m] /\ (m \in deleted' => m \in deleted)
      BY <1>1, Said
    <3>2. QED BY <1>1, <1>2, <1>3, <2>1, <3>1, OtherHolds, StopIs
  <2>3. AnswerHolds(n)'
    BY <1>1, <1>5, <2>1, NothingHolds
  <2>4. QED BY <2>2, <2>3 DEF AnswersHold
<1>8. AckedReadable'
  BY <1>1, <1>3, NothingReadable
<1>9. OrphansCounted'
  <2>1. dirs' \ Kept' \subseteq (dirs \ Kept) \cup {d}
    BY <1>1, <1>2, <1>3, StopIs DEF Kept
  <2>2. QED BY <1>1, <2>1, StopIs, OneMoreOrphan
<1>10. QED BY <1>4, <1>5, <1>6, <1>7, <1>8, <1>9

\* The invariant is preserved by CrashInConsume.
LEMMA CrashInConsumeKeeps ==
  ASSUME RegistryInv, NEW n \in Name, NEW g \in Group, NEW k \in 0 .. 1,
         CrashInConsume(n, g, k)
  PROVE  RegistryInv'
<1> USE DEF RegistryInv
<1> DEFINE ts == PollOf(n, g, k)
<1>1. /\ made' = made /\ dirs' = dirs /\ meta' = ts /\ Stop
      /\ created' = created /\ deleted' = deleted /\ Pollable(n, g, k)
  BY DEF CrashInConsume
<1>2. /\ Sound(ts, made, reached)
      /\ Homes(ts) = Homes(topics)
      /\ Directories(ts) = Directories(topics)
  BY <1>1, PolledSound
<1> HIDE DEF ts
<1>3. /\ Listed' = ts /\ meta' \in {Absent, Truncated} \cup Seq(TopicEntry)
      /\ meta' \notin {Absent, Truncated}
  BY <1>1, <1>2, WrittenLists DEF Sound
<1>4. BrokerTypeOK'
  BY <1>1, <1>3, StopIs DEF BrokerTypeOK
<1>5. ListsSound'
  BY <1>1, <1>2, <1>3, StopIs, SoundEmpty DEF ListsSound, Unreached
<1>6. DirectoriesNumbered'
  BY <1>1, StopIs DEF DirectoriesNumbered, TopicsHaveDirectories
<1>7. AnswersHold'
  BY <1>1, <1>2, <1>3, StopIs, AnswersUnsaid
<1>8. AckedReadable'
  BY <1>3 DEF AckedReadable
<1>9. OrphansCounted'
  <2>1. dirs' \ Kept' \subseteq (dirs \ Kept) \cup {0}
    BY <1>1, <1>2, <1>3, StopIs DEF Kept
  <2>2. QED BY <1>1, <2>1, StopIs, OneMoreOrphan
<1>10. QED BY <1>4, <1>5, <1>6, <1>7, <1>8, <1>9

\* The invariant is preserved by Open: the file becomes the memory.
LEMMA OpenKeeps ==
  ASSUME RegistryInv, Open
  PROVE  RegistryInv'
<1> USE DEF RegistryInv
<1>1. /\ ~up /\ up' /\ topics' = Listed /\ dirs' = dirs \cup Directories(Listed)
      /\ meta' = meta /\ made' = made /\ reached' = reached
      /\ created' = created /\ deleted' = deleted
      /\ unseen' = unseen \ Directories(Listed)
      /\ faults' = faults /\ crashes' = crashes /\ up' \in BOOLEAN
  BY DEF Open
<1>2. Listed' = Listed /\ Listed \in Seq(TopicEntry)
  BY <1>1 DEF Listed, ListsSound, Sound
<1>3. Directories(Listed) \subseteq 1 .. made
  BY DEF ListsSound, Sound
<1>4. 1 .. made \subseteq Dir
  BY BrokerAssumption DEF Dir, BrokerTypeOK
<1>5. BrokerTypeOK'
  BY <1>1, <1>2, <1>3, <1>4 DEF BrokerTypeOK
<1>6. ListsSound'
  BY <1>1, <1>2 DEF ListsSound, Unreached
<1>7. DirectoriesNumbered'
  BY <1>1, <1>2, <1>3 DEF DirectoriesNumbered, TopicsHaveDirectories
<1>8. AnswersHold'
  <2>1. SUFFICES ASSUME NEW n \in Name
                 PROVE  AnswerHolds(n)'
    BY DEF AnswersHold
  <2>2. AnswerHolds(n)
    BY DEF AnswersHold
  <2>3. ASSUME created[n] \notin {0} \cup unseen'
        PROVE  <<n, created[n]>> \in Homes(Listed)
    <3>1. CASE created[n] \notin unseen
      BY <2>2, <2>3, <3>1 DEF AnswerHolds
    <3>2. CASE created[n] \in unseen
      <4>1. PICK m : <<m, created[n]>> \in Homes(Listed)
        BY <1>1, <2>3, <3>2, HomesTell
      <4>2. m = n
        BY <2>2, <4>1 DEF AnswerHolds
      <4>3. QED BY <4>1, <4>2
    <3>3. QED BY <3>1, <3>2
  <2>4. QED BY <1>1, <1>2, <2>2, <2>3 DEF AnswerHolds
<1>9. AckedReadable'
  BY <1>1 DEF AckedReadable
<1>10. OrphansCounted'
  <2>1. dirs' \ Kept' \subseteq dirs \ Kept
    BY <1>1, <1>2 DEF Kept
  <2>2. QED BY <1>1, <2>1, NoMoreOrphans DEF BrokerTypeOK
<1>11. QED BY <1>5, <1>6, <1>7, <1>8, <1>9, <1>10

\* The invariant is preserved by OpenStops: the directories belong to the file.
LEMMA OpenStopsKeeps ==
  ASSUME RegistryInv, OpenStops
  PROVE  RegistryInv'
<1> USE DEF RegistryInv
<1>1. /\ ~up /\ up' = up /\ topics' = topics /\ meta' = meta /\ made' = made
      /\ created' = created /\ deleted' = deleted /\ unseen' = unseen
      /\ reached' = reached /\ faults' = faults /\ crashes' = crashes /\ Listed' = Listed
  BY DEF OpenStops, Listed
<1>2. dirs \subseteq dirs' /\ dirs' \subseteq dirs \cup Directories(Listed)
  <2>1. PICK k \in DOMAIN Listed : dirs' = dirs \cup Directories(SubSeq(Listed, 1, k))
    BY DEF OpenStops
  <2>2. Listed \in Seq(TopicEntry) /\ k \in 1 .. Len(Listed)
    BY <2>1 DEF ListsSound, Sound
  <2>3. /\ DOMAIN SubSeq(Listed, 1, k) = 1 .. k
        /\ \A i \in 1 .. k : SubSeq(Listed, 1, k)[i] = Listed[i]
    BY <2>2, SubSeqProperties
  <2>4. \A i \in 1 .. k : i \in DOMAIN Listed
    BY <2>2
  <2>5. Directories(SubSeq(Listed, 1, k)) \subseteq Directories(Listed)
    BY <2>3, <2>4 DEF Directories
  <2>6. QED BY <2>1, <2>5
<1>3. Directories(Listed) \subseteq 1 .. made
  BY DEF ListsSound, Sound
<1>4. BrokerTypeOK'
  <2>1. 1 .. made \subseteq Dir
    BY BrokerAssumption DEF Dir, BrokerTypeOK
  <2>2. QED BY <1>1, <1>2, <1>3, <2>1 DEF BrokerTypeOK
<1>5. ListsSound'
  BY <1>1 DEF ListsSound, Unreached
<1>6. DirectoriesNumbered'
  BY <1>1, <1>2, <1>3 DEF DirectoriesNumbered, TopicsHaveDirectories
<1>7. AnswersHold'
  BY <1>1 DEF AnswersHold, AnswerHolds
<1>8. AckedReadable'
  BY <1>1 DEF AckedReadable
<1>9. OrphansCounted'
  <2>1. dirs' \ Kept' \subseteq dirs \ Kept
    BY <1>1, <1>2 DEF Kept
  <2>2. QED BY <1>1, <2>1, NoMoreOrphans DEF BrokerTypeOK
<1>10. QED BY <1>4, <1>5, <1>6, <1>7, <1>8, <1>9

\* The invariant is preserved by OpenUnread: what the file names is unseen.
LEMMA OpenUnreadKeeps ==
  ASSUME RegistryInv, OpenUnread
  PROVE  RegistryInv'
<1> USE DEF RegistryInv
<1>1. /\ ~up /\ up' /\ up' \in BOOLEAN /\ topics' = <<>> /\ Listed' = Listed
      /\ unseen' = unseen \cup Directories(Listed)
      /\ meta' = meta /\ dirs' = dirs /\ made' = made
      /\ created' = created /\ deleted' = deleted /\ reached' = reached
      /\ faults' = faults + 1 /\ faults < MaxFaults /\ crashes' = crashes
  BY DEF OpenUnread, Fault, Listed
<1>2. <<>> \in Seq(TopicEntry) /\ Homes(topics') = {} /\ Names(topics') = {}
      /\ Directories(topics') = {}
  BY <1>1, EmptySeq, SoundEmpty
<1>3. Directories(Listed) \subseteq Dir
  BY BrokerAssumption DEF ListsSound, Sound, Dir, BrokerTypeOK
<1>4. BrokerTypeOK'
  BY <1>1, <1>2, <1>3, BrokerAssumption DEF BrokerTypeOK
<1>5. ListsSound'
  BY <1>1, SoundEmpty DEF ListsSound, Unreached
<1>6. DirectoriesNumbered'
  BY <1>1, <1>2 DEF DirectoriesNumbered, TopicsHaveDirectories
<1>7. AnswersHold'
  <2>1. SUFFICES ASSUME NEW n \in Name
                 PROVE  AnswerHolds(n)'
    BY DEF AnswersHold
  <2>2. AnswerHolds(n)
    BY DEF AnswersHold
  <2>3. created[n] \in {0} \cup unseen'
    BY <1>1, <2>2, HomesTell DEF AnswerHolds
  <2>4. QED BY <1>1, <1>2, <2>2, <2>3 DEF AnswerHolds
<1>8. AckedReadable'
  BY <1>1 DEF AckedReadable
<1>9. OrphansCounted'
  <2>1. dirs' \ Kept' \subseteq dirs \ Kept
    BY <1>1, <1>2 DEF Kept
  <2>2. QED BY <1>1, <2>1, NoMoreOrphans DEF BrokerTypeOK
<1>10. QED BY <1>4, <1>5, <1>6, <1>7, <1>8, <1>9

\* An empty broker without a file satisfies the invariant.
LEMMA RegistryStarts == BrokerInit => RegistryInv
<1> SUFFICES ASSUME BrokerInit
             PROVE  RegistryInv
  OBVIOUS
<1> USE BrokerAssumption DEF BrokerInit
<1>1. Listed = <<>> /\ topics = <<>>
  BY DEF Listed
<1>2. BrokerTypeOK
  BY EmptySeq DEF BrokerTypeOK
<1>3. ListsSound
  BY <1>1, SoundEmpty DEF ListsSound, Unreached
<1>4. DirectoriesNumbered
  BY SoundEmpty DEF DirectoriesNumbered, TopicsHaveDirectories
<1>5. AnswersHold
  BY <1>1, SoundEmpty DEF AnswersHold, AnswerHolds
<1>6. AckedReadable
  BY DEF AckedReadable
<1>7. OrphansCounted
  <2>1. dirs \ Kept = {}
    OBVIOUS
  <2>2. QED BY <2>1, FS_EmptySet DEF OrphansCounted
<1>8. QED BY <1>2, <1>3, <1>4, <1>5, <1>6, <1>7 DEF RegistryInv

\* Every step preserves the invariant.
LEMMA RegistryStep == RegistryInv /\ [BrokerNext]_brokerVars => RegistryInv'
<1> SUFFICES ASSUME RegistryInv, [BrokerNext]_brokerVars
             PROVE  RegistryInv'
  OBVIOUS
<1>1. ASSUME NEW n \in Name, NEW g \in Group, NEW k \in 0 .. 1,
             Consume(n, g, k) \/ ConsumeFails(n, g, k) \/ CrashInConsume(n, g, k)
      PROVE  RegistryInv'
  BY <1>1, ConsumeKeeps, ConsumeFailsKeeps, CrashInConsumeKeeps
<1>2. ASSUME NEW n \in Name,
             \/ CreateTopic(n) \/ DeleteTopic(n)
             \/ CreateFails(n) \/ DeleteFails(n)
             \/ CrashInCreate(n) \/ CrashInDelete(n)
      PROVE  RegistryInv'
  BY <1>2, CreateKeeps, DeleteKeeps, CreateFailsKeeps, DeleteFailsKeeps,
     CrashInCreateKeeps, CrashInDeleteKeeps
<1>3. CASE Crash
  BY <1>3, CrashKeeps
<1>4. CASE Open \/ OpenStops \/ OpenUnread
  BY <1>4, OpenKeeps, OpenStopsKeeps, OpenUnreadKeeps
<1>5. CASE UNCHANGED brokerVars
  BY <1>5 DEF brokerVars, RegistryInv, BrokerTypeOK, ListsSound, Unreached,
     DirectoriesNumbered, TopicsHaveDirectories, AnswersHold, AnswerHolds, AckedReadable,
     OrphansCounted, Kept, Listed
<1>6. QED BY <1>1, <1>2, <1>3, <1>4, <1>5 DEF BrokerNext

\* The registry of Broker::run: memory and lucidmq.meta are two sound lists of
\* topics at all times, and neither contradicts an answer.
THEOREM RegistryInvariant == BrokerSpec => []RegistryInv
BY RegistryStarts, RegistryStep, PTL DEF BrokerSpec

-----------------------------------------------------------------------------
\* The variables of the registry keep their types.
THEOREM BrokerTypes == BrokerSpec => []BrokerTypeOK
<1>1. RegistryInv => BrokerTypeOK
  BY DEF RegistryInv
<1>2. QED BY <1>1, RegistryInvariant, PTL

\* No two topics share a name or a directory, in memory or in lucidmq.meta,
\* through any number of creates, deletes, failed flushes and crashes.
THEOREM BrokerDistinct == BrokerSpec => []TopicsDistinct
<1>1. RegistryInv => TopicsDistinct
  BY DEF RegistryInv, ListsSound, Sound, TopicsDistinct
<1>2. QED BY <1>1, RegistryInvariant, PTL

\* No topic is served whose directory is gone: remove_dir_all of one topic never
\* takes the directory of another, and Broker::new makes the missing ones.
THEOREM BrokerDirectories == BrokerSpec => []TopicsHaveDirectories
<1>1. RegistryInv => TopicsHaveDirectories
  BY DEF RegistryInv, DirectoriesNumbered
<1>2. QED BY <1>1, RegistryInvariant, PTL

\* A create answered with success is what describe and all answer from then on,
\* in the directory it made, through failures, stops and restarts, except while
\* the file that names it could not be read at a start; an answered delete holds
\* without exception.
THEOREM BrokerAcked == BrokerSpec => []AckedServed
<1>1. ASSUME RegistryInv
      PROVE  AckedServed
  <2>1. SUFFICES ASSUME up, NEW n \in Name
                 PROVE  /\ created[n] \notin {0} \cup unseen =>
                             /\ Describe(n).success /\ All.success /\ n \in All.names
                             /\ topics[Position(n)].dir = created[n]
                        /\ n \in deleted => ~Describe(n).success /\ n \notin All.names
    BY DEF AckedServed
  <2>2. All.names = Names(topics)
    BY DEF All, Names
  <2>3. n \in Names(topics) => topics # <<>>
    BY SoundEmpty
  <2>4. All.success = (topics # <<>>)
    BY DEF All
  <2>5. topics \in Seq(TopicEntry)
    BY <1>1 DEF RegistryInv, BrokerTypeOK
  <2>6. Describe(n).success <=> n \in Names(topics)
    <3>1. Position(n) = 0 <=> n \notin Names(topics)
      BY <2>5, Found
    <3>2. QED BY <3>1 DEF Describe
  <2>7. AnswerHolds(n)
    BY <1>1 DEF RegistryInv, AnswersHold
  <2>8. ASSUME created[n] \notin {0} \cup unseen
        PROVE  n \in Names(topics) /\ topics[Position(n)].dir = created[n]
    <3>1. <<n, created[n]>> \in Homes(topics)
      BY <2>1, <2>7, <2>8 DEF AnswerHolds
    <3>2. PICK i \in DOMAIN topics : topics[i].name = n /\ topics[i].dir = created[n]
      BY <3>1 DEF Homes
    <3>3. n \in Names(topics)
      BY <3>2 DEF Names
    <3>4. Position(n) \in DOMAIN topics /\ topics[Position(n)].name = n
      BY <2>5, <3>3, Found
    <3>5. i = Position(n)
      BY <1>1, <3>2, <3>4 DEF RegistryInv, ListsSound, Sound
    <3>6. QED BY <3>2, <3>3, <3>5
  <2>9. n \in deleted => n \notin Names(topics)
    BY <2>7 DEF AnswerHolds
  <2>10. QED BY <2>2, <2>3, <2>4, <2>6, <2>8, <2>9
<1>2. QED BY <1>1, RegistryInvariant, PTL

\* A list that is written while the broker runs, and keeps the home that memory
\* has for n, forgets the directory of its answered create only if it was unseen.
LEMMA WrittenForgets ==
  ASSUME RegistryInv, up, NEW n \in Name,
         created[n] \in Directories(Listed) \ Directories(Listed'),
         \A h \in Homes(topics) : h[1] = n => h \in Homes(Listed')
  PROVE  created[n] \in unseen
<1>1. AnswerHolds(n)
  BY DEF RegistryInv, AnswersHold
<1>2. created[n] # 0
  <2>1. Directories(Listed) \subseteq 1 .. made
    BY DEF RegistryInv, ListsSound, Sound
  <2>2. QED BY <2>1
<1>3. <<n, created[n]>> \notin Homes(topics)
  BY HomesTell
<1>4. QED BY <1>1, <1>2, <1>3 DEF AnswerHolds

\* lucidmq.meta loses the topic of an answered create, which no delete followed,
\* only to a flush of a broker whose start could not read the file.
THEOREM BrokerForgets == BrokerSpec => OnlyUnseenForgotten
<1> DEFINE Forgets(n) == /\ created[n] \in Directories(Listed) \ Directories(Listed')
                         /\ created'[n] = created[n]
           Loses == \A n \in Name : Forgets(n) => up /\ created[n] \in unseen
<1>1. ASSUME RegistryInv, BrokerNext
      PROVE  Loses
  <2>1. SUFFICES ASSUME NEW n \in Name, Forgets(n)
                 PROVE  up /\ created[n] \in unseen
    OBVIOUS
  <2>2. Listed' # Listed /\ created[n] # 0
    <3>1. Directories(Listed) \subseteq 1 .. made
      BY <1>1 DEF RegistryInv, ListsSound, Sound
    <3>2. QED BY <2>1, <3>1
  <2>3. ASSUME meta' \in Unwritten
        PROVE  FALSE
    BY <1>1, <2>2, <2>3, UnwrittenKeeps DEF RegistryInv
  <2>4. ASSUME up, NEW m \in Name, m = n => created'[n] = 0,
               NEW ts, Listed' = ts,
               \A h \in Homes(topics) : h[1] # m => h \in Homes(ts)
        PROVE  up /\ created[n] \in unseen
    <3>1. m # n
      BY <2>1, <2>2, <2>4
    <3>2. QED BY <1>1, <2>1, <2>4, <3>1, WrittenForgets
  <2>5. ASSUME NEW m \in Name, Position(m) = 0, made < MaxDirs
        PROVE  LET ts == Append(topics, NewTopic(m)) IN
               ts \in Seq(TopicEntry) /\ \A h \in Homes(topics) : h \in Homes(ts)
    <3>1. m \notin Names(topics)
      BY <1>1, <2>5, Found DEF RegistryInv, BrokerTypeOK
    <3>2. QED BY <1>1, <2>5, <3>1, Appended DEF RegistryInv, ListsSound, Sound
  <2>6. ASSUME NEW m \in Name, Position(m) # 0
        PROVE  LET ts == RemoveAt(topics, Position(m)) IN
               ts \in Seq(TopicEntry) /\ \A h \in Homes(topics) : h[1] # m => h \in Homes(ts)
    BY <1>1, <2>6, Deleted DEF RegistryInv, ListsSound, Sound
  <2>7. ASSUME NEW m \in Name, NEW g \in Group, NEW k \in 0 .. 1, Pollable(m, g, k),
               up, meta' = PollOf(m, g, k)
        PROVE  up /\ created[n] \in unseen
    <3>1. PollOf(m, g, k) \in Seq(TopicEntry) /\ Homes(PollOf(m, g, k)) = Homes(topics)
      BY <1>1, <2>7, PolledSound DEF RegistryInv, Sound
    <3>2. Listed' = PollOf(m, g, k)
      BY <2>7, <3>1, WrittenLists
    <3>3. QED BY <1>1, <2>1, <2>7, <3>1, <3>2, WrittenForgets
  <2>8. ASSUME up, NEW m \in Name, created' = [created EXCEPT ![m] = 0],
               Position(m) = 0, made < MaxDirs, meta' = Append(topics, NewTopic(m))
        PROVE  up /\ created[n] \in unseen
    <3>1. m = n => created'[n] = 0
      BY <1>1, <2>8 DEF RegistryInv, BrokerTypeOK
    <3>2. Listed' = Append(topics, NewTopic(m))
      BY <2>5, <2>8, WrittenLists
    <3>3. QED BY <2>4, <2>5, <2>8, <3>1, <3>2
  <2>9. ASSUME up, NEW m \in Name, created' = [created EXCEPT ![m] = 0],
               Position(m) # 0, meta' = RemoveAt(topics, Position(m))
        PROVE  up /\ created[n] \in unseen
    <3>1. m = n => created'[n] = 0
      BY <1>1, <2>9 DEF RegistryInv, BrokerTypeOK
    <3>2. Listed' = RemoveAt(topics, Position(m))
      BY <2>6, <2>9, WrittenLists
    <3>3. QED BY <2>4, <2>6, <2>9, <3>1, <3>2
  <2>10. ASSUME NEW m \in Name, CreateTopic(m)
         PROVE  up /\ created[n] \in unseen
    <3>1. Position(m) = 0 /\ made < MaxDirs /\ up /\ meta' = Append(topics, NewTopic(m))
      BY <2>10 DEF CreateTopic
    <3>2. Listed' = Append(topics, NewTopic(m))
      BY <2>5, <3>1, WrittenLists
    <3>3. \A h \in Homes(topics) : h \in Homes(Listed')
      BY <2>5, <3>1, <3>2
    <3>4. QED BY <1>1, <2>1, <3>1, <3>3, WrittenForgets
  <2>11. ASSUME NEW m \in Name, DeleteTopic(m)
         PROVE  up /\ created[n] \in unseen
    BY <2>9, <2>11 DEF DeleteTopic, SaysDeleted
  <2>12. ASSUME NEW m \in Name, CrashInCreate(m)
         PROVE  up /\ created[n] \in unseen
    BY <2>3, <2>8, <2>12 DEF CrashInCreate, Stop, SaysNothing
  <2>13. ASSUME NEW m \in Name, CrashInDelete(m)
         PROVE  up /\ created[n] \in unseen
    BY <2>3, <2>9, <2>13 DEF CrashInDelete, Stop, SaysNothing
  <2>14. ASSUME NEW m \in Name, NEW g \in Group, NEW k \in 0 .. 1,
                \/ Consume(m, g, k) \/ ConsumeFails(m, g, k) \/ CrashInConsume(m, g, k)
         PROVE  up /\ created[n] \in unseen
    <3>1. meta' \in Unwritten \cup {PollOf(m, g, k)} /\ Pollable(m, g, k)
      BY <2>14 DEF Consume, ConsumeFails, CrashInConsume, Unwritten
    <3>2. up
      BY <3>1 DEF Pollable
    <3>3. QED BY <2>3, <2>7, <3>1, <3>2
  <2>15. CASE \/ Crash \/ Open \/ OpenStops \/ OpenUnread
              \/ \E m \in Name : CreateFails(m) \/ DeleteFails(m)
    <3>1. meta' \in Unwritten
      BY <2>15 DEF Crash, Open, OpenStops, OpenUnread, CreateFails, DeleteFails, Unwritten
    <3>2. QED BY <2>3, <3>1
  <2>16. QED
    BY <1>1, <2>10, <2>11, <2>12, <2>13, <2>14, <2>15 DEF BrokerNext
<1>2. UNCHANGED brokerVars => Loses
  BY DEF brokerVars, Listed
<1>3. RegistryInv /\ [BrokerNext]_brokerVars => [Loses]_brokerVars
  BY <1>1, <1>2
<1>4. QED BY <1>3, RegistryInvariant, PTL DEF BrokerSpec, OnlyUnseenForgotten

\* After the first answered create or delete, no failure and no crash leaves
\* a lucidmq.meta that Broker::new cannot decode.
THEOREM BrokerReadable == BrokerSpec => []AckedReadable
<1>1. RegistryInv => AckedReadable
  BY DEF RegistryInv
<1>2. QED BY <1>1, RegistryInvariant, PTL

\* The offset that answers to a group reached is in lucidmq.meta, although
\* other flushes failed in between.
THEOREM BrokerReached == BrokerSpec => []ReachedSaved
<1>1. RegistryInv => ReachedSaved
  BY DEF RegistryInv, ListsSound, Sound, ReachedSaved
<1>2. QED BY <1>1, RegistryInvariant, PTL

\* At most one directory is orphaned by each failure and each crash, besides
\* those that a file named which a start could not read: none by creates and
\* deletes that succeed.
THEOREM BrokerLeaks == BrokerSpec => []LeaksBounded
<1>1. ASSUME RegistryInv
      PROVE  LeaksBounded
  <2> DEFINE leaked == dirs \ (Directories(topics) \cup Directories(Listed) \cup unseen)
  <2>1. leaked \subseteq dirs \ Kept
    BY DEF Kept
  <2>2. IsFiniteSet(dirs \ Kept) /\ Cardinality(dirs \ Kept) \in Nat
    BY <1>1, OrphansFinite DEF RegistryInv
  <2>3. IsFiniteSet(leaked) /\ Cardinality(leaked) <= Cardinality(dirs \ Kept)
    BY <2>1, <2>2, FS_Subset
  <2>4. Cardinality(leaked) \in Nat
    BY <2>3, FS_CardinalityType
  <2>5. Cardinality(dirs \ Kept) <= faults + crashes /\ faults \in Int /\ crashes \in Int
    BY <1>1 DEF RegistryInv, OrphansCounted, BrokerTypeOK
  <2> HIDE DEF leaked
  <2>6. Cardinality(leaked) <= faults + crashes
    BY <2>2, <2>3, <2>4, <2>5
  <2>7. QED BY <2>6 DEF LeaksBounded, leaked
<1>2. QED BY <1>1, RegistryInvariant, PTL

=============================================================================
