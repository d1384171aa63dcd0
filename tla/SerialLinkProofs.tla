-------------------------- MODULE SerialLinkProofs --------------------------
(***************************************************************************)
(* Two linked units never disagree about a round, and the barrier holds,   *)
(* for every set of words and modes and any number of connections.         *)
(***************************************************************************)
EXTENDS SerialLink, TLAPS, FiniteSetTheorems, SequenceTheorems

Succ(r) == (r + 1) % RoundMod
FrameOf(r, i, w) == [round |-> r, id |-> i, word |-> w]

(* A port on which nothing has been transferred since its link was set up. *)
Fresh(p) ==
  /\ p.round = 0
  /\ p.slots = [i \in Id |-> Empty]
  /\ p.outbound = NoFrame
  /\ p.last = NoResult

(* The words of its latest round are in, and they are its latest result. *)
Complete(p) ==
  /\ p.slots[0] # Empty
  /\ p.slots[1] # Empty
  /\ p.last = [round |-> p.round, words |-> p.slots]

(* The parent has put its word in and waits for the child's. *)
Waiting(p) ==
  /\ p.busy
  /\ p.slots[0] # Empty
  /\ p.slots[1] = Empty
  /\ p.round = Succ(p.last.round)

(* Whether u's core is configured for the latest connection, and what its  *)
(* port holds of that connection.                                          *)
On(u) == carrier[u] # 0 /\ carrier[u] = session
Round(u) == IF On(u) THEN ports[u].round ELSE 0
Slots(u) == IF On(u) THEN ports[u].slots ELSE [i \in Id |-> Empty]
Owed(u) == IF On(u) THEN ports[u].outbound ELSE NoFrame
Last(u) == IF On(u) THEN ports[u].last ELSE NoResult

Configured(u) ==
  /\ ports[u].connected <=> carrier[u] # 0
  /\ ~ports[u].connected => Fresh(ports[u])
  /\ ports[u].connected => ports[u].id = u /\ ports[u].count = 2
  /\ host[u] \in {"pump", "blocked"} => carrier[u] # 0

ParentSound ==
  /\ ports[0].outbound = NoFrame
  /\ \/ Fresh(ports[0])
     \/ Complete(ports[0]) /\ ~ports[0].busy
     \/ Waiting(ports[0])
  /\ host[0] = "guest" /\ carrier[0] # 0 => ~ports[0].busy

ChildSound ==
  /\ Fresh(ports[1]) \/ Complete(ports[1])
  /\ ports[1].outbound # NoFrame =>
       /\ host[1] = "pump"
       /\ ports[1].outbound = <<FrameOf(ports[1].round, 1, ports[1].slots[1])>>

(* At most one frame is on its way to a unit, the one the unit expects. *)
ParentExpects ==
  On(0) => \/ wire[0] = <<>>
           \/ /\ Waiting(ports[0])
              /\ \E w \in Word : wire[0] = <<FrameOf(ports[0].round, 1, w)>>

ChildExpects ==
  On(1) => \/ wire[1] = <<>>
           \/ /\ ports[1].outbound = NoFrame
              /\ \E w \in Word : wire[1] = <<FrameOf(Succ(ports[1].round), 0, w)>>

(* Where a round stands between two units whose connection stands. *)
Idle ==
  /\ wire[0] = <<>> /\ wire[1] = <<>> /\ Owed(1) = NoFrame
  /\ Last(0) = Last(1)
  /\ Last(0) = [round |-> Round(0), words |-> Slots(0)]

Asks ==
  /\ Slots(0)[0] # Empty
  /\ Slots(0)[1] = Empty
  /\ Round(0) = Succ(Last(0).round)

Asked ==
  /\ Asks
  /\ wire[0] = <<>> /\ wire[1] = <<FrameOf(Round(0), 0, Slots(0)[0])>> /\ Owed(1) = NoFrame
  /\ Last(1) = Last(0)

Agreed ==
  /\ Round(1) = Round(0)
  /\ Slots(1)[0] = Slots(0)[0]
  /\ Slots(1)[1] # Empty

Answering ==
  /\ Asks /\ Agreed
  /\ wire[0] = <<>> /\ wire[1] = <<>>
  /\ Owed(1) # NoFrame

Answered ==
  /\ Asks /\ Agreed
  /\ wire[0] = <<FrameOf(Round(0), 1, Slots(1)[1])>> /\ wire[1] = <<>>
  /\ Owed(1) = NoFrame

Sessions ==
  /\ \A u \in Id : carrier[u] <= session
  /\ session = 0 => ~up /\ wire[0] = <<>> /\ wire[1] = <<>>

LinkInv ==
  /\ TypeOK
  /\ Sessions
  /\ \A u \in Id : Configured(u)
  /\ ParentSound
  /\ ChildSound
  /\ IF up THEN Idle \/ Asked \/ Answering \/ Answered
     ELSE ParentExpects /\ ChildExpects
-----------------------------------------------------------------------------
LEMMA Constants ==
  /\ NoData \in Nat /\ Halfwords \subseteq Nat /\ 0 \in Halfwords
  /\ Count = 2 /\ RoundMod \in Nat /\ RoundMod > 1 /\ MaxSessions \in Nat
  /\ Id = {0, 1}
  BY SerialAssumption, LinkAssumption DEF Id

(* Rounds follow each other, and no round follows itself. *)
LEMMA Following ==
  ASSUME NEW r \in 0 .. RoundMod - 1
  PROVE  /\ Succ(r) \in 0 .. RoundMod - 1
         /\ Succ(r) # r
  <1>1. RoundMod \in Nat /\ RoundMod > 1
    BY Constants
  <1>2. CASE r + 1 < RoundMod
    BY <1>1, <1>2 DEF Succ
  <1>3. CASE r + 1 = RoundMod
    BY <1>1, <1>3 DEF Succ
  <1>. QED
    BY <1>1, <1>2, <1>3

(* What the registers hold are halfwords, or bytes of them. *)
LEMMA DataNumbers ==
  /\ Data \subseteq Nat
  /\ NoData \in Data
  /\ 0 \in Data
  /\ Halfwords \subseteq Data
  /\ \A d \in Data : Byte(d) \in Data
  <1>1. Halfwords \cup {NoData} \subseteq Nat
    BY Constants
  <1>2. \A h \in Nat : Byte(h) \in Nat /\ Byte(Byte(h)) = Byte(h)
    BY DEF Byte
  <1>3. Data \subseteq Nat
    BY <1>1, <1>2 DEF Data
  <1>4. ASSUME NEW d \in Data
        PROVE  Byte(d) \in Data
    <2>. DEFINE halves == Halfwords \cup {NoData}
    <2>1. CASE d \in halves
      BY <2>1 DEF Data
    <2>2. CASE \E h \in halves : d = Byte(h)
      <3>1. PICK h \in halves : d = Byte(h)
        BY <2>2
      <3>2. Byte(d) = d
        BY <1>1, <1>2, <3>1
      <3>. QED
        BY <3>2, <1>4
    <2>. QED
      BY <2>1, <2>2 DEF Data
  <1>. QED
    BY <1>3, <1>4, Constants DEF Data

LEMMA NoWord == Empty \notin Word
  BY DEF Word, Empty

(* How many of the words of a two-unit round are in. *)
LEMMA FilledWords ==
  ASSUME NEW p, p.count = 2
  PROVE  /\ Filled(p) < 2 <=> p.slots[0] = Empty \/ p.slots[1] = Empty
         /\ Filled(p) >= 2 <=> ~(p.slots[0] = Empty \/ p.slots[1] = Empty)
  <1>. DEFINE S == {i \in Id : i < p.count /\ p.slots[i] # Empty}
  <1>1. S = {i \in {0, 1} : p.slots[i] # Empty}
    BY Constants
  <1>. HIDE DEF S
  <1>2. CASE p.slots[0] = Empty /\ p.slots[1] = Empty
    <2>1. S = {}
      BY <1>1, <1>2
    <2>. QED
      BY <1>2, <2>1, FS_EmptySet DEF Filled, S
  <1>3. CASE p.slots[0] # Empty /\ p.slots[1] = Empty
    <2>1. S = {0}
      BY <1>1, <1>3
    <2>2. Cardinality(S) = 1
      BY <2>1, FS_Singleton
    <2>. QED
      BY <1>3, <2>2 DEF Filled, S
  <1>4. CASE p.slots[0] = Empty /\ p.slots[1] # Empty
    <2>1. S = {1}
      BY <1>1, <1>4
    <2>2. Cardinality(S) = 1
      BY <2>1, FS_Singleton
    <2>. QED
      BY <1>4, <2>2 DEF Filled, S
  <1>5. CASE p.slots[0] # Empty /\ p.slots[1] # Empty
    <2>1. S = {0} \cup {1}
      BY <1>1, <1>5
    <2>2. IsFiniteSet({0}) /\ Cardinality({0}) = 1
      BY FS_Singleton, Zenon
    <2>3. Cardinality(S) = 2
      BY <2>1, <2>2, 1 \notin {0}, FS_AddElement
    <2>. QED
      BY <1>5, <2>3 DEF Filled, S
  <1>. QED
    BY <1>2, <1>3, <1>4, <1>5

(* What a port is of a connection, but for the words and rounds on it. *)
SameEnd(p, q) ==
  /\ q.connected = p.connected
  /\ q.id = p.id
  /\ q.count = p.count

SameRound(p, q) ==
  /\ q.round = p.round
  /\ q.slots = p.slots
  /\ q.outbound = p.outbound
  /\ q.last = p.last

LEMMA PortFields ==
  ASSUME NEW p \in Port
  PROVE  /\ p.id \in Id /\ p.round \in 0 .. RoundMod - 1 /\ p.mode \in Modes
         /\ p.data \in [Id -> Data] /\ p.send \in Data
         /\ p.busy \in BOOLEAN /\ p.connected \in BOOLEAN
         /\ p.irq \in BOOLEAN /\ p.irqEnable \in BOOLEAN
         /\ p.slots \in [Id -> Word \cup {Empty}]
         /\ p.last.round \in 0 .. RoundMod - 1
         /\ p.last \in [round : 0 .. RoundMod - 1, words : [Id -> Word \cup {Empty}]]
         /\ p.outbound \in {NoFrame} \cup {<<f>> : f \in Frame}
         /\ p.count \in 0 .. Count
  BY DEF Port

(* The word a port contributes is one of the wire's. *)
LEMMA TxWordIsWord ==
  ASSUME NEW p \in Port
  PROVE  TxWord(p) \in Word
  <1>1. p.data[0] \in Data /\ p.data[1] \in Data /\ p.send \in Data
    BY PortFields, Constants
  <1>. QED
    BY <1>1, DataNumbers DEF TxWord, Word

(* A round that begins has the port's own word in, and that alone. *)
Begun(p, q, r, w) ==
  /\ q \in Port
  /\ q.busy
  /\ SameEnd(p, q)
  /\ q.round = r
  /\ q.slots = [i \in Id |-> IF i = p.id THEN w ELSE Empty]
  /\ q.outbound = <<FrameOf(r, p.id, w)>>
  /\ q.last = p.last

LEMMA RoundBegins ==
  ASSUME NEW p \in Port, p.count = 2, NEW r \in 0 .. RoundMod - 1
  PROVE  \E w \in Word : Begun(p, BeginRound(p, r), r, w)
  <1>. DEFINE ones == [i \in Id |-> NoData]
              reset == [p EXCEPT !.round = r, !.busy = TRUE, !.data = ones]
              w == TxWord(reset)
              own == [i \in Id |-> IF i = p.id THEN w ELSE Empty]
              frame == <<FrameOf(r, p.id, w)>>
              q == [reset EXCEPT !.slots = own, !.outbound = frame]
  <1>1. ones \in [Id -> Data]
    BY DataNumbers
  <1>. HIDE DEF ones
  <1>2. reset \in Port
    BY <1>1, Zenon DEF Port
  <1>3. w \in Word
    BY <1>2, TxWordIsWord, Zenon
  <1>4. SameEnd(p, reset) /\ reset.busy = TRUE /\ reset.round = r /\ reset.last = p.last
    BY DEF Port, SameEnd
  <1>. HIDE DEF reset, w
  <1>5. own \in [Id -> Word \cup {Empty}]
    BY <1>3
  <1>6. frame \in {<<f>> : f \in Frame}
    BY <1>3, PortFields DEF Frame, FrameOf
  <1>. HIDE DEF own, frame
  <1>7. q \in Port
    BY <1>2, <1>5, <1>6, Zenon DEF Port
  <1>8. /\ SameEnd(p, q) /\ q.busy = TRUE /\ q.round = r /\ q.last = p.last
        /\ q.slots = own /\ q.outbound = frame
    BY <1>2, <1>4 DEF Port, SameEnd
  <1>9. q.count = 2
    BY <1>8 DEF SameEnd
  <1>. HIDE DEF q
  <1>10. q.slots[0] = Empty \/ q.slots[1] = Empty
    BY <1>8, Constants DEF own
  <1>11. ~(Filled(q) >= q.count)
    BY <1>9, <1>10, FilledWords
  <1>12. BeginRound(p, r) = q
    BY <1>11, Zenon DEF BeginRound, CompleteIfFull, q, own, frame, reset, w, ones, FrameOf
  <1>13. Begun(p, q, r, w)
    BY <1>7, <1>8, Zenon DEF Begun, own, frame
  <1>. QED
    BY <1>3, <1>12, <1>13, Zenon

(* Taking a round's words writes the data registers and nothing else. *)
LEMMA WordsReceived ==
  ASSUME NEW p \in Port
  PROVE  /\ Received(p) \in Port
         /\ SameEnd(p, Received(p)) /\ SameRound(p, Received(p))
  <1>. DEFINE peer == p.slots[1 - p.id]
              low == IF peer = Empty THEN NoData ELSE peer[1]
              high == IF peer = Empty THEN NoData ELSE peer[2]
              words == [i \in Id |-> IF p.slots[i] = Empty THEN NoData ELSE p.slots[i][1]]
  <1>1. 1 - p.id \in Id
    BY Constants, PortFields
  <1>2. \A i \in Id : p.slots[i] \in Word \cup {Empty}
    BY PortFields
  <1>3. NoData \in Data /\ Byte(NoData) \in Data
    BY DataNumbers
  <1>4. \A x \in Word : x[1] \in Data /\ x[2] \in Data
    BY DEF Word
  <1>5. peer \in Word \cup {Empty}
    BY <1>1, <1>2
  <1>. HIDE DEF peer
  <1>6. low \in Data /\ high \in Data
    BY <1>3, <1>4, <1>5
  <1>7. Byte(low) \in Data
    BY <1>6, DataNumbers
  <1>8. words \in [Id -> Data]
    BY <1>2, <1>3, <1>4
  <1>. HIDE DEF low, high, words
  <1>9. CASE p.mode = "Multiplayer"
    <2>1. Received(p) = [p EXCEPT !.data = words]
      BY <1>9, Zenon DEF Received, words
    <2>2. [p EXCEPT !.data = words] \in Port
      BY <1>8, Zenon DEF Port
    <2>. QED
      BY <2>1, <2>2 DEF Port, SameEnd, SameRound
  <1>10. CASE p.mode = "Normal8"
    <2>1. Received(p) = [p EXCEPT !.send = Byte(low)]
      BY <1>10 DEF Received, peer, low
    <2>2. [p EXCEPT !.send = Byte(low)] \in Port
      BY <1>7, Zenon DEF Port
    <2>. QED
      BY <2>1, <2>2 DEF Port, SameEnd, SameRound
  <1>11. CASE p.mode = "Normal32"
    <2>. DEFINE data == [[p.data EXCEPT ![0] = low] EXCEPT ![1] = high]
                both == [[p EXCEPT !.data[0] = low] EXCEPT !.data[1] = high]
    <2>1. Received(p) = [p EXCEPT !.data[0] = low, !.data[1] = high]
      BY <1>11 DEF Received, peer, low, high
    <2>2. data \in [Id -> Data]
      BY <1>6, PortFields
    <2>3. Received(p) = [p EXCEPT !.data = data]
      BY <2>1 DEF Port
    <2>. HIDE DEF data
    <2>4. [p EXCEPT !.data = data] \in Port
      BY <2>2, Zenon DEF Port
    <2>. QED
      BY <2>3, <2>4 DEF Port, SameEnd, SameRound
  <1>12. CASE p.mode \notin {"Multiplayer", "Normal8", "Normal32"}
    <2>1. Received(p) = p
      BY <1>12 DEF Received
    <2>. QED
      BY <2>1 DEF SameEnd, SameRound
  <1>. QED
    BY <1>9, <1>10, <1>11, <1>12

(* With both words in, a round under way ends, and its words are kept. *)
Ended(p, q) ==
  /\ q \in Port
  /\ ~q.busy
  /\ SameEnd(p, q)
  /\ q.round = p.round
  /\ q.slots = p.slots
  /\ q.outbound = p.outbound
  /\ q.last = [round |-> p.round, words |-> p.slots]

LEMMA RoundEnds ==
  ASSUME NEW p \in Port, p.count = 2, p.busy, p.slots[0] # Empty, p.slots[1] # Empty
  PROVE  Ended(p, CompleteIfFull(p))
  <1>1. PICK t : t = Received(p)
    OBVIOUS
  <1>2. t \in Port /\ SameEnd(p, t) /\ SameRound(p, t)
    BY <1>1, WordsReceived
  <1>. DEFINE irq == t.irq \/ p.irqEnable
              last == [round |-> p.round, words |-> p.slots]
              q == [t EXCEPT !.busy = FALSE, !.irq = irq, !.last = last]
  <1>3. CompleteIfFull(p) = q
    <2>1. Filled(p) >= p.count
      BY FilledWords
    <2>. QED
      BY <1>1, <2>1, Zenon DEF CompleteIfFull, CompleteRound
  <1>4. irq \in BOOLEAN
    BY Zenon
  <1>5. last \in [round : 0 .. RoundMod - 1, words : [Id -> Word \cup {Empty}]]
    BY PortFields
  <1>. HIDE DEF irq, last
  <1>6. q \in Port
    BY <1>2, <1>4, <1>5, Zenon DEF Port
  <1>7. ~q.busy /\ SameEnd(p, q) /\ q.last = last
        /\ q.round = p.round /\ q.slots = p.slots /\ q.outbound = p.outbound
    BY <1>2 DEF Port, SameEnd, SameRound
  <1>. QED
    BY <1>3, <1>6, <1>7, Zenon DEF Ended, last

(* The parent hears the child's word of the round it waits for. *)
LEMMA ParentHears ==
  ASSUME NEW p \in Port, p.connected, p.count = 2, p.id = 0, Waiting(p),
         NEW w \in Word
  PROVE  Ended([p EXCEPT !.slots[1] = w], Deliver(p, FrameOf(p.round, 1, w)))
  <1>. DEFINE q == [p EXCEPT !.slots[1] = w]
              slots == [p.slots EXCEPT ![1] = w]
  <1>1. slots \in [Id -> Word \cup {Empty}]
    BY PortFields
  <1>2. slots[0] # Empty /\ slots[1] # Empty
    BY NoWord, PortFields, Constants DEF Waiting
  <1>3. q = [p EXCEPT !.slots = slots]
    BY DEF Port
  <1>. HIDE DEF slots
  <1>4. q \in Port
    BY <1>1, <1>3, Zenon DEF Port
  <1>5. q.slots = slots /\ q.count = 2 /\ q.busy
    BY <1>3 DEF Port, Waiting
  <1>6. Deliver(p, FrameOf(p.round, 1, w)) = CompleteIfFull(q)
    <2>1. p.slots[p.id] # Empty
      BY DEF Waiting
    <2>2. FrameOf(p.round, 1, w).round = p.round /\ FrameOf(p.round, 1, w).id = 1
          /\ FrameOf(p.round, 1, w).word = w
      BY DEF FrameOf
    <2>. QED
      BY <2>1, <2>2, Zenon DEF Deliver
  <1>. HIDE DEF q
  <1>7. Ended(q, CompleteIfFull(q))
    BY <1>2, <1>4, <1>5, RoundEnds
  <1>. QED
    BY <1>6, <1>7, Zenon DEF q

(* The child hears of a round it is not in: it joins with a word of its    *)
(* own, which it owes the parent, and ends the round.                      *)
Joined(p, q, r, x, w) ==
  /\ q \in Port
  /\ ~q.busy
  /\ SameEnd(p, q)
  /\ q.round = r
  /\ q.slots[0] = x
  /\ q.slots[1] = w
  /\ q.slots \in [Id -> Word \cup {Empty}]
  /\ q.outbound = <<FrameOf(r, 1, w)>>
  /\ q.last = [round |-> r, words |-> q.slots]

LEMMA ChildHears ==
  ASSUME NEW p \in Port, p.connected, p.count = 2, p.id = 1,
         NEW r \in 0 .. RoundMod - 1, r # p.round, NEW x \in Word
  PROVE  \E w \in Word : Joined(p, Deliver(p, FrameOf(r, 0, x)), r, x, w)
  <1>1. PICK w \in Word : Begun(p, BeginRound(p, r), r, w)
    BY RoundBegins
  <1>2. PICK b : b = BeginRound(p, r)
    OBVIOUS
  <1>. DEFINE slots == [b.slots EXCEPT ![0] = x]
              q == [b EXCEPT !.slots[0] = x]
  <1>3. /\ b \in Port /\ b.busy /\ SameEnd(p, b) /\ b.round = r
        /\ b.slots = [i \in Id |-> IF i = p.id THEN w ELSE Empty]
        /\ b.outbound = <<FrameOf(r, 1, w)>>
    BY <1>1, <1>2 DEF Begun
  <1>4. slots \in [Id -> Word \cup {Empty}]
    BY <1>3, PortFields
  <1>5. slots[0] = x /\ slots[1] = w
    BY <1>3, Constants
  <1>6. q = [b EXCEPT !.slots = slots]
    BY <1>3 DEF Port
  <1>. HIDE DEF slots
  <1>7. q \in Port
    BY <1>3, <1>4, <1>6, Zenon DEF Port
  <1>8. /\ q.slots = slots /\ q.count = 2 /\ q.busy /\ SameEnd(p, q) /\ q.round = r
        /\ q.outbound = <<FrameOf(r, 1, w)>>
    BY <1>3, <1>6 DEF Port, SameEnd
  <1>9. Deliver(p, FrameOf(r, 0, x)) = CompleteIfFull(q)
    <2>1. FrameOf(r, 0, x).round = r /\ FrameOf(r, 0, x).id = 0
          /\ FrameOf(r, 0, x).word = x
      BY DEF FrameOf
    <2>. QED
      BY <1>2, <2>1, Zenon DEF Deliver
  <1>. HIDE DEF q
  <1>10. q.slots[0] # Empty /\ q.slots[1] # Empty
    BY <1>5, <1>8, NoWord
  <1>11. PICK t : t = CompleteIfFull(q)
    OBVIOUS
  <1>12. Ended(q, t)
    BY <1>7, <1>8, <1>10, <1>11, RoundEnds
  <1>13. Joined(p, t, r, x, w)
    BY <1>4, <1>5, <1>8, <1>12 DEF Joined, Ended, SameEnd
  <1>. QED
    BY <1>9, <1>11, <1>13, Zenon

LEMMA PortsAre ==
  ASSUME TypeOK, NEW u \in Id
  PROVE  /\ ports[u] \in Port /\ host[u] \in HostState /\ carrier[u] \in Nat
         /\ wire[u] \in Seq(Frame) /\ session \in Nat
         /\ 0 \in Id /\ 1 \in Id /\ DOMAIN ports = Id /\ DOMAIN host = Id
  BY Constants DEF TypeOK

LEMMA OneFrame ==
  ASSUME NEW f
  PROVE  /\ Len(<<f>>) = 1 /\ <<f>>[1] = f /\ <<f>> # <<>>
         /\ SubSeq(<<f>>, 1, 0) = <<>> /\ SubSeq(<<f>>, 2, 1) = <<>>
         /\ SubSeq(<<f>>, 1, 1) = <<f>>
         /\ <<>> \o <<f>> = <<f>>
         /\ Head(<<f>>) = f /\ Tail(<<f>>) = <<>>
  <1>. DEFINE s == <<f>>
  <1>1. s \in Seq({f}) /\ Len(s) = 1 /\ s[1] = f /\ s # <<>> /\ Head(s) = f /\ Tail(s) = <<>>
    OBVIOUS
  <1>. HIDE DEF s
  <1>2. SubSeq(s, 1, 0) = <<>> /\ SubSeq(s, 2, 1) = <<>> /\ SubSeq(s, 1, 1) = s
    BY <1>1, SubSeqFull, SubSeqEmpty
  <1>3. <<>> \o s = s
    BY <1>1, ConcatEmptySeq
  <1>. QED
    BY <1>1, <1>2, <1>3, Zenon DEF s

(* A parent that has a word in but not the child's is at the barrier. *)
LEMMA AsksWaits ==
  ASSUME LinkInv, Asks
  PROVE  On(0) /\ Waiting(ports[0]) /\ Slots(0)[0] \in Word
  <1>1. On(0)
    BY Constants DEF Asks, Slots
  <1>2. Slots(0) = ports[0].slots
    BY <1>1 DEF Slots
  <1>3. ~Fresh(ports[0]) /\ ~Complete(ports[0])
    BY <1>2, Constants DEF Asks, Fresh, Complete
  <1>4. Slots(0)[0] \in Word
    BY <1>2, PortsAre, PortFields, Constants DEF Asks, LinkInv
  <1>. QED
    BY <1>1, <1>3, <1>4 DEF LinkInv, ParentSound

(* Whatever is on its way to a unit is the frame it expects. *)
LEMMA Expected ==
  ASSUME LinkInv
  PROVE  ParentExpects /\ ChildExpects
  <1>1. CASE ~up
    BY <1>1 DEF LinkInv
  <1>2. CASE up /\ Idle
    BY <1>2 DEF Idle, ParentExpects, ChildExpects
  <1>3. CASE up /\ Asked
    <2>1. Slots(0)[0] \in Word
      BY <1>3, AsksWaits DEF Asked
    <2>2. ASSUME On(1)
          PROVE  ports[1].outbound = NoFrame /\ Round(0) = Succ(ports[1].round)
      <3>1. ports[1].last.round = ports[1].round
        BY DEF LinkInv, ChildSound, Fresh, Complete, NoResult
      <3>. QED
        BY <1>3, <2>2, <3>1 DEF Asked, Asks, Owed, Last
    <2>. QED
      BY <1>3, <2>1, <2>2 DEF Asked, ParentExpects, ChildExpects
  <1>4. CASE up /\ Answering
    BY <1>4 DEF Answering, ParentExpects, ChildExpects
  <1>5. CASE up /\ Answered
    <2>1. On(0) /\ Waiting(ports[0])
      BY <1>5, AsksWaits DEF Answered
    <2>2. On(1)
      BY <1>5, Constants DEF Answered, Agreed, Slots
    <2>3. Slots(1)[1] \in Word
      BY <1>5, <2>2, PortsAre, PortFields, Constants DEF Answered, Agreed, Slots, LinkInv
    <2>. QED
      BY <1>5, <2>1, <2>3 DEF Answered, Round, ParentExpects, ChildExpects
  <1>. QED
    BY <1>1, <1>2, <1>3, <1>4, <1>5 DEF LinkInv

(* What a unit's port holds of the connection changes with its port, and   *)
(* with nothing else.                                                      *)
LEMMA SameViews ==
  ASSUME UNCHANGED <<carrier, session>>, NEW u, SameRound(ports[u], ports'[u])
  PROVE  /\ On(u)' = On(u) /\ Round(u)' = Round(u) /\ Slots(u)' = Slots(u)
         /\ Owed(u)' = Owed(u) /\ Last(u)' = Last(u)
  BY DEF On, Round, Slots, Owed, Last, SameRound

LEMMA SameKind ==
  ASSUME NEW p, NEW q, SameRound(p, q)
  PROVE  /\ Fresh(p) => Fresh(q)
         /\ Complete(p) => Complete(q)
         /\ Waiting(p) /\ q.busy => Waiting(q)
  BY DEF Fresh, Complete, Waiting, SameRound

PortStep(u, q, h) ==
  /\ ports' = [ports EXCEPT ![u] = q]
  /\ host' = [host EXCEPT ![u] = h]
  /\ UNCHANGED <<carrier, session, up>>

LEMMA StepOne ==
  ASSUME TypeOK, NEW u \in Id, NEW q \in Port, NEW h \in HostState, PortStep(u, q, h)
  PROVE  /\ ports' \in [Id -> Port] /\ host' \in [Id -> HostState]
         /\ ports'[u] = q /\ host'[u] = h
         /\ \A v \in Id \ {u} : ports'[v] = ports[v] /\ host'[v] = host[v]
  BY DEF TypeOK, PortStep

(* A step that leaves the rounds of a port alone: the game's stores, the   *)
(* beginning and the end of a slice or a frame, a timeout.                 *)
LEMMA QuietStep ==
  ASSUME LinkInv, NEW u \in Id, NEW q \in Port, NEW h \in HostState, PortStep(u, q, h),
         wire' = wire, SameEnd(ports[u], q), SameRound(ports[u], q),
         h \in {"pump", "blocked"} => carrier[u] # 0,
         u = 0 /\ carrier[0] # 0 =>
           (q.busy <=> ports[0].busy) /\ (h = "guest" => ~ports[0].busy),
         u = 1 /\ ports[1].outbound # NoFrame => h = "pump"
  PROVE  LinkInv'
  <1>1. /\ ports' \in [Id -> Port] /\ host' \in [Id -> HostState]
        /\ ports'[u] = q /\ host'[u] = h
        /\ \A v \in Id \ {u} : ports'[v] = ports[v] /\ host'[v] = host[v]
    BY StepOne DEF LinkInv
  <1>2. \A v \in Id : SameEnd(ports[v], ports'[v]) /\ SameRound(ports[v], ports'[v])
    BY <1>1 DEF SameEnd, SameRound
  <1>3. carrier' = carrier /\ session' = session /\ up' = up
    BY DEF PortStep
  <1>4. TypeOK'
    BY <1>1, <1>3 DEF LinkInv, TypeOK
  <1>5. Sessions'
    BY <1>3 DEF LinkInv, Sessions
  <1>6. ASSUME NEW v \in Id
        PROVE  Configured(v)'
    <2>1. Configured(v) /\ SameEnd(ports[v], ports'[v])
      BY <1>2 DEF LinkInv
    <2>2. Fresh(ports[v]) => Fresh(ports'[v])
      BY <1>2, SameKind
    <2>3. host'[v] \in {"pump", "blocked"} => carrier[v] # 0
      BY <1>1, <2>1 DEF Configured
    <2>. QED
      BY <1>3, <2>1, <2>2, <2>3 DEF Configured, SameEnd
  <1>7. ParentSound'
    <2>1. ParentSound /\ 0 \in Id /\ Configured(0)
      BY Constants DEF LinkInv
    <2>2. SameRound(ports[0], ports'[0])
      BY <1>2, <2>1
    <2>3. carrier[0] # 0 => /\ ports'[0].busy <=> ports[0].busy
                            /\ host'[0] = "guest" => ~ports[0].busy
      BY <1>1, <2>1 DEF ParentSound
    <2>4. carrier[0] = 0 => Fresh(ports[0])
      BY <2>1 DEF Configured
    <2>5. ports'[0].outbound = NoFrame
      BY <2>1, <2>2 DEF ParentSound, SameRound
    <2>6. Fresh(ports[0]) => Fresh(ports'[0])
      BY <2>2, SameKind
    <2>7. Complete(ports[0]) /\ ~ports[0].busy
            => Fresh(ports'[0]) \/ (Complete(ports'[0]) /\ ~ports'[0].busy)
      <3>1. Complete(ports[0]) => Complete(ports'[0])
        BY <2>2, SameKind
      <3>. QED
        BY <2>3, <2>4, <2>6, <3>1, Zenon
    <2>8. Waiting(ports[0]) => Fresh(ports'[0]) \/ Waiting(ports'[0])
      BY <2>2, <2>3, <2>4, <2>6, SameKind DEF Waiting
    <2>. QED
      BY <1>3, <2>1, <2>3, <2>5, <2>6, <2>7, <2>8 DEF ParentSound
  <1>8. ChildSound'
    <2>1. ChildSound /\ 1 \in Id
      BY Constants DEF LinkInv
    <2>2. SameRound(ports[1], ports'[1])
      BY <1>2, <2>1
    <2>3. ports[1].outbound # NoFrame => host'[1] = "pump"
      BY <1>1, <2>1 DEF ChildSound
    <2>. QED
      BY <2>1, <2>2, <2>3, SameKind DEF ChildSound, SameRound
  <1>9. \A v \in Id : /\ On(v)' = On(v) /\ Round(v)' = Round(v) /\ Slots(v)' = Slots(v)
                      /\ Owed(v)' = Owed(v) /\ Last(v)' = Last(v)
    BY <1>2, <1>3, SameViews
  <1>10. CASE up
    <2>1. /\ Asks => Asks'
          /\ Agreed => Agreed'
      BY <1>9, Constants DEF Asks, Agreed
    <2>2. Idle \/ Asked \/ Answering \/ Answered
      BY <1>10 DEF LinkInv
    <2>3. (Idle \/ Asked \/ Answering \/ Answered)'
      BY <1>9, <2>1, <2>2, Constants DEF Idle, Asked, Answering, Answered
    <2>. QED
      BY <1>3, <1>4, <1>5, <1>6, <1>7, <1>8, <1>10, <2>3 DEF LinkInv
  <1>11. CASE ~up
    <2>1. ParentExpects /\ ChildExpects
      BY Expected
    <2>2. \A v \in Id : SameRound(ports[v], ports'[v]) /\ On(v)' = On(v)
      BY <1>2, <1>9
    <2>3. ParentExpects'
      <3>1. On(0) /\ Waiting(ports[0]) => Waiting(ports'[0])
        BY <1>1, <2>2, Constants, SameKind DEF On, Waiting
      <3>. QED
        BY <2>1, <2>2, <3>1, Constants DEF ParentExpects, SameRound
    <2>4. ChildExpects'
      BY <2>1, <2>2, Constants DEF ChildExpects, SameRound
    <2>. QED
      BY <1>3, <1>4, <1>5, <1>6, <1>7, <1>8, <1>11, <2>3, <2>4 DEF LinkInv
  <1>. QED
    BY <1>10, <1>11

(* Phases are about the views of the connection and the wires alone. *)
LEMMA PhaseKept ==
  ASSUME LinkInv, up, wire' = wire,
         \A v \in Id : /\ Round(v)' = Round(v) /\ Slots(v)' = Slots(v)
                       /\ Owed(v)' = Owed(v) /\ Last(v)' = Last(v)
  PROVE  (Idle \/ Asked \/ Answering \/ Answered)'
  <1>1. /\ Asks => Asks'
        /\ Agreed => Agreed'
    BY Constants DEF Asks, Agreed
  <1>2. Idle \/ Asked \/ Answering \/ Answered
    BY DEF LinkInv
  <1>. QED
    BY <1>1, <1>2, Constants DEF Idle, Asked, Answering, Answered

LEMMA OffViews ==
  ASSUME UNCHANGED <<carrier, session>>, NEW u, ~On(u)
  PROVE  /\ Round(u)' = Round(u) /\ Slots(u)' = Slots(u)
         /\ Owed(u)' = Owed(u) /\ Last(u)' = Last(u) /\ On(u)' = On(u)
  BY DEF On, Round, Slots, Owed, Last

(* What any step of a configured unit on its port keeps. *)
LEMMA ConfiguredStep ==
  ASSUME LinkInv, NEW u \in Id, NEW q \in Port, NEW h \in HostState, PortStep(u, q, h),
         carrier[u] # 0, SameEnd(ports[u], q), wire' \in [Id -> Seq(Frame)]
  PROVE  /\ TypeOK' /\ Sessions' /\ \A v \in Id : Configured(v)'
         /\ ports'[u] = q /\ host'[u] = h
         /\ carrier' = carrier /\ session' = session /\ up' = up
         /\ \A v \in Id \ {u} : /\ ports'[v] = ports[v] /\ host'[v] = host[v]
                                /\ Round(v)' = Round(v) /\ Slots(v)' = Slots(v)
                                /\ Owed(v)' = Owed(v) /\ Last(v)' = Last(v) /\ On(v)' = On(v)
  <1>1. /\ ports' \in [Id -> Port] /\ host' \in [Id -> HostState]
        /\ ports'[u] = q /\ host'[u] = h
        /\ \A v \in Id \ {u} : ports'[v] = ports[v] /\ host'[v] = host[v]
    BY StepOne DEF LinkInv
  <1>2. carrier' = carrier /\ session' = session /\ up' = up
    BY DEF PortStep
  <1>3. TypeOK'
    BY <1>1, <1>2 DEF LinkInv, TypeOK
  <1>4. Sessions'
    <2>1. carrier[u] \in Nat /\ carrier[u] <= session /\ session \in Nat
      BY PortsAre DEF LinkInv, Sessions
    <2>2. session # 0
      BY <2>1
    <2>. QED
      BY <1>2, <2>2 DEF LinkInv, Sessions
  <1>5. \A v \in Id : Configured(v)'
    <2>1. \A v \in Id : Configured(v)
      BY DEF LinkInv
    <2>2. ports[u].connected
      BY <2>1 DEF Configured
    <2>3. ASSUME NEW v \in Id, v = u
          PROVE  Configured(v)'
      BY <1>1, <1>2, <2>1, <2>2, <2>3 DEF Configured, SameEnd
    <2>4. ASSUME NEW v \in Id, v # u
          PROVE  Configured(v)'
      BY <1>1, <1>2, <2>1, <2>4 DEF Configured
    <2>. QED
      BY <2>3, <2>4
  <1>6. ASSUME NEW v \in Id \ {u}
        PROVE  /\ Round(v)' = Round(v) /\ Slots(v)' = Slots(v)
               /\ Owed(v)' = Owed(v) /\ Last(v)' = Last(v) /\ On(v)' = On(v)
    BY <1>1, <1>2, SameViews DEF SameRound
  <1>. QED
    BY <1>1, <1>2, <1>3, <1>4, <1>5, <1>6

(* The parent starts a round, and its word goes to the child. *)
LEMMA ParentAsksStep ==
  ASSUME LinkInv, NEW q \in Port, PortStep(0, q, "blocked"),
         host[0] = "guest", carrier[0] # 0, SameEnd(ports[0], q), q.busy,
         NEW w \in Word, q.slots = [i \in Id |-> IF i = 0 THEN w ELSE Empty],
         q.round = Succ(ports[0].round), q.outbound = NoFrame, q.last = ports[0].last,
         wire' \in [Id -> Seq(Frame)], wire'[0] = wire[0],
         wire'[1] = IF Reaches(0) THEN wire[1] \o <<FrameOf(q.round, 0, w)>> ELSE wire[1]
  PROVE  LinkInv'
  <1>1. 0 \in Id /\ 1 \in Id /\ Id = {0, 1} /\ "blocked" \in HostState
    BY Constants DEF HostState
  <1>2. /\ TypeOK' /\ Sessions' /\ \A v \in Id : Configured(v)'
        /\ ports'[0] = q /\ host'[0] = "blocked" /\ ports'[1] = ports[1] /\ host'[1] = host[1]
        /\ carrier' = carrier /\ session' = session /\ up' = up
        /\ Round(1)' = Round(1) /\ Slots(1)' = Slots(1)
        /\ Owed(1)' = Owed(1) /\ Last(1)' = Last(1) /\ On(1)' = On(1)
    BY <1>1, ConfiguredStep
  <1>3. ~Waiting(ports[0]) /\ (Fresh(ports[0]) \/ Complete(ports[0]))
    BY DEF LinkInv, ParentSound, Waiting
  <1>4. ports[0].last.round = ports[0].round
    BY <1>3 DEF Fresh, Complete, NoResult
  <1>5. q.slots[0] # Empty /\ q.slots[1] = Empty
    BY <1>1, NoWord
  <1>6. Waiting(q)
    BY <1>4, <1>5 DEF Waiting
  <1>7. ParentSound'
    BY <1>2, <1>6 DEF ParentSound
  <1>8. ChildSound'
    BY <1>2 DEF ChildSound, LinkInv
  <1>9. CASE up /\ On(0)
    <2>1. Idle
      <3>1. ~Asks
        BY <1>3, AsksWaits
      <3>. QED
        BY <1>9, <3>1 DEF LinkInv, Asked, Answering, Answered
    <2>2. /\ Slots(0)' = q.slots /\ Round(0)' = q.round /\ Last(0)' = q.last
      BY <1>2, <1>9 DEF On, Slots, Round, Last
    <2>3. Last(0) = ports[0].last
      BY <1>9 DEF Last
    <2>4. wire'[1] = <<FrameOf(q.round, 0, w)>>
      <3>1. Reaches(0) /\ wire[1] = <<>>
        BY <1>9, <2>1 DEF Reaches, On, Idle
      <3>. QED
        BY <3>1, OneFrame
    <2>5. Asks'
      <3>1. q.round = Succ(q.last.round)
        BY <1>4, Zenon
      <3>. QED
        BY <1>5, <2>2, <3>1, Zenon DEF Asks
    <2>6. Asked'
      BY <1>1, <1>2, <2>1, <2>2, <2>3, <2>4, <2>5 DEF Asked, Idle
    <2>. QED
      BY <1>2, <1>7, <1>8, <1>9, <2>6 DEF LinkInv
  <1>10. CASE up /\ ~On(0)
    <2>1. wire' = wire
      BY <1>1, <1>10 DEF Reaches, On, LinkInv, TypeOK
    <2>2. (Idle \/ Asked \/ Answering \/ Answered)'
      BY <1>1, <1>2, <1>10, <2>1, OffViews, PhaseKept
    <2>. QED
      BY <1>2, <1>7, <1>8, <1>10, <2>2 DEF LinkInv
  <1>11. CASE ~up
    <2>1. ParentExpects /\ ChildExpects
      BY Expected
    <2>2. wire'[1] = wire[1]
      BY <1>11 DEF Reaches
    <2>3. ParentExpects'
      BY <1>2, <1>3, <2>1 DEF ParentExpects, On
    <2>4. ChildExpects'
      BY <1>2, <2>1, <2>2 DEF ChildExpects
    <2>. QED
      BY <1>2, <1>7, <1>8, <1>11, <2>3, <2>4 DEF LinkInv
  <1>. QED
    BY <1>9, <1>10, <1>11

(* The parent hears the child's word, and its round ends. *)
LEMMA ParentHearsStep ==
  ASSUME LinkInv, NEW q \in Port, NEW h \in HostState, PortStep(0, q, h), On(0), Waiting(ports[0]),
         NEW w \in Word, wire[0] = <<FrameOf(ports[0].round, 1, w)>>,
         Ended([ports[0] EXCEPT !.slots[1] = w], q),
         wire' \in [Id -> Seq(Frame)], wire'[0] = <<>>, wire'[1] = wire[1]
  PROVE  LinkInv'
  <1>1. /\ 0 \in Id /\ 1 \in Id /\ Id = {0, 1} /\ carrier[0] # 0
        /\ ports[0] \in Port /\ ports[1] \in Port
    BY Constants, PortsAre DEF On, LinkInv
  <1>2. /\ SameEnd(ports[0], q) /\ ~q.busy /\ q.round = ports[0].round
        /\ q.slots = [ports[0].slots EXCEPT ![1] = w]
        /\ q.outbound = ports[0].outbound /\ q.last = [round |-> q.round, words |-> q.slots]
    BY <1>1 DEF Ended, SameEnd, Port
  <1>3. /\ TypeOK' /\ Sessions' /\ \A v \in Id : Configured(v)'
        /\ ports'[0] = q /\ host'[0] = h /\ ports'[1] = ports[1] /\ host'[1] = host[1]
        /\ carrier' = carrier /\ session' = session /\ up' = up
        /\ Round(1)' = Round(1) /\ Slots(1)' = Slots(1)
        /\ Owed(1)' = Owed(1) /\ Last(1)' = Last(1) /\ On(1)' = On(1)
    BY <1>1, <1>2, ConfiguredStep
  <1>4. q.slots[0] = ports[0].slots[0] /\ q.slots[1] = w /\ q.slots[0] # Empty /\ w # Empty
    BY <1>1, <1>2, NoWord, PortFields DEF Waiting
  <1>5. Complete(q)
    BY <1>2, <1>4 DEF Complete
  <1>6. ParentSound'
    BY <1>2, <1>3, <1>5 DEF ParentSound, LinkInv
  <1>7. ChildSound'
    BY <1>3 DEF ChildSound, LinkInv
  <1>8. CASE up
    <2>1. Answered
      BY <1>1, <1>8 DEF LinkInv, Idle, Asked, Answering
    <2>2. Slots(0) = ports[0].slots /\ Round(0) = ports[0].round
      BY DEF Slots, Round
    <2>3. w = Slots(1)[1]
      <3>1. FrameOf(ports[0].round, 1, w) = FrameOf(Round(0), 1, Slots(1)[1])
        BY <2>1, OneFrame, ZenonT(60) DEF Answered
      <3>. QED
        BY <3>1 DEF FrameOf
    <2>4. On(1)
      BY <1>1, <2>1 DEF Answered, Agreed, Slots
    <2>5. Slots(1) = ports[1].slots /\ Round(1) = ports[1].round /\ Last(1) = ports[1].last
      BY <2>4 DEF Slots, Round, Last
    <2>6. ports[1].last = [round |-> ports[1].round, words |-> ports[1].slots]
      BY <1>1, <2>1, <2>5 DEF LinkInv, ChildSound, Fresh, Complete, Answered, Agreed
    <2>7. q.slots = ports[1].slots
      <3>1. q.slots \in [Id -> Word \cup {Empty}] /\ ports[1].slots \in [Id -> Word \cup {Empty}]
        BY <1>1, PortFields
      <3>2. \A i \in Id : q.slots[i] = ports[1].slots[i]
        BY <1>1, <1>4, <2>1, <2>2, <2>3, <2>5 DEF Answered, Agreed
      <3>. QED
        BY <3>1, <3>2
    <2>8. q.round = ports[1].round
      BY <1>2, <2>1, <2>2, <2>5 DEF Answered, Agreed
    <2>9. Last(0)' = q.last /\ Round(0)' = q.round /\ Slots(0)' = q.slots
      BY <1>3 DEF On, Last, Round, Slots
    <2>10. Last(1)' = q.last
      BY <1>2, <1>3, <2>5, <2>6, <2>7, <2>8
    <2>11. wire[1] = <<>> /\ Owed(1) = NoFrame
      BY <2>1 DEF Answered
    <2>12. Idle'
      BY <1>2, <1>3, <2>9, <2>10, <2>11 DEF Idle
    <2>. QED
      BY <1>3, <1>6, <1>7, <1>8, <2>12 DEF LinkInv
  <1>9. CASE ~up
    <2>1. ParentExpects'
      BY DEF ParentExpects
    <2>2. ChildExpects'
      BY <1>3, Expected DEF ChildExpects
    <2>. QED
      BY <1>3, <1>6, <1>7, <1>9, <2>1, <2>2 DEF LinkInv
  <1>. QED
    BY <1>8, <1>9

(* The child hears the parent's word and ends the round with its own,      *)
(* which either waits in its port or goes to the parent at once.           *)
LEMMA ChildHearsStep ==
  ASSUME LinkInv, NEW q \in Port, NEW h \in HostState, PortStep(1, q, h), On(1),
         NEW x \in Word, wire[1] = <<FrameOf(Succ(ports[1].round), 0, x)>>,
         NEW w \in Word, NEW j, Joined(ports[1], j, Succ(ports[1].round), x, w),
         wire' \in [Id -> Seq(Frame)], wire'[1] = <<>>,
         \/ q = j /\ h = "pump" /\ wire'[0] = wire[0]
         \/ /\ q = [j EXCEPT !.outbound = NoFrame]
            /\ wire'[0] = IF Reaches(1) THEN wire[0] \o j.outbound ELSE wire[0]
  PROVE  LinkInv'
  <1>1. /\ 0 \in Id /\ 1 \in Id /\ Id = {0, 1} /\ carrier[1] # 0
        /\ ports[0] \in Port /\ ports[1] \in Port /\ j \in Port
    BY Constants, PortsAre DEF On, LinkInv, Joined
  <1>. DEFINE r == Succ(ports[1].round)
              answer == FrameOf(r, 1, w)
  <1>2. /\ SameEnd(ports[1], q) /\ q.round = r
        /\ q.slots[0] = x /\ q.slots[1] = w
        /\ q.last = [round |-> q.round, words |-> q.slots]
        /\ \/ q.outbound = <<answer>> /\ h = "pump" /\ wire'[0] = wire[0]
           \/ /\ q.outbound = NoFrame
              /\ wire'[0] = IF Reaches(1) THEN wire[0] \o <<answer>> ELSE wire[0]
    <2>1. /\ SameEnd(ports[1], j) /\ j.round = r /\ j.slots[0] = x /\ j.slots[1] = w
          /\ j.last = [round |-> j.round, words |-> j.slots] /\ j.outbound = <<answer>>
      BY Zenon DEF Joined, r, answer
    <2>. HIDE DEF r, answer
    <2>2. CASE q = j /\ h = "pump" /\ wire'[0] = wire[0]
      BY <2>1, <2>2, Zenon
    <2>3. CASE /\ q = [j EXCEPT !.outbound = NoFrame]
               /\ wire'[0] = IF Reaches(1) THEN wire[0] \o j.outbound ELSE wire[0]
      <3>1. /\ SameEnd(j, q) /\ q.round = j.round /\ q.slots = j.slots /\ q.last = j.last
            /\ q.outbound = NoFrame
        BY <1>1, <2>3 DEF SameEnd, Port
      <3>2. SameEnd(ports[1], q)
        BY <2>1, <3>1, Zenon DEF SameEnd
      <3>. QED
        BY <2>1, <2>3, <3>1, <3>2, Zenon
    <2>. QED
      BY <2>2, <2>3
  <1>. HIDE DEF r, answer
  <1>3. /\ TypeOK' /\ Sessions' /\ \A v \in Id : Configured(v)'
        /\ ports'[1] = q /\ host'[1] = h /\ ports'[0] = ports[0] /\ host'[0] = host[0]
        /\ carrier' = carrier /\ session' = session /\ up' = up
        /\ Round(0)' = Round(0) /\ Slots(0)' = Slots(0)
        /\ Owed(0)' = Owed(0) /\ Last(0)' = Last(0) /\ On(0)' = On(0)
    BY <1>1, <1>2, ConfiguredStep
  <1>4. Complete(q)
    BY <1>2, NoWord DEF Complete
  <1>5. ParentSound'
    BY <1>3 DEF ParentSound, LinkInv
  <1>6. ChildSound'
    BY <1>2, <1>3, <1>4 DEF ChildSound, answer
  <1>7. On(1)' /\ Slots(1)' = q.slots /\ Round(1)' = q.round /\ Owed(1)' = q.outbound
    BY <1>3 DEF On, Slots, Round, Owed
  <1>8. CASE up
    <2>1. Asked
      BY <1>1, <1>8 DEF LinkInv, Idle, Answered, Answering
    <2>2. r = Round(0) /\ x = Slots(0)[0]
      <3>1. FrameOf(r, 0, x) = FrameOf(Round(0), 0, Slots(0)[0])
        BY <2>1, OneFrame, Zenon DEF Asked, r
      <3>. QED
        BY <3>1 DEF FrameOf
    <2>3. Asks'
      BY <1>3, <2>1, Zenon DEF Asked, Asks
    <2>4. Agreed'
      BY <1>2, <1>3, <1>7, <2>2, NoWord DEF Agreed
    <2>5. wire[0] = <<>>
      BY <2>1 DEF Asked
    <2>6. CASE q.outbound = <<answer>> /\ wire'[0] = wire[0]
      <3>1. Answering'
        BY <1>7, <2>3, <2>4, <2>5, <2>6, OneFrame DEF Answering, NoFrame
      <3>. QED
        BY <1>3, <1>5, <1>6, <1>8, <3>1 DEF LinkInv
    <2>7. CASE q.outbound = NoFrame /\ wire'[0] = IF Reaches(1) THEN wire[0] \o <<answer>> ELSE wire[0]
      <3>1. Reaches(1)
        BY <1>8 DEF Reaches, On
      <3>2. wire'[0] = <<answer>>
        BY <2>5, <2>7, <3>1, OneFrame
      <3>3. answer = FrameOf(Round(0), 1, q.slots[1])
        BY <1>2, <2>2 DEF answer
      <3>4. Answered'
        BY <1>3, <1>7, <2>3, <2>4, <2>7, <3>2, <3>3 DEF Answered
      <3>. QED
        BY <1>3, <1>5, <1>6, <1>8, <3>4 DEF LinkInv
    <2>. QED
      BY <1>2, <2>6, <2>7
  <1>9. CASE ~up
    <2>1. wire'[0] = wire[0]
      BY <1>2, <1>9 DEF Reaches
    <2>2. ParentExpects'
      BY <1>3, <2>1, Expected DEF ParentExpects
    <2>3. ChildExpects'
      BY DEF ChildExpects
    <2>. QED
      BY <1>3, <1>5, <1>6, <1>9, <2>2, <2>3 DEF LinkInv
  <1>. QED
    BY <1>8, <1>9

(* The host takes the child's word from its port and sends it. *)
LEMMA ChildAnswersStep ==
  ASSUME LinkInv, NEW q \in Port, NEW h \in HostState, PortStep(1, q, h), carrier[1] # 0,
         ports[1].outbound # NoFrame, q = [ports[1] EXCEPT !.outbound = NoFrame],
         wire' \in [Id -> Seq(Frame)], wire'[1] = wire[1],
         wire'[0] = IF Reaches(1) THEN wire[0] \o ports[1].outbound ELSE wire[0]
  PROVE  LinkInv'
  <1>1. /\ 0 \in Id /\ 1 \in Id /\ Id = {0, 1}
        /\ ports[0] \in Port /\ ports[1] \in Port
    BY Constants, PortsAre DEF LinkInv
  <1>2. /\ SameEnd(ports[1], q) /\ q.round = ports[1].round /\ q.slots = ports[1].slots
        /\ q.last = ports[1].last /\ q.outbound = NoFrame
    BY <1>1 DEF SameEnd, Port
  <1>3. /\ TypeOK' /\ Sessions' /\ \A v \in Id : Configured(v)'
        /\ ports'[1] = q /\ host'[1] = h /\ ports'[0] = ports[0] /\ host'[0] = host[0]
        /\ carrier' = carrier /\ session' = session /\ up' = up
        /\ Round(0)' = Round(0) /\ Slots(0)' = Slots(0)
        /\ Owed(0)' = Owed(0) /\ Last(0)' = Last(0) /\ On(0)' = On(0)
    BY <1>1, <1>2, ConfiguredStep
  <1>4. /\ Complete(ports[1])
        /\ ports[1].outbound = <<FrameOf(ports[1].round, 1, ports[1].slots[1])>>
    BY DEF LinkInv, ChildSound, Fresh
  <1>5. ParentSound'
    BY <1>3 DEF ParentSound, LinkInv
  <1>6. ChildSound'
    BY <1>2, <1>3, <1>4 DEF ChildSound, Complete
  <1>7. CASE up /\ On(1)
    <2>1. Owed(1) # NoFrame
      BY <1>7 DEF Owed
    <2>2. Answering
      BY <1>7, <2>1 DEF LinkInv, Idle, Asked, Answered
    <2>3. Slots(1) = ports[1].slots /\ Round(1) = ports[1].round
      BY <1>7 DEF Slots, Round
    <2>4. On(1)' /\ Slots(1)' = ports[1].slots /\ Round(1)' = ports[1].round /\ Owed(1)' = NoFrame
      BY <1>2, <1>3, <1>7 DEF On, Slots, Round, Owed
    <2>5. Asks' /\ Agreed'
      BY <1>3, <2>2, <2>3, <2>4, Zenon DEF Answering, Asks, Agreed
    <2>6. wire'[0] = <<FrameOf(ports[1].round, 1, ports[1].slots[1])>>
      <3>1. Reaches(1) /\ wire[0] = <<>>
        BY <1>7, <2>2 DEF Reaches, On, Answering
      <3>. QED
        BY <1>4, <3>1, OneFrame
    <2>7. ports[1].round = Round(0)
      BY <2>2, <2>3 DEF Answering, Agreed
    <2>8. Answered'
      BY <1>3, <2>2, <2>4, <2>5, <2>6, <2>7 DEF Answered, Answering
    <2>. QED
      BY <1>3, <1>5, <1>6, <1>7, <2>8 DEF LinkInv
  <1>8. CASE up /\ ~On(1)
    <2>1. wire' = wire
      BY <1>1, <1>8 DEF Reaches, On, LinkInv, TypeOK
    <2>2. (Idle \/ Asked \/ Answering \/ Answered)'
      BY <1>1, <1>3, <1>8, <2>1, OffViews, PhaseKept
    <2>. QED
      BY <1>3, <1>5, <1>6, <1>8, <2>2 DEF LinkInv
  <1>9. CASE ~up
    <2>1. ParentExpects /\ ChildExpects
      BY Expected
    <2>2. wire'[0] = wire[0]
      BY <1>9 DEF Reaches
    <2>3. ParentExpects'
      BY <1>3, <2>1, <2>2 DEF ParentExpects
    <2>4. ChildExpects'
      BY <1>2, <1>3, <2>1 DEF ChildExpects, On
    <2>. QED
      BY <1>3, <1>5, <1>6, <1>9, <2>3, <2>4 DEF LinkInv
  <1>. QED
    BY <1>7, <1>8, <1>9

(* Setting a port's link: without one, nothing of the last link is left. *)
LEMMA LinkSet ==
  ASSUME NEW p \in Port, NEW c \in BOOLEAN, NEW i \in Id, NEW n \in 0 .. Count
  PROVE  LET q == SetLink(p, c, i, n)
         IN  /\ q \in Port
             /\ q.connected = c /\ q.id = i /\ q.count = n
             /\ ~c => Fresh(q)
             /\ c => SameRound(p, q)
  <1>. DEFINE set == [p EXCEPT !.connected = c, !.id = i, !.count = n]
              none == [k \in Id |-> Empty]
              cleared == [set EXCEPT !.slots = none, !.outbound = NoFrame, !.round = 0,
                                     !.last = NoResult]
  <1>1. set \in Port
    BY Zenon DEF Port
  <1>2. set.connected = c /\ set.id = i /\ set.count = n /\ SameRound(p, set)
    BY DEF Port, SameRound
  <1>. HIDE DEF set
  <1>3. /\ none \in [Id -> Word \cup {Empty}]
        /\ 0 \in 0 .. RoundMod - 1
        /\ NoFrame \in {NoFrame} \cup {<<f>> : f \in Frame}
    BY Constants
  <1>4. NoResult \in [round : 0 .. RoundMod - 1, words : [Id -> Word \cup {Empty}]]
    BY <1>3 DEF NoResult
  <1>5. cleared \in Port
    BY <1>1, <1>3, <1>4, Zenon DEF Port
  <1>6. /\ cleared.connected = c /\ cleared.id = i /\ cleared.count = n
        /\ cleared.round = 0 /\ cleared.slots = none /\ cleared.outbound = NoFrame
        /\ cleared.last = NoResult
    BY <1>1, <1>2 DEF Port
  <1>. HIDE DEF cleared
  <1>7. SetLink(p, c, i, n) = IF c THEN set ELSE cleared
    BY Zenon DEF SetLink, set, cleared, none
  <1>8. CASE c = TRUE
    BY <1>1, <1>2, <1>7, <1>8
  <1>9. CASE c = FALSE
    BY <1>5, <1>6, <1>7, <1>9 DEF Fresh
  <1>. QED
    BY <1>8, <1>9, Zenon

(* The core is configured for the standing connection, afresh. *)
LEMMA JoinStep ==
  ASSUME LinkInv, NEW u \in Id, NEW q \in Port, up, carrier[u] # session, host[u] = "frame",
         q.connected, q.id = u, q.count = 2, Fresh(q),
         ports' = [ports EXCEPT ![u] = q], carrier' = [carrier EXCEPT ![u] = session],
         host' = [host EXCEPT ![u] = "pump"], UNCHANGED <<session, up, wire>>
  PROVE  LinkInv'
  <1>1. /\ 0 \in Id /\ 1 \in Id /\ Id = {0, 1}
        /\ session \in Nat /\ carrier \in [Id -> 0 .. MaxSessions] /\ session \in 0 .. MaxSessions
        /\ ports \in [Id -> Port] /\ host \in [Id -> HostState]
        /\ session # 0
    BY Constants, PortsAre DEF LinkInv, TypeOK, Sessions
  <1>2. /\ ports'[u] = q /\ host'[u] = "pump" /\ carrier'[u] = session
        /\ \A v \in Id \ {u} : /\ ports'[v] = ports[v] /\ host'[v] = host[v]
                               /\ carrier'[v] = carrier[v]
    BY <1>1
  <1>3. TypeOK'
    <2>1. "pump" \in HostState
      BY DEF HostState
    <2>. QED
      BY <1>1, <2>1 DEF LinkInv, TypeOK
  <1>4. Sessions'
    BY <1>1, <1>2 DEF LinkInv, Sessions
  <1>5. \A v \in Id : Configured(v)'
    BY <1>1, <1>2 DEF LinkInv, Configured
  <1>6. ParentSound'
    BY <1>1, <1>2 DEF LinkInv, ParentSound, Fresh
  <1>7. ChildSound'
    BY <1>1, <1>2 DEF LinkInv, ChildSound, Fresh
  <1>8. ~On(u)
    BY DEF On
  <1>9. /\ Round(u)' = Round(u) /\ Slots(u)' = Slots(u)
        /\ Owed(u)' = Owed(u) /\ Last(u)' = Last(u)
    BY <1>1, <1>2, <1>8 DEF On, Round, Slots, Owed, Last, Fresh
  <1>10. \A v \in Id \ {u} : /\ Round(v)' = Round(v) /\ Slots(v)' = Slots(v)
                             /\ Owed(v)' = Owed(v) /\ Last(v)' = Last(v)
    BY <1>2 DEF On, Round, Slots, Owed, Last
  <1>11. (Idle \/ Asked \/ Answering \/ Answered)'
    BY <1>9, <1>10, PhaseKept
  <1>. QED
    BY <1>3, <1>4, <1>5, <1>6, <1>7, <1>11 DEF LinkInv

(* The connection is gone: the core is disconnected. *)
LEMMA LeaveStep ==
  ASSUME LinkInv, NEW u \in Id, NEW q \in Port, ~up, host[u] = "frame", ~q.connected, Fresh(q),
         ports' = [ports EXCEPT ![u] = q], carrier' = [carrier EXCEPT ![u] = 0],
         host' = [host EXCEPT ![u] = "guest"], UNCHANGED <<session, up, wire>>
  PROVE  LinkInv'
  <1>1. /\ 0 \in Id /\ 1 \in Id /\ Id = {0, 1}
        /\ session \in Nat /\ carrier \in [Id -> 0 .. MaxSessions] /\ 0 \in 0 .. MaxSessions
        /\ ports \in [Id -> Port] /\ host \in [Id -> HostState]
    BY Constants, PortsAre DEF LinkInv, TypeOK
  <1>2. /\ ports'[u] = q /\ host'[u] = "guest" /\ carrier'[u] = 0
        /\ \A v \in Id \ {u} : /\ ports'[v] = ports[v] /\ host'[v] = host[v]
                               /\ carrier'[v] = carrier[v]
    BY <1>1
  <1>3. TypeOK'
    <2>1. "guest" \in HostState
      BY DEF HostState
    <2>. QED
      BY <1>1, <2>1 DEF LinkInv, TypeOK
  <1>4. Sessions'
    BY <1>1, <1>2 DEF LinkInv, Sessions
  <1>5. \A v \in Id : Configured(v)'
    BY <1>1, <1>2 DEF LinkInv, Configured
  <1>6. ParentSound'
    BY <1>1, <1>2 DEF LinkInv, ParentSound, Fresh
  <1>7. ChildSound'
    BY <1>1, <1>2 DEF LinkInv, ChildSound, Fresh
  <1>8. ParentExpects /\ ChildExpects
    BY Expected
  <1>9. ParentExpects' /\ ChildExpects'
    BY <1>1, <1>2, <1>8 DEF ParentExpects, ChildExpects, On
  <1>. QED
    BY <1>3, <1>4, <1>5, <1>6, <1>7, <1>9 DEF LinkInv

LEMMA ReconcileStep ==
  ASSUME LinkInv, NEW u \in Id, Reconcile(u)
  PROVE  LinkInv'
  <1>1. /\ ports[u] \in Port /\ host[u] = "frame" /\ session \in Nat /\ carrier[u] \in Nat
        /\ Configured(u) /\ 0 \in 0 .. Count /\ 1 \in 0 .. Count /\ Count \in 0 .. Count
        /\ 0 \in Id /\ Count = 2
        /\ ports \in [Id -> Port] /\ carrier \in [Id -> 0 .. MaxSessions]
    BY PortsAre, Constants DEF LinkInv, TypeOK, Reconcile
  <1>2. u = 1 => ports[1].outbound = NoFrame
    BY <1>1 DEF LinkInv, ChildSound
  <1>3. up => session # 0
    BY DEF LinkInv, Sessions
  <1>. DEFINE stale == carrier[u] # 0 /\ ~Reaches(u)
              alone == IF stale THEN SetLink(ports[u], FALSE, 0, 1) ELSE ports[u]
              joins == up /\ (stale \/ carrier[u] = 0)
              q == IF joins THEN SetLink(alone, TRUE, u, Count) ELSE alone
  <1>4. /\ ports' = [ports EXCEPT ![u] = q]
        /\ carrier' = [carrier EXCEPT ![u] = IF up THEN session ELSE 0]
        /\ host' = [host EXCEPT ![u] = IF up THEN "pump" ELSE "guest"]
        /\ UNCHANGED <<session, up, wire>>
    BY DEF Reconcile
  <1>5. alone \in Port /\ (stale => ~alone.connected /\ Fresh(alone))
    BY <1>1, LinkSet
  <1>. HIDE DEF alone
  <1>6. CASE joins
    <2>1. Fresh(alone)
      BY <1>1, <1>5, <1>6 DEF Configured, alone
    <2>2. PICK t : t = SetLink(alone, TRUE, u, Count)
      OBVIOUS
    <2>3. t \in Port /\ t.connected = TRUE /\ t.id = u /\ t.count = Count /\ SameRound(alone, t)
      <3>1. PICK c \in BOOLEAN : c = TRUE
        OBVIOUS
      <3>2. t = SetLink(alone, c, u, Count)
        BY <2>2, <3>1
      <3>3. PICK a \in Port, n \in 0 .. Count : a = alone /\ n = Count
        BY <1>1, <1>5
      <3>4. /\ SetLink(a, c, u, n) \in Port /\ SetLink(a, c, u, n).connected = c
            /\ SetLink(a, c, u, n).id = u /\ SetLink(a, c, u, n).count = n
            /\ c => SameRound(a, SetLink(a, c, u, n))
        BY LinkSet
      <3>. QED
        BY <3>1, <3>2, <3>3, <3>4
    <2>4. Fresh(t)
      BY <2>1, <2>3, SameKind
    <2>5. carrier[u] # session /\ up
      BY <1>3, <1>6 DEF Reaches
    <2>6. /\ ports' = [ports EXCEPT ![u] = t] /\ carrier' = [carrier EXCEPT ![u] = session]
          /\ host' = [host EXCEPT ![u] = "pump"]
      BY <1>4, <1>6, <2>2, <2>5, Zenon
    <2>. QED
      BY <1>1, <1>4, <2>3, <2>4, <2>5, <2>6, Constants, JoinStep
  <1>7. CASE ~joins /\ stale
    <2>1. ~up
      BY <1>7
    <2>2. PICK t \in Port : t = alone
      BY <1>5
    <2>3. /\ ports' = [ports EXCEPT ![u] = t] /\ carrier' = [carrier EXCEPT ![u] = 0]
          /\ host' = [host EXCEPT ![u] = "guest"]
      BY <1>4, <1>7, <2>1, <2>2, Zenon
    <2>. QED
      BY <1>1, <1>4, <1>5, <1>7, <2>1, <2>2, <2>3, LeaveStep
  <1>8. CASE ~joins /\ ~stale
    <2>1. IF up THEN carrier[u] = session /\ carrier[u] # 0 ELSE carrier[u] = 0
      BY <1>3, <1>8 DEF Reaches
    <2>2. PICK t \in Port : t = ports[u]
      BY <1>1
    <2>3. PICK h \in HostState : h = IF up THEN "pump" ELSE "guest"
      BY DEF HostState
    <2>4. carrier' = carrier
      BY <1>1, <1>4, <2>1
    <2>5. PortStep(u, t, h)
      BY <1>4, <1>8, <2>2, <2>3, <2>4, Zenon DEF PortStep, alone
    <2>6. SameEnd(ports[u], t) /\ SameRound(ports[u], t)
      BY <2>2 DEF SameEnd, SameRound
    <2>7. /\ h \in {"pump", "blocked"} => carrier[u] # 0
          /\ u = 0 /\ carrier[0] # 0 =>
               (t.busy <=> ports[0].busy) /\ (h = "guest" => ~ports[0].busy)
          /\ u = 1 /\ ports[1].outbound # NoFrame => h = "pump"
      BY <1>2, <2>1, <2>2, <2>3
    <2>. QED
      BY <1>4, <2>5, <2>6, <2>7, QuietStep
  <1>. QED
    BY <1>6, <1>7, <1>8

LEMMA ConnectStep ==
  ASSUME LinkInv, Connect
  PROVE  LinkInv'
  <1>1. /\ 0 \in Id /\ 1 \in Id /\ Id = {0, 1} /\ session \in 0 .. MaxSessions
        /\ MaxSessions \in Nat /\ session < MaxSessions
        /\ ports' = ports /\ host' = host /\ carrier' = carrier
        /\ session' = session + 1 /\ up' /\ wire' = [u \in Id |-> <<>>]
    BY Constants DEF LinkInv, TypeOK, Connect
  <1>2. wire'[0] = <<>> /\ wire'[1] = <<>>
    BY <1>1
  <1>3. \A v \in Id : carrier[v] \in Nat /\ carrier[v] <= session
    BY PortsAre DEF LinkInv, Sessions
  <1>4. ~On(0)' /\ ~On(1)'
    BY <1>1, <1>3 DEF On
  <1>5. Idle'
    BY <1>2, <1>4 DEF Idle, Round, Slots, Owed, Last, NoResult
  <1>6. TypeOK'
    <2>1. session' \in 0 .. MaxSessions /\ up' \in BOOLEAN
      BY <1>1 DEF Connect
    <2>2. <<>> \in Seq(Frame)
      BY EmptySeq, Zenon
    <2>3. wire' \in [Id -> Seq(Frame)]
      BY <1>1, <2>2
    <2>. QED
      BY <1>1, <2>1, <2>3 DEF LinkInv, TypeOK
  <1>7. Sessions'
    BY <1>1, <1>3 DEF Sessions
  <1>8. /\ \A v \in Id : Configured(v)'
        /\ ParentSound' /\ ChildSound'
    BY <1>1 DEF LinkInv, Configured, ParentSound, ChildSound
  <1>. QED
    BY <1>1, <1>5, <1>6, <1>7, <1>8 DEF LinkInv

(* A prefix of at most one frame is nothing or that frame. *)
LEMMA Prefix ==
  ASSUME NEW f, NEW s \in {<<>>, <<f>>}, NEW n \in 0 .. Len(s)
  PROVE  SubSeq(s, 1, n) = <<>> \/ SubSeq(s, 1, n) = s
  <1>1. CASE s = <<>>
    BY <1>1
  <1>2. CASE s = <<f>>
    BY <1>2, OneFrame
  <1>. QED
    BY <1>1, <1>2

LEMMA CutStep ==
  ASSUME LinkInv, Cut
  PROVE  LinkInv'
  <1>1. /\ 0 \in Id /\ 1 \in Id /\ Id = {0, 1}
        /\ wire \in [Id -> Seq(Frame)]
        /\ ports' = ports /\ host' = host /\ carrier' = carrier /\ session' = session /\ up' = FALSE
    BY Constants DEF LinkInv, TypeOK, Cut
  <1>2. PICK m \in 0 .. Len(wire[0]), n \in 0 .. Len(wire[1]) :
          wire' = [wire EXCEPT ![0] = SubSeq(@, 1, m), ![1] = SubSeq(@, 1, n)]
    BY DEF Cut
  <1>3. wire'[0] = SubSeq(wire[0], 1, m) /\ wire'[1] = SubSeq(wire[1], 1, n)
    BY <1>1, <1>2
  <1>4. /\ SubSeq(wire[0], 1, m) \in Seq(Frame)
        /\ SubSeq(wire[1], 1, n) \in Seq(Frame)
    BY <1>1
  <1>5. wire' \in [Id -> Seq(Frame)]
    BY <1>1, <1>2, <1>4
  <1>6. TypeOK'
    BY <1>1, <1>5 DEF LinkInv, TypeOK
  <1>7. Sessions'
    <2>1. session # 0
      BY DEF Cut, LinkInv, Sessions
    <2>. QED
      BY <1>1, <2>1 DEF LinkInv, Sessions
  <1>8. /\ \A v \in Id : Configured(v)'
        /\ ParentSound' /\ ChildSound'
    BY <1>1 DEF LinkInv, Configured, ParentSound, ChildSound
  <1>9. ParentExpects /\ ChildExpects
    BY Expected
  <1>10. ParentExpects'
    <2>1. CASE ~On(0)
      BY <1>1, <2>1 DEF ParentExpects, On
    <2>2. CASE wire[0] = <<>>
      BY <1>3, <2>2 DEF ParentExpects
    <2>3. CASE \E w \in Word : wire[0] = <<FrameOf(ports[0].round, 1, w)>>
      <3>1. wire'[0] = <<>> \/ wire'[0] = wire[0]
        BY <1>3, <2>3, Prefix
      <3>. QED
        BY <1>1, <1>9, <3>1 DEF ParentExpects, On
    <2>. QED
      BY <1>9, <2>1, <2>2, <2>3 DEF ParentExpects
  <1>11. ChildExpects'
    <2>1. CASE ~On(1)
      BY <1>1, <2>1 DEF ChildExpects, On
    <2>2. CASE wire[1] = <<>>
      BY <1>3, <2>2 DEF ChildExpects
    <2>3. CASE \E w \in Word : wire[1] = <<FrameOf(Succ(ports[1].round), 0, w)>>
      <3>1. wire'[1] = <<>> \/ wire'[1] = wire[1]
        BY <1>3, <2>3, Prefix
      <3>. QED
        BY <1>1, <1>9, <3>1 DEF ChildExpects, On
    <2>. QED
      BY <1>9, <2>1, <2>2, <2>3 DEF ChildExpects
  <1>. QED
    BY <1>1, <1>6, <1>7, <1>8, <1>10, <1>11 DEF LinkInv

(* Each unit completes round after round on its connection. *)
InSequence ==
  \A u \in Id :
    ports'[u].last # ports[u].last /\ carrier'[u] = carrier[u]
      => ports'[u].last.round = (ports[u].last.round + 1) % RoundMod

LEMMA StepSequence ==
  ASSUME TypeOK, NEW u \in Id, NEW q \in Port, NEW h \in HostState, PortStep(u, q, h),
         q.last = ports[u].last \/ q.last.round = Succ(ports[u].last.round)
  PROVE  InSequence
  <1>1. ports'[u] = q /\ \A v \in Id \ {u} : ports'[v] = ports[v]
    BY StepOne
  <1>. QED
    BY <1>1 DEF InSequence, Succ

(* What a unit hears is the one frame it expects, and it ends its round. *)
LEMMA Heard ==
  ASSUME LinkInv, NEW u \in Id, HearOne(u), NEW p, p = Deliver(ports[u], Head(wire[u]))
  PROVE  /\ On(u) /\ ports' = [ports EXCEPT ![u] = p]
         /\ wire' \in [Id -> Seq(Frame)] /\ wire'[u] = <<>>
         /\ \A v \in Id \ {u} : wire'[v] = wire[v]
         /\ \/ /\ u = 0 /\ Waiting(ports[0])
               /\ \E w \in Word : /\ wire[0] = <<FrameOf(ports[0].round, 1, w)>>
                                  /\ Ended([ports[0] EXCEPT !.slots[1] = w], p)
            \/ /\ u = 1 /\ ports[1].outbound = NoFrame
               /\ \E x, w \in Word : /\ wire[1] = <<FrameOf(Succ(ports[1].round), 0, x)>>
                                     /\ Joined(ports[1], p, Succ(ports[1].round), x, w)
  <1>1. /\ wire \in [Id -> Seq(Frame)] /\ wire[u] \in Seq(Frame) /\ session \in Nat
        /\ ports[u] \in Port /\ u \in {0, 1} /\ Configured(u)
    BY PortsAre, Constants DEF LinkInv, TypeOK
  <1>2. /\ carrier[u] = session /\ wire[u] # <<>> /\ ports' = [ports EXCEPT ![u] = p]
        /\ wire' = [wire EXCEPT ![u] = Tail(@)]
    BY DEF HearOne
  <1>3. On(u)
    <2>1. session # 0
      BY <1>1, <1>2 DEF LinkInv, Sessions
    <2>. QED
      BY <1>2, <2>1 DEF On
  <1>4. ports[u].connected /\ ports[u].id = u /\ ports[u].count = 2
    BY <1>1, <1>3 DEF On, Configured
  <1>5. ASSUME NEW f, wire[u] = <<f>>
        PROVE  /\ p = Deliver(ports[u], f)
               /\ wire' \in [Id -> Seq(Frame)] /\ wire'[u] = <<>>
               /\ \A v \in Id \ {u} : wire'[v] = wire[v]
    <2>1. Head(wire[u]) = f /\ Tail(wire[u]) = <<>>
      BY <1>5, OneFrame
    <2>2. <<>> \in Seq(Frame)
      BY EmptySeq, Zenon
    <2>. QED
      BY <1>1, <1>2, <2>1, <2>2
  <1>6. CASE u = 0
    <2>1. /\ Waiting(ports[0])
          /\ \E w \in Word : wire[0] = <<FrameOf(ports[0].round, 1, w)>>
      BY <1>2, <1>3, <1>6, Expected DEF ParentExpects
    <2>2. PICK w \in Word : wire[0] = <<FrameOf(ports[0].round, 1, w)>>
      BY <2>1
    <2>3. PICK q \in Port : q = ports[0]
      BY <1>1, <1>6
    <2>4. Ended([q EXCEPT !.slots[1] = w], Deliver(q, FrameOf(q.round, 1, w)))
      BY <1>4, <1>6, <2>1, <2>3, ParentHears
    <2>5. /\ p = Deliver(q, FrameOf(q.round, 1, w))
          /\ wire' \in [Id -> Seq(Frame)] /\ wire'[u] = <<>>
          /\ \A v \in Id \ {u} : wire'[v] = wire[v]
      BY <1>5, <1>6, <2>2, <2>3
    <2>. QED
      BY <1>2, <1>3, <1>6, <2>1, <2>2, <2>3, <2>4, <2>5, Zenon
  <1>7. CASE u = 1
    <2>1. /\ ports[1].outbound = NoFrame
          /\ \E x \in Word : wire[1] = <<FrameOf(Succ(ports[1].round), 0, x)>>
      BY <1>2, <1>3, <1>7, Expected DEF ChildExpects
    <2>2. PICK x \in Word : wire[1] = <<FrameOf(Succ(ports[1].round), 0, x)>>
      BY <2>1
    <2>3. PICK q \in Port, r \in 0 .. RoundMod - 1 :
            q = ports[1] /\ r = Succ(ports[1].round) /\ r # q.round
      BY <1>1, <1>7, PortFields, Following
    <2>4. PICK w \in Word : Joined(q, Deliver(q, FrameOf(r, 0, x)), r, x, w)
      BY <1>4, <1>7, <2>3, ChildHears
    <2>5. /\ p = Deliver(q, FrameOf(r, 0, x))
          /\ wire' \in [Id -> Seq(Frame)] /\ wire'[u] = <<>>
          /\ \A v \in Id \ {u} : wire'[v] = wire[v]
      BY <1>5, <1>7, <2>2, <2>3
    <2>6. Joined(ports[1], p, Succ(ports[1].round), x, w)
      BY <2>3, <2>4, <2>5, Zenon
    <2>. QED
      BY <1>2, <1>3, <1>7, <2>1, <2>2, <2>5, <2>6
  <1>. QED
    BY <1>1, <1>6, <1>7

(* What sending what is queued does to the wires. *)
LEMMA FlushWires ==
  ASSUME TypeOK, NEW u \in Id, NEW p \in Port, Flush(u, p)
  PROVE  /\ ports' = [ports EXCEPT ![u] = [p EXCEPT !.outbound = NoFrame]]
         /\ [p EXCEPT !.outbound = NoFrame] \in Port
         /\ wire' \in [Id -> Seq(Frame)]
         /\ wire'[u] = wire[u]
         /\ \A v \in Id \ {u} :
              /\ wire'[v] = IF Reaches(u) THEN wire[v] \o p.outbound ELSE wire[v]
              /\ p.outbound = NoFrame => wire'[v] = wire[v]
  <1>1. wire \in [Id -> Seq(Frame)] /\ \A v \in Id : wire[v] \in Seq(Frame)
    BY DEF TypeOK
  <1>2. p.outbound \in Seq(Frame)
    <2>1. \A f \in Frame : <<f>> \in Seq(Frame)
      OBVIOUS
    <2>2. <<>> \in Seq(Frame)
      BY EmptySeq, Zenon
    <2>3. p.outbound \in {NoFrame} \cup {<<f>> : f \in Frame}
      BY PortFields, Zenon
    <2>. QED
      BY <2>1, <2>2, <2>3, Zenon DEF NoFrame
  <1>3. [p EXCEPT !.outbound = NoFrame] \in Port
    BY Zenon DEF Port
  <1>4. \A v \in Id : wire[v] \o p.outbound \in Seq(Frame)
    BY <1>1, <1>2
  <1>5. \A v \in Id : wire[v] \o <<>> = wire[v]
    BY <1>1, ConcatEmptySeq
  <1>6. /\ Peer(u) \in Id /\ Peer(u) # u
        /\ \A v \in Id \ {u} : v = Peer(u)
    BY Constants DEF Peer
  <1>7. wire' = IF Reaches(u) THEN [wire EXCEPT ![Peer(u)] = wire[Peer(u)] \o p.outbound] ELSE wire
    BY DEF Flush
  <1>8. wire' \in [Id -> Seq(Frame)] /\ wire'[u] = wire[u]
    BY <1>1, <1>4, <1>6, <1>7
  <1>9. \A v \in Id \ {u} :
          /\ wire'[v] = IF Reaches(u) THEN wire[v] \o p.outbound ELSE wire[v]
          /\ p.outbound = NoFrame => wire'[v] = wire[v]
    BY <1>1, <1>5, <1>6, <1>7 DEF NoFrame
  <1>. QED
    BY <1>3, <1>8, <1>9 DEF Flush

(* With nothing queued, what a flush does to a port is nothing. *)
LEMMA NothingQueued ==
  ASSUME NEW p \in Port, p.outbound = NoFrame
  PROVE  [p EXCEPT !.outbound = NoFrame] = p
  BY DEF Port

LEMMA WiresSame ==
  ASSUME TypeOK, wire' \in [Id -> Seq(Frame)], NEW u \in Id, wire'[u] = wire[u],
         \A v \in Id \ {u} : wire'[v] = wire[v]
  PROVE  wire' = wire
  BY DEF TypeOK

(* A parent that is not held at the barrier has no transfer under way. *)
LEMMA ParentHeld ==
  ASSUME LinkInv, carrier[0] # 0, ports[0].busy
  PROVE  AwaitingPeer(ports[0])
  <1>1. ports[0].connected /\ ports[0].count = 2
    BY Constants DEF LinkInv, Configured
  <1>2. ports[0].slots[1] = Empty
    BY Constants DEF LinkInv, ParentSound, Fresh, Waiting
  <1>. QED
    BY <1>1, <1>2, FilledWords DEF AwaitingPeer

(* The host sends what is queued, and the next slice begins or is held. *)
LEMMA PollStep ==
  ASSUME LinkInv, NEW u \in Id, Poll(u)
  PROVE  LinkInv' /\ InSequence
  <1>1. PICK p \in Port : p = ports[u]
    BY PortsAre DEF LinkInv
  <1>2. /\ host[u] = "pump" /\ UNCHANGED <<carrier, session, up>> /\ u \in {0, 1}
        /\ carrier[u] # 0 /\ TypeOK /\ ports[0].outbound = NoFrame
    BY Constants DEF Poll, LinkInv, Configured, ParentSound
  <1>3. PICK h \in HostState : h = IF AwaitingPeer(p) THEN "blocked" ELSE "guest"
    BY DEF HostState
  <1>4. PICK q : q = [p EXCEPT !.outbound = NoFrame]
    OBVIOUS
  <1>5. Flush(u, p) /\ host' = [host EXCEPT ![u] = h]
    BY <1>1, <1>3 DEF Poll
  <1>6. /\ q \in Port /\ wire' \in [Id -> Seq(Frame)] /\ wire'[u] = wire[u]
        /\ \A v \in Id \ {u} :
             /\ wire'[v] = IF Reaches(u) THEN wire[v] \o p.outbound ELSE wire[v]
             /\ p.outbound = NoFrame => wire'[v] = wire[v]
    BY <1>2, <1>4, <1>5, FlushWires
  <1>7. PortStep(u, q, h)
    BY <1>2, <1>4, <1>5, Zenon DEF PortStep, Flush
  <1>8. SameEnd(p, q) /\ q.last = p.last
    BY <1>4 DEF SameEnd, Port
  <1>9. InSequence
    BY <1>1, <1>2, <1>6, <1>7, <1>8, StepSequence
  <1>10. CASE p.outbound = NoFrame
    <2>1. q = p /\ wire' = wire
      BY <1>2, <1>4, <1>6, <1>10, NothingQueued, WiresSame
    <2>2. SameEnd(ports[u], q) /\ SameRound(ports[u], q)
      BY <1>1, <2>1 DEF SameEnd, SameRound
    <2>3. u = 0 /\ carrier[0] # 0 =>
            (q.busy <=> ports[0].busy) /\ (h = "guest" => ~ports[0].busy)
      BY <1>1, <1>3, <2>1, ParentHeld
    <2>. QED
      BY <1>1, <1>2, <1>6, <1>7, <1>9, <1>10, <2>1, <2>2, <2>3, QuietStep
  <1>11. CASE p.outbound # NoFrame
    <2>1. u = 1
      BY <1>1, <1>2, <1>11
    <2>2. wire'[0] = IF Reaches(1) THEN wire[0] \o ports[1].outbound ELSE wire[0]
      <3>1. 0 \in Id \ {u}
        BY <2>1, Constants
      <3>. QED
        BY <1>1, <1>6, <2>1, <3>1, Zenon
    <2>. QED
      BY <1>1, <1>2, <1>4, <1>6, <1>7, <1>9, <1>11, <2>1, <2>2, ChildAnswersStep
  <1>. QED
    BY <1>10, <1>11

(* A frame arrives, in the host's pump or at its barrier. *)
LEMMA HearStep ==
  ASSUME LinkInv, NEW u \in Id, Hear(u) \/ Receive(u)
  PROVE  LinkInv' /\ InSequence
  <1>1. PICK q : q = Deliver(ports[u], Head(wire[u]))
    OBVIOUS
  <1>2. HearOne(u)
    BY DEF Hear, Receive
  <1>3. /\ On(u) /\ ports' = [ports EXCEPT ![u] = q]
        /\ wire' \in [Id -> Seq(Frame)] /\ wire'[u] = <<>>
        /\ \A v \in Id \ {u} : wire'[v] = wire[v]
        /\ \/ /\ u = 0 /\ Waiting(ports[0])
              /\ \E w \in Word : /\ wire[0] = <<FrameOf(ports[0].round, 1, w)>>
                                 /\ Ended([ports[0] EXCEPT !.slots[1] = w], q)
           \/ /\ u = 1 /\ ports[1].outbound = NoFrame
              /\ \E x, w \in Word : /\ wire[1] = <<FrameOf(Succ(ports[1].round), 0, x)>>
                                    /\ Joined(ports[1], q, Succ(ports[1].round), x, w)
    BY <1>1, <1>2, Heard
  <1>4. PICK h \in HostState : h = "pump"
    BY DEF HostState
  <1>5. /\ TypeOK /\ 0 \in Id /\ 1 \in Id /\ Id = {0, 1} /\ host \in [Id -> HostState]
        /\ ports[0] \in Port
    BY Constants, PortsAre DEF LinkInv, TypeOK
  <1>6. host' = [host EXCEPT ![u] = h] /\ UNCHANGED <<carrier, session, up>>
    BY <1>4, <1>5 DEF Hear, Receive
  <1>7. PortStep(u, q, h)
    BY <1>3, <1>6 DEF PortStep
  <1>8. CASE u = 0
    <2>1. /\ Waiting(ports[0])
          /\ \E w \in Word : /\ wire[0] = <<FrameOf(ports[0].round, 1, w)>>
                             /\ Ended([ports[0] EXCEPT !.slots[1] = w], q)
      BY <1>3, <1>8, 0 # 1
    <2>2. PICK w \in Word : /\ wire[0] = <<FrameOf(ports[0].round, 1, w)>>
                            /\ Ended([ports[0] EXCEPT !.slots[1] = w], q)
      BY <2>1
    <2>3. q \in Port /\ q.last.round = ports[0].round
      BY <1>5, <2>2 DEF Ended, Port
    <2>4. wire'[0] = <<>> /\ wire'[1] = wire[1] /\ PortStep(0, q, h)
      BY <1>3, <1>5, <1>7, <1>8
    <2>5. LinkInv'
      BY <1>3, <1>8, <2>1, <2>2, <2>3, <2>4, ParentHearsStep
    <2>6. q.last.round = Succ(ports[0].last.round)
      BY <2>1, <2>3 DEF Waiting
    <2>7. InSequence
      BY <1>5, <2>3, <2>4, <2>6, StepSequence
    <2>. QED
      BY <2>5, <2>7
  <1>9. CASE u = 1
    <2>1. PICK x \in Word, w \in Word :
               /\ wire[1] = <<FrameOf(Succ(ports[1].round), 0, x)>>
               /\ Joined(ports[1], q, Succ(ports[1].round), x, w)
      BY <1>3, <1>9
    <2>2. q \in Port /\ q.last.round = Succ(ports[1].round)
      BY <2>1 DEF Joined
    <2>3. wire'[1] = <<>> /\ wire'[0] = wire[0] /\ PortStep(1, q, h)
      BY <1>3, <1>5, <1>7, <1>9
    <2>4. LinkInv'
      BY <1>3, <1>4, <1>9, <2>1, <2>2, <2>3, ChildHearsStep
    <2>5. ports[1].last.round = ports[1].round
      BY DEF LinkInv, ChildSound, Fresh, Complete, NoResult
    <2>6. InSequence
      BY <1>5, <2>2, <2>3, <2>5, StepSequence
    <2>. QED
      BY <2>4, <2>6
  <1>. QED
    BY <1>5, <1>8, <1>9

(* The game runs between the host's looks at the carrier: nothing is owed, *)
(* and the parent has no transfer under way.                               *)
LEMMA InGuest ==
  ASSUME LinkInv, NEW u \in Id, host[u] = "guest"
  PROVE  /\ ports[u].outbound = NoFrame
         /\ u = 0 /\ carrier[0] # 0 => ~ports[0].busy
  <1>1. u \in {0, 1}
    BY Constants
  <1>. QED
    BY <1>1 DEF LinkInv, ParentSound, ChildSound

(* A step of u that leaves its port's rounds alone and its loop somewhere. *)
LEMMA QuietGuest ==
  ASSUME LinkInv, NEW u \in Id, host[u] = "guest", NEW p \in Port, SameEnd(ports[u], p),
         SameRound(ports[u], p), u = 0 /\ carrier[0] # 0 => ~p.busy, Store(u, p)
  PROVE  LinkInv' /\ InSequence
  <1>1. /\ TypeOK /\ ports[u] \in Port
        /\ Configured(u) /\ p.outbound = NoFrame /\ ports[u].outbound = NoFrame
        /\ p.last = ports[u].last
    BY PortsAre, InGuest DEF LinkInv, SameRound
  <1>2. UNCHANGED <<carrier, session, up>>
    BY DEF Store
  <1>3. CASE AwaitingPeer(p)
    <2>1. Flush(u, p) /\ host' = [host EXCEPT ![u] = "blocked"]
      BY <1>3 DEF Store
    <2>2. /\ ports' = [ports EXCEPT ![u] = [p EXCEPT !.outbound = NoFrame]]
          /\ wire' \in [Id -> Seq(Frame)] /\ wire'[u] = wire[u]
          /\ \A v \in Id \ {u} : p.outbound = NoFrame => wire'[v] = wire[v]
      BY ZenonT(60), <1>1, <2>1, FlushWires
    <2>3. wire' = wire /\ ports' = [ports EXCEPT ![u] = p]
      BY <1>1, <2>2, NothingQueued, WiresSame
    <2>4. PICK h \in HostState : h = "blocked"
      BY DEF HostState
    <2>5. PortStep(u, p, h)
      BY <1>2, <2>1, <2>3, <2>4 DEF PortStep
    <2>6. carrier[u] # 0
      BY <1>1, <1>3 DEF AwaitingPeer, Configured, SameEnd
    <2>7. /\ u = 0 /\ carrier[0] # 0 =>
               (p.busy <=> ports[0].busy) /\ (h = "guest" => ~ports[0].busy)
          /\ u = 1 /\ ports[1].outbound # NoFrame => h = "pump"
      BY <1>1, InGuest
    <2>8. LinkInv'
      BY <1>1, <2>3, <2>4, <2>5, <2>6, <2>7, QuietStep
    <2>. QED
      BY <1>1, <2>5, <2>8, StepSequence
  <1>4. CASE ~AwaitingPeer(p)
    <2>1. ports' = [ports EXCEPT ![u] = p] /\ host' = host /\ wire' = wire
      BY <1>4 DEF Store
    <2>2. PICK h \in HostState : h = "guest"
      BY DEF HostState
    <2>3. host' = [host EXCEPT ![u] = h]
      BY <1>1, <2>1, <2>2 DEF TypeOK
    <2>4. PortStep(u, p, h)
      BY <1>2, <2>1, <2>3 DEF PortStep
    <2>5. u = 0 /\ carrier[0] # 0 => (p.busy <=> ports[0].busy) /\ ~ports[0].busy
      BY InGuest
    <2>6. u = 1 /\ ports[1].outbound # NoFrame => h = "pump"
      BY <1>1 DEF SameRound
    <2>7. LinkInv'
      BY <2>1, <2>2, <2>4, <2>5, <2>6, QuietStep
    <2>. QED
      BY <1>1, <2>4, <2>7, StepSequence
  <1>. QED
    BY <1>3, <1>4

LEMMA GuestSendStep ==
  ASSUME LinkInv, NEW u \in Id, GuestSend(u)
  PROVE  LinkInv' /\ InSequence
  <1>1. PICK w \in Halfwords :
          \E p \in {[ports[u] EXCEPT !.send = w]}
                   \cup {[ports[u] EXCEPT !.data[i] = w] : i \in {j \in Id : "Normal32" \in Modes}} :
            Store(u, p)
    BY DEF GuestSend
  <1>2. /\ w \in Data /\ ports[u] \in Port
    BY DataNumbers, PortsAre DEF LinkInv
  <1>3. CASE Store(u, [ports[u] EXCEPT !.send = w])
    <2>1. PICK p : p = [ports[u] EXCEPT !.send = w]
      OBVIOUS
    <2>2. p \in Port
      BY <1>2, <2>1, Zenon DEF Port
    <2>3. SameEnd(ports[u], p) /\ SameRound(ports[u], p) /\ p.busy = ports[u].busy
      BY <1>2, <2>1 DEF SameEnd, SameRound, Port
    <2>4. host[u] = "guest" /\ Store(u, p)
      BY <1>3, <2>1 DEF Store
    <2>5. u = 0 /\ carrier[0] # 0 => ~p.busy
      BY <2>3, <2>4, InGuest
    <2>. QED
      BY <2>2, <2>3, <2>4, <2>5, QuietGuest
  <1>4. ASSUME NEW i \in Id, Store(u, [ports[u] EXCEPT !.data[i] = w])
        PROVE  LinkInv' /\ InSequence
    <2>. DEFINE data == [ports[u].data EXCEPT ![i] = w]
    <2>1. PICK p : p = [ports[u] EXCEPT !.data[i] = w]
      OBVIOUS
    <2>2. data \in [Id -> Data]
      BY <1>2, PortFields
    <2>3. p = [ports[u] EXCEPT !.data = data]
      BY <1>2, <2>1 DEF Port
    <2>. HIDE DEF data
    <2>4. p \in Port
      BY <1>2, <2>2, <2>3, Zenon DEF Port
    <2>5. SameEnd(ports[u], p) /\ SameRound(ports[u], p) /\ p.busy = ports[u].busy
      BY <1>2, <2>3 DEF SameEnd, SameRound, Port
    <2>6. host[u] = "guest" /\ Store(u, p)
      BY <1>4, <2>1 DEF Store
    <2>7. u = 0 /\ carrier[0] # 0 => ~p.busy
      BY <2>5, <2>6, InGuest
    <2>. QED
      BY <2>4, <2>5, <2>6, <2>7, QuietGuest
  <1>. QED
    BY <1>1, <1>3, <1>4

LEMMA GuestAcknowledgesStep ==
  ASSUME LinkInv, NEW u \in Id, GuestAcknowledges(u)
  PROVE  LinkInv' /\ InSequence
  <1>1. ports[u] \in Port
    BY PortsAre DEF LinkInv
  <1>2. PICK p : p = [ports[u] EXCEPT !.irq = FALSE]
    OBVIOUS
  <1>3. p \in Port
    BY <1>1, <1>2, Zenon DEF Port
  <1>4. SameEnd(ports[u], p) /\ SameRound(ports[u], p) /\ p.busy = ports[u].busy
    BY <1>1, <1>2 DEF SameEnd, SameRound, Port
  <1>5. host[u] = "guest" /\ Store(u, p)
    BY <1>2 DEF GuestAcknowledges, Store
  <1>6. u = 0 /\ carrier[0] # 0 => ~p.busy
    BY <1>4, <1>5, InGuest
  <1>. QED
    BY <1>3, <1>4, <1>5, <1>6, QuietGuest

(* The store that starts the parent's transfer holds it at the barrier.    *)
LEMMA ParentStart ==
  ASSUME LinkInv, host[0] = "guest", carrier[0] # 0, NEW p, NEW w \in Word,
         Begun(ports[0], p, Succ(ports[0].round), w), Store(0, p)
  PROVE  LinkInv' /\ InSequence
  <1>1. /\ 0 \in Id /\ 1 \in Id /\ 1 \in Id \ {0} /\ TypeOK /\ ports[0] \in Port
        /\ ports[0].connected /\ ports[0].id = 0 /\ ports[0].count = 2
    <2>1. 0 \in Id /\ 1 \in Id /\ 1 \in Id \ {0}
      BY Constants
    <2>. QED
      BY <2>1, PortsAre DEF LinkInv, Configured
  <1>2. /\ p \in Port /\ p.busy /\ SameEnd(ports[0], p) /\ p.round = Succ(ports[0].round)
        /\ p.slots = [i \in Id |-> IF i = 0 THEN w ELSE Empty]
        /\ p.outbound = <<FrameOf(p.round, 0, w)>> /\ p.last = ports[0].last
    BY <1>1 DEF Begun
  <1>3. AwaitingPeer(p)
    <2>1. p.connected /\ p.count = 2 /\ p.slots[1] = Empty
      BY <1>1, <1>2 DEF SameEnd
    <2>. QED
      BY <1>2, <2>1, FilledWords DEF AwaitingPeer
  <1>4. Flush(0, p) /\ host' = [host EXCEPT ![0] = "blocked"] /\ UNCHANGED <<carrier, session, up>>
    BY <1>3 DEF Store
  <1>5. PICK q : q = [p EXCEPT !.outbound = NoFrame]
    OBVIOUS
  <1>6. /\ q \in Port /\ ports' = [ports EXCEPT ![0] = q]
        /\ wire' \in [Id -> Seq(Frame)] /\ wire'[0] = wire[0]
        /\ wire'[1] = IF Reaches(0) THEN wire[1] \o p.outbound ELSE wire[1]
    BY ZenonT(60), <1>1, <1>2, <1>4, <1>5, FlushWires
  <1>7. /\ q.busy /\ SameEnd(ports[0], q) /\ q.round = p.round /\ q.slots = p.slots
        /\ q.outbound = NoFrame /\ q.last = p.last
    BY <1>2, <1>5 DEF Port, SameEnd
  <1>8. PortStep(0, q, "blocked")
    BY <1>4, <1>6 DEF PortStep
  <1>9. LinkInv'
    <2>1. /\ q.slots = [i \in Id |-> IF i = 0 THEN w ELSE Empty]
          /\ q.round = Succ(ports[0].round) /\ q.last = ports[0].last
          /\ wire'[1] = IF Reaches(0) THEN wire[1] \o <<FrameOf(q.round, 0, w)>> ELSE wire[1]
      BY <1>2, <1>6, <1>7, Zenon
    <2>. QED
      BY <1>6, <1>7, <1>8, <2>1, ParentAsksStep
  <1>10. PICK h \in HostState : h = "blocked"
    BY DEF HostState
  <1>11. InSequence
    BY <1>1, <1>2, <1>6, <1>7, <1>8, <1>10, StepSequence
  <1>. QED
    BY <1>9, <1>11

LEMMA GuestControlStep ==
  ASSUME LinkInv, NEW u \in Id, GuestControl(u)
  PROVE  LinkInv' /\ InSequence
  <1>1. PICK m \in Modes, irqEnable \in BOOLEAN, start \in BOOLEAN :
          Store(u, WriteSiocnt(ports[u], m, irqEnable, start))
    BY DEF GuestControl
  <1>2. /\ ports[u] \in Port /\ host[u] = "guest" /\ u \in {0, 1} /\ Configured(u)
        /\ 0 \in Id
    BY <1>1, PortsAre, Constants DEF LinkInv, Store
  <1>3. u = 0 /\ carrier[0] # 0 => ~ports[0].busy
    BY <1>2, InGuest
  <1>4. PICK t : t = [ports[u] EXCEPT !.mode = m, !.irqEnable = irqEnable, !.busy = start]
    OBVIOUS
  <1>5. t \in Port
    BY <1>2, <1>4, Zenon DEF Port
  <1>6. SameEnd(ports[u], t) /\ SameRound(ports[u], t) /\ t.busy = start
    BY <1>2, <1>4 DEF SameEnd, SameRound, Port
  <1>7. Store(u, IF start /\ ~ports[u].busy THEN OnStart(t) ELSE t)
    BY <1>1, <1>4, Zenon DEF WriteSiocnt
  <1>8. CASE ~(start /\ ~ports[u].busy)
    <2>1. Store(u, t)
      BY <1>7, <1>8
    <2>2. u = 0 /\ carrier[0] # 0 => ~t.busy
      BY <1>3, <1>6, <1>8
    <2>. QED
      BY <1>2, <1>5, <1>6, <2>1, <2>2, QuietGuest
  <1>9. CASE start /\ ~ports[u].busy
    <2>1. Store(u, OnStart(t))
      BY <1>7, <1>9
    <2>2. CASE carrier[u] = 0
      <3>1. ~t.connected
        BY <1>2, <1>6, <2>2 DEF Configured, SameEnd
      <3>2. PICK p : p = DisconnectedFallback(t)
        OBVIOUS
      <3>3. Store(u, p)
        BY <2>1, <3>1, <3>2 DEF OnStart
      <3>. DEFINE ones == [i \in Id |-> NoData]
                  irq == t.irq \/ t.irqEnable
      <3>4. ones \in [Id -> Data] /\ irq \in BOOLEAN
        BY DataNumbers
      <3>5. p = [t EXCEPT !.data = ones, !.busy = FALSE, !.irq = irq]
        BY <3>2, Zenon DEF DisconnectedFallback
      <3>. HIDE DEF ones, irq
      <3>6. p \in Port
        BY <1>5, <3>4, <3>5, Zenon DEF Port
      <3>7. SameEnd(t, p) /\ SameRound(t, p)
        BY <1>5, <3>5 DEF Port, SameEnd, SameRound
      <3>8. SameEnd(ports[u], p) /\ SameRound(ports[u], p)
        BY <1>6, <3>7 DEF SameEnd, SameRound
      <3>. QED
        BY <1>2, <2>2, <3>3, <3>6, <3>8, QuietGuest
    <2>3. CASE carrier[u] # 0
      <3>1. t.connected /\ t.count = 2 /\ t.id = u
        BY <1>2, <1>6, <2>3 DEF Configured, SameEnd
      <3>2. CASE u = 1
        <4>1. Store(u, t)
          BY <2>1, <3>1, <3>2 DEF OnStart
        <4>. QED
          BY <1>2, <1>5, <1>6, <3>2, <4>1, QuietGuest
      <3>3. CASE u = 0
        <4>1. PICK r \in 0 .. RoundMod - 1 : r = Succ(ports[0].round)
          BY <1>2, <3>3, PortFields, Following
        <4>2. OnStart(t) = BeginRound(t, r)
          BY <1>6, <3>1, <3>3, <4>1 DEF OnStart, Succ, SameRound
        <4>3. PICK w \in Word : Begun(t, BeginRound(t, r), r, w)
          BY <1>5, <3>1, RoundBegins
        <4>4. PICK p : p = BeginRound(t, r)
          OBVIOUS
        <4>5. Begun(ports[0], p, Succ(ports[0].round), w)
          <5>1. SameEnd(ports[0], t) /\ t.last = ports[0].last
            BY <1>6, <3>3 DEF SameRound
          <5>2. Begun(t, p, Succ(ports[0].round), w)
            BY <4>1, <4>3, <4>4
          <5>. QED
            BY <5>1, <5>2 DEF Begun, SameEnd
        <4>6. Store(0, p)
          BY <2>1, <3>3, <4>2, <4>4
        <4>. QED
          BY <1>2, <2>3, <3>3, <4>5, <4>6, ParentStart
      <3>. QED
        BY <1>2, <3>2, <3>3
    <2>. QED
      BY <2>2, <2>3
  <1>. QED
    BY <1>8, <1>9

-----------------------------------------------------------------------------
LEMMA InitInv == Init => LinkInv
  <1>. SUFFICES ASSUME Init PROVE LinkInv
    OBVIOUS
  <1>1. PICK m \in Modes : ports = [u \in Id |-> NewPort(m)]
    BY DEF Init
  <1>2. /\ 0 \in Id /\ 1 \in Id /\ Id = {0, 1} /\ 0 \in Data /\ 0 \in 0 .. RoundMod - 1
        /\ 0 \in 0 .. Count /\ 0 \in 0 .. MaxSessions
        /\ Count = 2
    BY Constants, DataNumbers
  <1>3. PICK p : p = NewPort(m)
    OBVIOUS
  <1>4. /\ [i \in Id |-> 0] \in [Id -> Data]
        /\ [i \in Id |-> Empty] \in [Id -> Word \cup {Empty}]
        /\ NoFrame \in {NoFrame} \cup {<<f>> : f \in Frame}
    BY <1>2
  <1>5. NoResult \in [round : 0 .. RoundMod - 1, words : [Id -> Word \cup {Empty}]]
    BY <1>2, <1>4 DEF NoResult
  <1>6. p \in Port
    BY <1>2, <1>3, <1>4, <1>5, Zenon DEF NewPort, Port
  <1>7. ~p.connected /\ Fresh(p)
    BY <1>3 DEF NewPort, Fresh
  <1>8. \A u \in Id : ports[u] = p /\ host[u] = "frame" /\ carrier[u] = 0 /\ wire[u] = <<>>
    BY <1>1, <1>3 DEF Init
  <1>9. TypeOK
    <2>1. ports \in [Id -> Port]
      BY <1>1, <1>3, <1>6
    <2>2. <<>> \in Seq(Frame)
      BY EmptySeq, Zenon
    <2>. QED
      BY <1>2, <2>1, <2>2 DEF Init, TypeOK, HostState
  <1>10. session = 0 /\ up = FALSE
    BY DEF Init
  <1>11. Sessions /\ \A u \in Id : Configured(u)
    BY <1>2, <1>7, <1>8, <1>10 DEF Sessions, Configured
  <1>12. ParentSound /\ ChildSound
    BY <1>2, <1>7, <1>8 DEF ParentSound, ChildSound, Fresh
  <1>13. ParentExpects /\ ChildExpects
    BY <1>2, <1>8 DEF ParentExpects, ChildExpects
  <1>. QED
    BY <1>9, <1>10, <1>11, <1>12, <1>13 DEF LinkInv

(* The end of a slice or of a frame, and a timeout, touch no port. *)
LEMMA LoopStep ==
  ASSUME LinkInv, NEW u \in Id, Yield(u) \/ FrameComplete(u) \/ Timeout(u)
  PROVE  LinkInv' /\ InSequence
  <1>1. PICK h \in HostState : /\ host' = [host EXCEPT ![u] = h]
                               /\ h = "pump" \/ h = "frame"
                               /\ h = "pump" => carrier[u] # 0
    BY DEF Yield, FrameComplete, Timeout, HostState
  <1>2. UNCHANGED <<ports, carrier, session, up, wire>> /\ host[u] \in {"guest", "blocked"}
    BY DEF Yield, FrameComplete, Timeout
  <1>3. PICK p \in Port : p = ports[u]
    BY PortsAre DEF LinkInv
  <1>4. TypeOK /\ PortStep(u, p, h) /\ p.last = ports[u].last
    BY <1>1, <1>2, <1>3 DEF LinkInv, TypeOK, PortStep
  <1>5. SameEnd(ports[u], p) /\ SameRound(ports[u], p)
    BY <1>3 DEF SameEnd, SameRound
  <1>6. u = 1 => ports[1].outbound = NoFrame
    BY <1>2 DEF LinkInv, ChildSound
  <1>7. u = 0 => (p.busy <=> ports[0].busy)
    BY <1>3
  <1>8. LinkInv'
    BY <1>1, <1>2, <1>4, <1>5, <1>6, <1>7, QuietStep
  <1>. QED
    BY <1>4, <1>8, StepSequence

(* Configuring a core keeps its results, or is for another connection. *)
LEMMA ReconcileSequence ==
  ASSUME LinkInv, NEW u \in Id, Reconcile(u)
  PROVE  InSequence
  <1>1. /\ ports \in [Id -> Port] /\ carrier \in [Id -> 0 .. MaxSessions]
        /\ ports[u] \in Port /\ Configured(u) /\ 0 \in Id /\ 1 \in 0 .. Count
        /\ Count \in 0 .. Count
    BY PortsAre, Constants DEF LinkInv, TypeOK
  <1>. DEFINE stale == carrier[u] # 0 /\ ~Reaches(u)
              alone == IF stale THEN SetLink(ports[u], FALSE, 0, 1) ELSE ports[u]
              joins == up /\ (stale \/ carrier[u] = 0)
              q == IF joins THEN SetLink(alone, TRUE, u, Count) ELSE alone
  <1>2. /\ ports' = [ports EXCEPT ![u] = q]
        /\ carrier' = [carrier EXCEPT ![u] = IF up THEN session ELSE 0]
    BY DEF Reconcile
  <1>. HIDE DEF q
  <1>3. \A v \in Id \ {u} : ports'[v] = ports[v]
    BY <1>1, <1>2
  <1>4. CASE stale
    <2>1. carrier'[u] # carrier[u]
      BY <1>1, <1>2, <1>4 DEF Reaches
    <2>. QED
      BY <1>3, <2>1 DEF InSequence
  <1>5. CASE ~stale
    <2>1. ports'[u] = q
      BY <1>1, <1>2
    <2>2. q.last = ports[u].last
      <3>1. PICK p \in Port, c \in BOOLEAN, n \in 0 .. Count : p = ports[u] /\ c = TRUE /\ n = Count
        BY <1>1
      <3>2. q = p \/ q = SetLink(p, c, u, n)
        BY <1>5, <3>1 DEF q
      <3>3. SetLink(p, c, u, n).last = p.last
        <4>1. c => SameRound(p, SetLink(p, c, u, n))
          BY LinkSet
        <4>. QED
          BY <3>1, <4>1, Zenon DEF SameRound
      <3>. QED
        BY <3>1, <3>2, <3>3
    <2>. QED
      BY <1>3, <2>1, <2>2 DEF InSequence
  <1>. QED
    BY <1>4, <1>5

(* A frame begins on a core configured for good, or for the first time. *)
LEMMA StartFrameStep ==
  ASSUME LinkInv, NEW u \in Id, StartFrame(u)
  PROVE  LinkInv' /\ InSequence
  <1>1. /\ ports \in [Id -> Port] /\ ports[u] \in Port /\ host[u] = "frame" /\ TypeOK
        /\ Configured(u) /\ Count \in 0 .. Count /\ Count = 2
        /\ UNCHANGED <<session, up, wire>> /\ host' = [host EXCEPT ![u] = "pump"]
    BY PortsAre, Constants DEF LinkInv, TypeOK, StartFrame
  <1>2. CASE carrier[u] # 0 /\ UNCHANGED <<ports, carrier>>
    <2>1. PICK p \in Port, h \in HostState : p = ports[u] /\ h = "pump"
      BY <1>1 DEF HostState
    <2>2. PortStep(u, p, h) /\ SameEnd(ports[u], p) /\ SameRound(ports[u], p)
      BY <1>1, <1>2, <2>1 DEF PortStep, SameEnd, SameRound
    <2>3. /\ u = 0 /\ carrier[0] # 0 =>
               (p.busy <=> ports[0].busy) /\ (h = "guest" => ~ports[0].busy)
          /\ u = 1 /\ ports[1].outbound # NoFrame => h = "pump"
      BY <2>1
    <2>4. LinkInv'
      BY <1>1, <1>2, <2>2, <2>3, QuietStep
    <2>5. InSequence
      BY <1>2 DEF InSequence
    <2>. QED
      BY <2>4, <2>5
  <1>3. CASE /\ carrier[u] = 0 /\ up
             /\ ports' = [ports EXCEPT ![u] = SetLink(@, TRUE, u, Count)]
             /\ carrier' = [carrier EXCEPT ![u] = session]
    <2>1. PICK c \in BOOLEAN : c = TRUE
      OBVIOUS
    <2>2. PICK p \in Port, n \in 0 .. Count : p = ports[u] /\ n = Count
      BY <1>1
    <2>3. PICK t : t = SetLink(p, c, u, n)
      OBVIOUS
    <2>4. /\ t \in Port /\ t.connected = c /\ t.id = u /\ t.count = n
          /\ c => SameRound(p, t)
      BY <2>3, LinkSet
    <2>5. Fresh(t)
      BY <1>1, <1>3, <2>1, <2>2, <2>4, SameKind DEF Configured
    <2>6. session # 0
      BY <1>3 DEF LinkInv, Sessions
    <2>7. ports' = [ports EXCEPT ![u] = t]
      BY <1>3, <2>1, <2>2, <2>3
    <2>8. LinkInv'
      BY <1>1, <1>3, <2>1, <2>2, <2>4, <2>5, <2>6, <2>7, JoinStep
    <2>9. ports'[u].last = ports[u].last /\ \A v \in Id \ {u} : ports'[v] = ports[v]
      BY <1>1, <2>1, <2>2, <2>4, <2>7 DEF SameRound
    <2>10. InSequence
      BY <2>9 DEF InSequence
    <2>. QED
      BY <2>8, <2>10
  <1>. QED
    BY <1>2, <1>3 DEF StartFrame

LEMMA StepInv == LinkInv /\ [Next]_vars => LinkInv' /\ [InSequence]_vars
  <1>. SUFFICES ASSUME LinkInv, [Next]_vars
                PROVE  LinkInv' /\ [InSequence]_vars
    OBVIOUS
  <1>1. CASE Connect
    <2>1. InSequence
      BY <1>1 DEF Connect, InSequence
    <2>. QED
      BY <1>1, <2>1, ConnectStep
  <1>2. CASE Cut
    <2>1. InSequence
      BY <1>2 DEF Cut, InSequence
    <2>. QED
      BY <1>2, <2>1, CutStep
  <1>3. ASSUME NEW u \in Id, Guest(u)
        PROVE  LinkInv' /\ InSequence
    BY <1>3, GuestSendStep, GuestControlStep, GuestAcknowledgesStep DEF Guest
  <1>4. ASSUME NEW u \in Id, Host(u)
        PROVE  LinkInv' /\ InSequence
    <2>1. CASE Reconcile(u)
      BY <2>1, ReconcileStep, ReconcileSequence
    <2>2. CASE StartFrame(u)
      BY <2>2, StartFrameStep
    <2>3. CASE Hear(u) \/ Receive(u)
      BY <2>3, HearStep
    <2>4. CASE Poll(u)
      BY <2>4, PollStep
    <2>5. CASE Yield(u) \/ FrameComplete(u) \/ Timeout(u)
      BY <2>5, LoopStep
    <2>. QED
      BY <1>4, <2>1, <2>2, <2>3, <2>4, <2>5 DEF Host, BeginFrame
  <1>5. CASE UNCHANGED vars
    <2>1. ports' = ports /\ host' = host /\ carrier' = carrier /\ session' = session
          /\ up' = up /\ wire' = wire
      BY <1>5 DEF vars
    <2>2. /\ TypeOK' /\ Sessions' /\ \A u \in Id : Configured(u)'
          /\ ParentSound' /\ ChildSound'
      BY <2>1 DEF LinkInv, TypeOK, Sessions, Configured, ParentSound, ChildSound
    <2>3. \A u \in Id : /\ Round(u)' = Round(u) /\ Slots(u)' = Slots(u)
                        /\ Owed(u)' = Owed(u) /\ Last(u)' = Last(u)
      BY <2>1 DEF On, Round, Slots, Owed, Last
    <2>4. up => (Idle \/ Asked \/ Answering \/ Answered)'
      BY <2>1, <2>3, PhaseKept
    <2>5. ParentExpects' /\ ChildExpects'
      BY <2>1, Expected DEF ParentExpects, ChildExpects, On
    <2>. QED
      BY <1>5, <2>1, <2>2, <2>4, <2>5 DEF LinkInv
  <1>. QED
    BY <1>1, <1>2, <1>3, <1>4, <1>5 DEF Next

(* The invariant of the linked pair: on a standing connection a round is   *)
(* asked for, answered and ended, one frame at a time, whatever the hosts' *)
(* loops, timeouts, cuts and new connections do in between.                *)
THEOREM LinkInvariant == Spec => []LinkInv
  <1>. QED
    BY InitInv, StepInv, PTL DEF Spec

(* The serial ports keep their types. *)
THEOREM LinkTypeCorrect == Spec => []TypeOK
  <1>1. LinkInv => TypeOK
    BY DEF LinkInv
  <1>. QED
    BY <1>1, LinkInvariant, PTL

(* In every state of the invariant the latest rounds agree. *)
LEMMA RoundsSame == LinkInv => RoundAgreement
  <1>. SUFFICES ASSUME LinkInv, Linked, ports[0].last.round = ports[1].last.round
                PROVE  ports[0].last.words = ports[1].last.words
    BY DEF RoundAgreement
  <1>1. up /\ On(0) /\ On(1)
    BY Constants DEF Linked, Reaches, On, LinkInv, Sessions
  <1>2. Last(0) = ports[0].last /\ Last(1) = ports[1].last
    BY <1>1 DEF Last
  <1>3. CASE Idle \/ Asked
    BY <1>2, <1>3 DEF Idle, Asked
  <1>4. CASE Answering \/ Answered
    <2>1. Asks /\ Agreed
      BY <1>4 DEF Answering, Answered
    <2>2. Round(1) = Succ(Last(0).round)
      BY <2>1, Zenon DEF Asks, Agreed
    <2>3. ports[1].last.round = ports[1].round
      BY DEF LinkInv, ChildSound, Fresh, Complete, NoResult
    <2>4. PICK r \in 0 .. RoundMod - 1 : r = ports[0].last.round
      BY PortsAre, PortFields, Constants DEF LinkInv
    <2>5. Succ(r) = r
      BY <1>1, <1>2, <2>2, <2>3, <2>4 DEF Round
    <2>. QED
      BY <2>5, Following
  <1>. QED
    BY <1>1, <1>3, <1>4 DEF LinkInv

(* tests/serial_link.rs, for every schedule: two units whose latest round  *)
(* is the same one took the same words from it.                            *)
THEOREM RoundsAgree == Spec => []RoundAgreement
  <1>. QED
    BY RoundsSame, LinkInvariant, PTL

(* In every state of the invariant a parent in its game has no transfer. *)
LEMMA HeldBack == LinkInv => ParentHeldAtBarrier
  <1>. SUFFICES ASSUME LinkInv, NEW u \in Id,
                       host[u] = "guest", carrier[u] # 0, ports[u].id = 0
                PROVE  ~ports[u].busy
    BY DEF ParentHeldAtBarrier
  <1>1. u = 0
    BY DEF LinkInv, Configured
  <1>. QED
    BY <1>1, InGuest

(* The barrier of crates/rewinds/src/main.rs: the parent's game never runs *)
(* with a transfer in flight.                                              *)
THEOREM ParentHeldBack == Spec => []ParentHeldAtBarrier
  <1>. QED
    BY HeldBack, LinkInvariant, PTL

(* Rounds are neither skipped nor completed twice. *)
THEOREM RoundsFollow == Spec => RoundsInSequence
  <1>1. [InSequence]_vars => [\A u \in Id :
          ports'[u].last # ports[u].last /\ carrier'[u] = carrier[u]
            => ports'[u].last.round = (ports[u].last.round + 1) % RoundMod]_vars
    BY DEF InSequence
  <1>. QED
    BY <1>1, StepInv, LinkInvariant, PTL DEF Spec, RoundsInSequence

(* The single outbound slot: no frame can reach a unit that still owes its *)
(* own, since the parent asks for a round only after the last was answered,*)
(* so nothing but the host's poll empties the slot before the link ends.   *)
THEOREM OutboundIsTaken == Spec => OutboundTaken
  <1>. DEFINE Taken == \A u \in Id :
                ports[u].outbound # NoFrame /\ ports'[u].outbound # ports[u].outbound
                  => \/ ports'[u].outbound = NoFrame
                     \/ ~ports'[u].connected
  <1>1. LinkInv /\ [Next]_vars => [Taken]_vars
    <2>. SUFFICES ASSUME LinkInv, Next, NEW u \in Id, ports[u].outbound # NoFrame,
                         ports'[u].outbound # ports[u].outbound
                  PROVE  ports'[u].outbound = NoFrame
      BY Zenon
    <2>1. u = 1 /\ host[1] = "pump" /\ ports \in [Id -> Port]
      BY Constants DEF LinkInv, TypeOK, ParentSound, ChildSound
    <2>2. ~Connect /\ ~Cut
      BY DEF Connect, Cut
    <2>3. PICK v \in Id : Guest(v) \/ Host(v)
      BY <2>2 DEF Next
    <2>4. v = u
      BY <2>1, <2>3 DEF Guest, Host, GuestSend, GuestControl, GuestAcknowledges, Store, Flush,
                        BeginFrame, Reconcile, StartFrame, Hear, HearOne, Poll, Yield,
                        FrameComplete, Receive, Timeout
    <2>5. ~HearOne(u)
      <3>1. SUFFICES ASSUME HearOne(1) PROVE FALSE
        BY <2>1
      <3>2. PICK p : p = Deliver(ports[1], Head(wire[1]))
        OBVIOUS
      <3>. QED
        BY <2>1, <3>1, <3>2, Heard
    <2>6. Poll(u)
      BY <2>1, <2>3, <2>4, <2>5 DEF Guest, Host, GuestSend, GuestControl, GuestAcknowledges, Store,
                              BeginFrame, Reconcile, StartFrame, Hear, Yield, FrameComplete,
                              Receive, Timeout
    <2>7. ports' = [ports EXCEPT ![u] = [ports[u] EXCEPT !.outbound = NoFrame]]
      BY <2>6 DEF Poll, Flush
    <2>. QED
      BY <2>1, <2>7 DEF Port
  <1>. QED
    BY <1>1, LinkInvariant, PTL DEF Spec, OutboundTaken
=============================================================================
