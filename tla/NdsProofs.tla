------------------------------ MODULE NdsProofs ------------------------------
(***************************************************************************)
(* Proofs about the DS's parts: the queues between the two cores, for any  *)
(* depth and any number of words; and the memory as the processors reach   *)
(* it - the banks of video memory, the address maps and the cache model -, *)
(* for any banks, any shape of the cache and any place of the TCMs.        *)
(***************************************************************************)
EXTENDS MCNds, TLAPS, SequenceTheorems, FiniteSetTheorems

(* What the edge detector remembers is what is so. *)
PrevCurrent ==
  \A c \in Core :
    /\ prev[c].sendEmpty = (control[c].sendIrq /\ fifo[c] = <<>>)
    /\ prev[c].recvReady = (control[c].recvIrq /\ fifo[Remote[c]] # <<>>)

(* A queue holds words not yet read, in the order of their numbers. *)
QueuesSorted ==
  \A c \in Core :
    /\ lastRecv[Remote[c]] <= words[c]
    /\ \A i \in 1 .. Len(fifo[c]) :
         lastRecv[Remote[c]] < fifo[c][i] /\ fifo[c][i] <= words[c]
    /\ \A i, j \in 1 .. Len(fifo[c]) : i < j => fifo[c][i] < fifo[c][j]

IInv == TypeOK /\ PrevCurrent /\ EveryEdgeRaises /\ QueuesSorted
-----------------------------------------------------------------------------
(* Each core has one other. *)
LEMMA RemoteFacts ==
  ASSUME NEW c \in Core
  PROVE  /\ Remote[c] \in Core /\ Remote[c] # c /\ Remote[Remote[c]] = c
         /\ \A d \in Core : d = c \/ d = Remote[c]
  <1>1. PICK a \in Core, b \in Core : a # b /\ Core = {a, b}
    BY IpcAssumption
  <1>2. \A e \in Core : Remote[e] = CHOOSE d \in Core : d # e
    BY DEF Remote
  <1>3. \A e \in Core : Remote[e] \in Core /\ Remote[e] # e
    BY <1>1, <1>2
  <1>. QED
    BY <1>1, <1>3

(* The words in a queue are numbers.                                       *)
LEMMA QueueWords ==
  ASSUME NEW q \in Seq(1 .. MaxWords)
  PROVE  Len(q) \in Nat /\ \A i \in 1 .. Len(q) : q[i] \in 1 .. MaxWords /\ q[i] \in Nat
  <1>1. ASSUME NEW i \in 1 .. Len(q) PROVE q[i] \in 1 .. MaxWords
    BY ElementOfSeq
  <1>. QED
    BY <1>1, IpcAssumption

LEMMA InitIInv == Init => IInv
  <1>. SUFFICES ASSUME Init PROVE IInv
    OBVIOUS
  <1>1. TypeOK
    BY IpcAssumption DEF Init, TypeOK, Control, Irq
  <1>2. PrevCurrent /\ EveryEdgeRaises
    BY RemoteFacts DEF Init, PrevCurrent, EveryEdgeRaises
  <1>3. QueuesSorted
    <2>1. \A c \in Core : Len(fifo[c]) = 0 /\ words[c] = 0 /\ lastRecv[Remote[c]] = 0
      BY RemoteFacts DEF Init
    <2>2. \A i \in 1 .. 0 : FALSE
      OBVIOUS
    <2>3. ASSUME NEW c \in Core
          PROVE  /\ lastRecv[Remote[c]] <= words[c]
                 /\ \A i \in 1 .. Len(fifo[c]) : FALSE
      BY <2>1, <2>2
    <2>. QED
      BY <2>3 DEF QueuesSorted
  <1>. QED
    BY <1>1, <1>2, <1>3 DEF IInv

(* After the edge detector has run, what it remembers is current, and each *)
(* condition that has come about has its interrupt set.                    *)
LEMMA DetectorFacts ==
  ASSUME IInv, UpdateEdges, NoteQueues,
         control' \in [Core -> Control], fifo' \in [Core -> Seq(1 .. MaxWords)]
  PROVE  /\ prev' \in [Core -> [sendEmpty : BOOLEAN, recvReady : BOOLEAN]]
         /\ iflags' \in [Core -> SUBSET Irq]
         /\ roomFrom' \in [Core -> BOOLEAN]
         /\ calledFrom' \in [Core -> BOOLEAN]
         /\ PrevCurrent' /\ EveryEdgeRaises'
  <1>. USE RemoteFacts
  <1>1. /\ prev' = [c \in Core |-> [sendEmpty |-> SendEmpty(c), recvReady |-> RecvReady(c)]]
        /\ \A c \in Core : SendEmpty(c) \in BOOLEAN /\ RecvReady(c) \in BOOLEAN
    BY DEF UpdateEdges, SendEmpty, RecvReady, Control
  <1>2. prev' \in [Core -> [sendEmpty : BOOLEAN, recvReady : BOOLEAN]]
    BY <1>1
  <1>3. PrevCurrent'
    BY <1>1 DEF PrevCurrent, SendEmpty, RecvReady
  <1>4. iflags' \in [Core -> SUBSET Irq]
    BY DEF UpdateEdges, IInv, TypeOK, Irq
  <1>5. roomFrom' \in [Core -> BOOLEAN] /\ calledFrom' \in [Core -> BOOLEAN]
    BY DEF NoteQueues, IInv, TypeOK
  <1>6. ASSUME NEW c \in Core
        PROVE  /\ iflags[c] \subseteq iflags'[c]
               /\ SendEmpty(c) /\ ~prev[c].sendEmpty => "sendEmpty" \in iflags'[c]
               /\ RecvReady(c) /\ ~prev[c].recvReady => "recvNotEmpty" \in iflags'[c]
    BY DEF UpdateEdges
  <1>7. ASSUME NEW c \in Core, control'[c].recvIrq, calledFrom'[c], fifo'[Remote[c]] # <<>>
        PROVE  "recvNotEmpty" \in iflags'[c]
    <2>1. CASE ~prev[c].recvReady
      BY <1>6, <1>7, <2>1 DEF RecvReady
    <2>2. CASE prev[c].recvReady
      <3>1. control[c].recvIrq /\ fifo[Remote[c]] # <<>>
        BY <2>2 DEF IInv, PrevCurrent
      <3>2. calledFrom[c] \/ "recvNotEmpty" \in iflags'[c]
        BY <1>7 DEF NoteQueues
      <3>. QED
        BY <3>1, <3>2, <1>6 DEF IInv, EveryEdgeRaises
    <2>. QED
      BY <2>1, <2>2
  <1>8. ASSUME NEW c \in Core, control'[c].sendIrq, roomFrom'[c], fifo'[c] = <<>>
        PROVE  "sendEmpty" \in iflags'[c]
    <2>1. CASE ~prev[c].sendEmpty
      BY <1>6, <1>8, <2>1 DEF SendEmpty
    <2>2. CASE prev[c].sendEmpty
      <3>1. control[c].sendIrq /\ fifo[c] = <<>>
        BY <2>2 DEF IInv, PrevCurrent
      <3>2. roomFrom[c] \/ "sendEmpty" \in iflags'[c]
        BY <1>8 DEF NoteQueues
      <3>. QED
        BY <3>1, <3>2, <1>6 DEF IInv, EveryEdgeRaises
    <2>. QED
      BY <2>1, <2>2
  <1>. QED
    BY <1>2, <1>3, <1>4, <1>5, <1>7, <1>8 DEF EveryEdgeRaises

LEMMA WriteFifocntIInv == ASSUME NEW c \in Core PROVE IInv /\ WriteFifocnt(c) => IInv'
  <1>. SUFFICES ASSUME IInv, WriteFifocnt(c) PROVE IInv'
    OBVIOUS
  <1>. USE RemoteFacts
  <1>1. PICK written \in Control, clear \in BOOLEAN :
          /\ control' = [control EXCEPT ![c] = written]
          /\ fifo' = [fifo EXCEPT ![c] = IF clear THEN <<>> ELSE @]
    BY DEF WriteFifocnt
  <1>2. UpdateEdges /\ NoteQueues /\ UNCHANGED <<lastRecv, words>>
    BY DEF WriteFifocnt
  <1>3. control' \in [Core -> Control]
    BY <1>1 DEF IInv, TypeOK
  <1>4. /\ fifo' \in [Core -> Seq(1 .. MaxWords)]
        /\ \A d \in Core : fifo'[d] = fifo[d] \/ fifo'[d] = <<>>
    <2>1. fifo \in [Core -> Seq(1 .. MaxWords)] /\ <<>> \in Seq(1 .. MaxWords)
      BY DEF IInv, TypeOK
    <2>. QED
      BY <1>1, <2>1
  <1>5. \A d \in Core : Len(fifo'[d]) <= FifoDepth
    BY <1>4, IpcAssumption DEF IInv, TypeOK
  <1>6. TypeOK' /\ PrevCurrent' /\ EveryEdgeRaises'
    BY <1>2, <1>3, <1>4, <1>5, DetectorFacts DEF IInv, TypeOK
  <1>7. QueuesSorted'
    BY <1>2, <1>4 DEF IInv, QueuesSorted
  <1>. QED
    BY <1>6, <1>7 DEF IInv

LEMMA SendIInv == ASSUME NEW c \in Core PROVE IInv /\ Send(c) => IInv'
  <1>. SUFFICES ASSUME IInv, Send(c) PROVE IInv'
    OBVIOUS
  <1>. DEFINE r == Remote[c]
  <1>1. r \in Core /\ r # c /\ Remote[r] = c /\ \A d \in Core : d = c \/ d = r
    BY RemoteFacts
  <1>. HIDE DEF r
  <1>2. /\ words[c] + words[r] < MaxWords
        /\ words' = [words EXCEPT ![c] = @ + 1]
        /\ UpdateEdges /\ NoteQueues /\ UNCHANGED lastRecv
    BY DEF Send, r
  <1>3. /\ words[c] \in Nat /\ words[r] \in Nat
        /\ fifo \in [Core -> Seq(1 .. MaxWords)] /\ Len(fifo[c]) <= FifoDepth
    BY <1>1, IpcAssumption DEF IInv, TypeOK
  <1>4. /\ words' \in [Core -> 0 .. MaxWords] /\ words'[c] = words[c] + 1
        /\ words'[r] = words[r] /\ words'[c] \in 1 .. MaxWords
    BY SMTT(30), <1>1, <1>2, <1>3, IpcAssumption DEF IInv, TypeOK
  <1>5. CASE /\ Len(fifo[c]) < FifoDepth
             /\ fifo' = [fifo EXCEPT ![c] = Append(@, words'[c])]
             /\ UNCHANGED control
    <2>1. /\ fifo'[c] = Append(fifo[c], words'[c]) /\ fifo'[r] = fifo[r]
          /\ fifo'[c] \in Seq(1 .. MaxWords) /\ Len(fifo'[c]) = Len(fifo[c]) + 1
          /\ \A i \in 1 .. Len(fifo[c]) : fifo'[c][i] = fifo[c][i]
          /\ fifo'[c][Len(fifo[c]) + 1] = words'[c]
      BY <1>1, <1>3, <1>4, <1>5
    <2>2. fifo' \in [Core -> Seq(1 .. MaxWords)] /\ \A d \in Core : Len(fifo'[d]) <= FifoDepth
      <3>1. fifo' \in [Core -> Seq(1 .. MaxWords)]
        BY <1>3, <1>5, <2>1
      <3>2. Len(fifo'[c]) <= FifoDepth
        BY <1>3, <1>5, <2>1, IpcAssumption
      <3>3. Len(fifo'[r]) <= FifoDepth
        BY <1>1, <2>1 DEF IInv, TypeOK
      <3>. QED
        BY <1>1, <3>1, <3>2, <3>3
    <2>3. TypeOK' /\ PrevCurrent' /\ EveryEdgeRaises'
      BY <1>2, <1>4, <1>5, <2>2, DetectorFacts DEF IInv, TypeOK
    <2>4. /\ lastRecv[r] <= words[c]
          /\ \A i \in 1 .. Len(fifo[c]) : lastRecv[r] < fifo[c][i] /\ fifo[c][i] <= words[c]
          /\ \A i, j \in 1 .. Len(fifo[c]) : i < j => fifo[c][i] < fifo[c][j]
      BY DEF IInv, QueuesSorted, r
    <2>5. lastRecv[r] \in Nat /\ \A i \in 1 .. Len(fifo[c]) : fifo[c][i] \in Nat
      <3>1. lastRecv[r] \in 0 .. MaxWords /\ fifo[c] \in Seq(1 .. MaxWords)
        BY <1>1, <1>3 DEF IInv, TypeOK
      <3>. QED
        BY <3>1, QueueWords, IpcAssumption
    <2>6. /\ lastRecv[r] <= words'[c]
          /\ \A i \in 1 .. Len(fifo'[c]) : lastRecv[r] < fifo'[c][i] /\ fifo'[c][i] <= words'[c]
          /\ \A i, j \in 1 .. Len(fifo'[c]) : i < j => fifo'[c][i] < fifo'[c][j]
      BY SMTT(30), <1>3, <1>4, <2>1, <2>4, <2>5
    <2>7. QueuesSorted'
      BY <1>1, <1>2, <1>4, <2>1, <2>6 DEF IInv, QueuesSorted, r
    <2>. QED
      BY <2>3, <2>7 DEF IInv
  <1>6. CASE control' = [control EXCEPT ![c].error = TRUE] /\ UNCHANGED fifo
    <2>1. control' \in [Core -> Control]
      BY ZenonT(60), <1>6 DEF IInv, TypeOK, Control
    <2>2. TypeOK' /\ PrevCurrent' /\ EveryEdgeRaises'
      BY <1>2, <1>4, <1>6, <2>1, DetectorFacts DEF IInv, TypeOK
    <2>3. \A d \in Core : words[d] <= words'[d] /\ words[d] \in Nat /\ words'[d] \in Nat
      <3>1. words[c] <= words'[c] /\ words'[c] \in Nat
        BY <1>3, <1>4
      <3>2. words[r] <= words'[r] /\ words'[r] \in Nat
        BY <1>3, <1>4
      <3>. QED
        BY <1>1, <1>3, <3>1, <3>2
    <2>4. \A d \in Core : lastRecv[Remote[d]] \in Nat
                          /\ \A i \in 1 .. Len(fifo[d]) : fifo[d][i] \in Nat
      <3>1. \A d \in Core : lastRecv[Remote[d]] \in 0 .. MaxWords
                            /\ fifo[d] \in Seq(1 .. MaxWords)
        BY RemoteFacts DEF IInv, TypeOK
      <3>. QED
        BY SMTT(30), <3>1, QueueWords, IpcAssumption
    <2>5. QueuesSorted'
      BY <1>2, <1>6, <2>3, <2>4 DEF IInv, QueuesSorted
    <2>. QED
      BY <2>2, <2>5 DEF IInv
  <1>. QED
    BY <1>5, <1>6 DEF Send

LEMMA RecvIInv ==
  ASSUME NEW c \in Core, IInv, Recv(c)
  PROVE  IInv' /\ lastRecv'[c] >= lastRecv[c] /\ lastRecv'[Remote[c]] = lastRecv[Remote[c]]
  <1>. DEFINE r == Remote[c]
  <1>1. r \in Core /\ r # c /\ Remote[r] = c /\ \A d \in Core : d = c \/ d = r
    BY RemoteFacts
  <1>. HIDE DEF r
  <1>2. UpdateEdges /\ NoteQueues /\ UNCHANGED words
    BY DEF Recv
  <1>3. /\ fifo \in [Core -> Seq(1 .. MaxWords)] /\ lastRecv \in [Core -> 0 .. MaxWords]
        /\ \A d \in Core : Len(fifo[d]) <= FifoDepth
    BY DEF IInv, TypeOK
  <1>4. CASE /\ fifo[r] # <<>>
             /\ fifo' = [fifo EXCEPT ![r] = Tail(@)]
             /\ lastRecv' = [lastRecv EXCEPT ![c] = Head(fifo[r])]
             /\ UNCHANGED control
    <2>. DEFINE q == fifo[r]
    <2>1. /\ q \in Seq(1 .. MaxWords) /\ Len(q) \in Nat /\ Len(q) >= 1
          /\ Head(q) = q[1] /\ q[1] \in 1 .. MaxWords
          /\ Tail(q) \in Seq(1 .. MaxWords) /\ Len(Tail(q)) = Len(q) - 1
          /\ \A i \in 1 .. Len(q) - 1 : Tail(q)[i] = q[i + 1]
      <3>1. q \in Seq(1 .. MaxWords) /\ q # <<>>
        BY <1>1, <1>3, <1>4
      <3>. HIDE DEF q
      <3>2. Len(q) \in Nat /\ Len(q) >= 1 /\ Head(q) = q[1]
        BY <3>1
      <3>3. q[1] \in 1 .. MaxWords
        BY <3>1, <3>2, QueueWords
      <3>. QED
        BY <3>1, <3>2, <3>3, HeadTailProperties
    <2>2. /\ fifo' \in [Core -> Seq(1 .. MaxWords)] /\ fifo'[r] = Tail(q) /\ fifo'[c] = fifo[c]
          /\ lastRecv' \in [Core -> 0 .. MaxWords] /\ lastRecv'[c] = q[1]
          /\ lastRecv'[r] = lastRecv[r]
      BY <1>1, <1>3, <1>4, <2>1
    <2>3. \A d \in Core : Len(fifo'[d]) <= FifoDepth
      <3>1. Len(fifo'[r]) <= FifoDepth
        <4>1. Len(fifo'[r]) = Len(q) - 1 /\ Len(q) \in Nat
          BY <2>1, <2>2
        <4>2. Len(q) <= FifoDepth
          BY <1>1, <1>3
        <4>. QED
          BY <4>1, <4>2, IpcAssumption
      <3>2. Len(fifo'[c]) <= FifoDepth
        BY <1>3, <2>2
      <3>. QED
        BY <1>1, <3>1, <3>2
    <2>4. TypeOK' /\ PrevCurrent' /\ EveryEdgeRaises'
      BY <1>2, <1>4, <2>2, <2>3, DetectorFacts DEF IInv, TypeOK
    <2>5. /\ lastRecv[c] <= words[r]
          /\ \A i \in 1 .. Len(q) : lastRecv[c] < q[i] /\ q[i] <= words[r]
          /\ \A i, j \in 1 .. Len(q) : i < j => q[i] < q[j]
      BY <1>1 DEF IInv, QueuesSorted
    <2>. HIDE DEF q
    <2>6. /\ q[1] <= words[r]
          /\ \A i \in 1 .. Len(Tail(q)) : q[1] < Tail(q)[i] /\ Tail(q)[i] <= words[r]
          /\ \A i, j \in 1 .. Len(Tail(q)) : i < j => Tail(q)[i] < Tail(q)[j]
      BY <2>1, <2>5
    <2>7. QueuesSorted'
      BY <1>1, <1>2, <2>2, <2>6 DEF IInv, QueuesSorted, r
    <2>8. lastRecv[c] < q[1] /\ lastRecv[c] \in Nat /\ q[1] \in Nat
      BY <1>3, <2>1, <2>5
    <2>. QED
      BY <2>2, <2>4, <2>7, <2>8 DEF IInv, r
  <1>5. CASE control' = [control EXCEPT ![c].error = TRUE] /\ UNCHANGED <<fifo, lastRecv>>
    <2>1. control' \in [Core -> Control]
      BY ZenonT(60), <1>5 DEF IInv, TypeOK, Control
    <2>2. TypeOK' /\ PrevCurrent' /\ EveryEdgeRaises'
      BY <1>2, <1>5, <2>1, DetectorFacts DEF IInv, TypeOK
    <2>3. QueuesSorted'
      BY <1>2, <1>5 DEF IInv, QueuesSorted
    <2>. QED
      BY <1>3, <1>5, <2>2, <2>3 DEF IInv
  <1>. QED
    BY <1>4, <1>5 DEF Recv, r

LEMMA AcknowledgeIInv == ASSUME NEW c \in Core PROVE IInv /\ Acknowledge(c) => IInv'
  <1>. SUFFICES ASSUME IInv, Acknowledge(c) PROVE IInv'
    OBVIOUS
  <1>1. PICK i \in iflags[c] :
          /\ iflags' = [iflags EXCEPT ![c] = @ \ {i}]
          /\ roomFrom' = IF i = "sendEmpty"
                         THEN [roomFrom EXCEPT ![c] = fifo[c] # <<>>] ELSE roomFrom
          /\ calledFrom' = IF i = "recvNotEmpty"
                           THEN [calledFrom EXCEPT ![c] = fifo[Remote[c]] = <<>>]
                           ELSE calledFrom
          /\ UNCHANGED <<fifo, control, lastRecv, prev, words>>
    BY DEF Acknowledge
  <1>2. TypeOK'
    BY <1>1 DEF IInv, TypeOK
  <1>3. PrevCurrent' /\ QueuesSorted'
    BY <1>1 DEF IInv, PrevCurrent, QueuesSorted
  <1>4. EveryEdgeRaises'
    BY <1>1 DEF IInv, TypeOK, EveryEdgeRaises
  <1>. QED
    BY <1>2, <1>3, <1>4 DEF IInv

LEMMA NextIInv == IInv /\ [Next]_vars => IInv'
  <1>. SUFFICES ASSUME IInv, [Next]_vars PROVE IInv'
    OBVIOUS
  <1>1. CASE UNCHANGED vars
    BY <1>1 DEF vars, IInv, TypeOK, PrevCurrent, EveryEdgeRaises, QueuesSorted
  <1>2. ASSUME NEW c \in Core, WriteFifocnt(c) \/ Send(c) \/ Recv(c) \/ Acknowledge(c)
        PROVE  IInv'
    BY <1>2, WriteFifocntIInv, SendIInv, RecvIInv, AcknowledgeIInv
  <1>. QED
    BY <1>1, <1>2 DEF Next
-----------------------------------------------------------------------------
(* Every state the queues reach satisfies the invariant.                   *)
THEOREM Invariant == Spec => []IInv
  <1>. QED
    BY InitIInv, NextIInv, PTL DEF Spec

(* The queues keep their types and never hold more than their depth.       *)
THEOREM TypeCorrect == Spec => []TypeOK
  <1>1. IInv => TypeOK
    BY DEF IInv
  <1>. QED
    BY <1>1, Invariant, PTL

(* A core that acknowledges before it drains its queue is interrupted for  *)
(* every later word, and for the room it waits for.                        *)
THEOREM NoLostWakeup == Spec => []EveryEdgeRaises
  <1>1. IInv => EveryEdgeRaises
    BY DEF IInv
  <1>. QED
    BY <1>1, Invariant, PTL

(* The words of a sender are read in the order of its stores.              *)
THEOREM FirstInFirstOut == Spec => WordsInOrder
  <1>1. IInv /\ [Next]_vars => [\A c \in Core : lastRecv'[c] >= lastRecv[c]]_vars
    <2>. SUFFICES ASSUME IInv, [Next]_vars, NEW c \in Core PROVE lastRecv'[c] >= lastRecv[c]
      OBVIOUS
    <2>1. lastRecv[c] \in Nat
      BY IpcAssumption DEF IInv, TypeOK
    <2>2. CASE UNCHANGED lastRecv
      BY <2>1, <2>2
    <2>3. ASSUME NEW d \in Core, Recv(d) PROVE lastRecv'[c] >= lastRecv[c]
      <3>1. lastRecv'[d] >= lastRecv[d] /\ lastRecv'[Remote[d]] = lastRecv[Remote[d]]
        BY <2>3, RecvIInv
      <3>2. c = d \/ c = Remote[d]
        BY RemoteFacts
      <3>. QED
        BY <2>1, <3>1, <3>2
    <2>. QED
      BY <2>2, <2>3 DEF Next, WriteFifocnt, Send, Acknowledge, vars
  <1>. QED
    BY <1>1, Invariant, PTL DEF Spec, WordsInOrder
-----------------------------------------------------------------------------
(* The video memory. *)
LEMMA VramCardinality == \A s : Vram!Cardinality(s) = Cardinality(s)
  BY DEF Vram!Cardinality, Cardinality

VramInv == dev \in [VramBanks -> [on : BOOLEAN, mst : 0 .. 7, ofs : 0 .. 3]]

LEMMA VramStart == Vram!Init => VramInv
  BY DEF Vram!Init, Vram!Off, VramInv

LEMMA VramStep == VramInv /\ [Vram!Next]_dev => VramInv'
  <1>. SUFFICES ASSUME VramInv, [Vram!Next]_dev PROVE VramInv'
    OBVIOUS
  <1>. USE DEF VramInv
  <1>1. CASE UNCHANGED dev
    BY <1>1
  <1>2. CASE Vram!SetControl
    <2>1. PICK b \in VramBanks :
            \/ dev' = [dev EXCEPT ![b] = Vram!Off]
            \/ \E mst \in 0 .. 7, ofs \in 0 .. 3 :
                 dev' = [dev EXCEPT ![b] = [on |-> TRUE, mst |-> mst, ofs |-> ofs]]
      BY <1>2 DEF Vram!SetControl
    <2>2. CASE dev' = [dev EXCEPT ![b] = Vram!Off]
      BY <2>2 DEF Vram!Off
    <2>3. ASSUME NEW mst \in 0 .. 7, NEW ofs \in 0 .. 3,
                 dev' = [dev EXCEPT ![b] = [on |-> TRUE, mst |-> mst, ofs |-> ofs]]
          PROVE  VramInv'
      BY <2>3
    <2>. QED
      BY <2>1, <2>2, <2>3
  <1>. QED
    BY <1>1, <1>2 DEF Vram!Next

(* What a bank is used for: one thing at most. *)
LEMMA OneUse ==
  ASSUME VramInv, NEW b \in VramBanks
  PROVE  LET cpu == {core \in {"arm7", "arm9"} : Vram!Base(core, b) # Vram!None}
             other == {u \in DOMAIN Vram!Consumers : b \in Vram!Consumers[u]}
         IN  Cardinality(cpu) + Cardinality(other) <= 1
  <1>. DEFINE cpu == {core \in {"arm7", "arm9"} : Vram!Base(core, b) # Vram!None}
              other == {u \in DOMAIN Vram!Consumers : b \in Vram!Consumers[u]}
  <1>1. /\ dev[b] \in [on : BOOLEAN, mst : 0 .. 7, ofs : 0 .. 3]
        /\ b \in 0 .. 8
    BY NdsAssumption DEF VramInv
  <1>2. cpu = (IF Vram!Arm7Base(b) # -1 THEN {"arm7"} ELSE {})
              \cup (IF Vram!Arm9Base(b) # -1 THEN {"arm9"} ELSE {})
    BY DEF Vram!Base, Vram!None
  <1>3. other = (IF b \in Vram!Consumers.bg_ext_a THEN {"bg_ext_a"} ELSE {})
                \cup (IF b \in Vram!Consumers.obj_ext_a THEN {"obj_ext_a"} ELSE {})
                \cup (IF b \in Vram!Consumers.bg_ext_b THEN {"bg_ext_b"} ELSE {})
                \cup (IF b \in Vram!Consumers.obj_ext_b THEN {"obj_ext_b"} ELSE {})
                \cup (IF b \in Vram!Consumers.texture_image THEN {"texture_image"} ELSE {})
                \cup (IF b \in Vram!Consumers.texture_palette THEN {"texture_palette"} ELSE {})
    BY DEF Vram!Consumers
  <1>4. \A m : b \in Vram!Routed(m) <=> dev[b].on /\ dev[b].mst = m
    BY DEF Vram!Routed
  <1>5. /\ b \in Vram!Consumers.bg_ext_a <=> dev[b].on /\ dev[b].mst = 4 /\ b \in {4, 5, 6}
        /\ b \in Vram!Consumers.obj_ext_a <=> dev[b].on /\ dev[b].mst = 5 /\ b \in {5, 6}
        /\ b \in Vram!Consumers.bg_ext_b <=> dev[b].on /\ dev[b].mst = 2 /\ b = 7
        /\ b \in Vram!Consumers.obj_ext_b <=> dev[b].on /\ dev[b].mst = 3 /\ b = 8
        /\ b \in Vram!Consumers.texture_image <=> dev[b].on /\ dev[b].mst = 3 /\ b \in 0 .. 3
        /\ b \in Vram!Consumers.texture_palette <=> dev[b].on /\ dev[b].mst = 3 /\ b \in {4, 5, 6}
    BY <1>4 DEF Vram!Consumers
  <1>6. Vram!Arm7Base(b) # -1 <=> dev[b].on /\ dev[b].mst = 2 /\ b \in {2, 3}
    BY <1>1, <1>4 DEF Vram!Arm7Base, Vram!None
  <1>7. /\ ~dev[b].on => Vram!Arm9Base(b) = -1
        /\ dev[b].mst = 2 /\ b \in {2, 3, 7} => Vram!Arm9Base(b) = -1
        /\ dev[b].mst = 4 /\ b \notin {2, 3} => Vram!Arm9Base(b) = -1
        /\ dev[b].mst \in {3, 5, 6, 7} => Vram!Arm9Base(b) = -1
    BY <1>1 DEF Vram!Arm9Base, Vram!ObjectBase, Vram!None
  <1>8. \/ cpu = {} /\ (other = {} \/ \E u : other = {u})
        \/ other = {} /\ \E c : cpu = {c}
    <2>. HIDE DEF cpu, other
    <2>1. CASE ~dev[b].on
      BY <1>2, <1>3, <1>5, <1>6, <1>7, <2>1
    <2>2. CASE dev[b].on /\ dev[b].mst \in {0, 1}
      BY <1>2, <1>3, <1>5, <1>6, <2>2
    <2>3. CASE dev[b].on /\ dev[b].mst = 2
      <3>1. CASE b \in {2, 3}
        <4>1. cpu = {"arm7"} /\ other = {}
          BY <1>2, <1>3, <1>5, <1>6, <1>7, <2>3, <3>1
        <4>. QED
          BY <4>1
      <3>2. CASE b = 7
        <4>1. cpu = {} /\ other = {"bg_ext_b"}
          BY <1>2, <1>3, <1>5, <1>6, <1>7, <2>3, <3>2
        <4>. QED
          BY <4>1
      <3>3. CASE b \notin {2, 3, 7}
        <4>1. other = {} /\ (cpu = {} \/ cpu = {"arm9"})
          BY <1>2, <1>3, <1>5, <1>6, <2>3, <3>3
        <4>. QED
          BY <4>1
      <3>. QED
        BY <3>1, <3>2, <3>3
    <2>4. CASE dev[b].on /\ dev[b].mst = 3
      BY <1>1, <1>2, <1>3, <1>5, <1>6, <1>7, <2>4
    <2>5. CASE dev[b].on /\ dev[b].mst = 4
      <3>1. CASE b \in {4, 5, 6}
        <4>1. cpu = {} /\ other = {"bg_ext_a"}
          BY <1>2, <1>3, <1>5, <1>6, <1>7, <2>5, <3>1
        <4>. QED
          BY <4>1
      <3>2. CASE b \notin {4, 5, 6}
        <4>1. other = {} /\ (cpu = {} \/ cpu = {"arm9"})
          BY <1>2, <1>3, <1>5, <1>6, <2>5, <3>2
        <4>. QED
          BY <4>1
      <3>. QED
        BY <3>1, <3>2
    <2>6. CASE dev[b].on /\ dev[b].mst \in {5, 6, 7}
      BY <1>2, <1>3, <1>5, <1>6, <1>7, <2>6
    <2>. QED
      BY <1>1, <2>1, <2>2, <2>3, <2>4, <2>5, <2>6
  <1>. HIDE DEF cpu, other
  <1>9. Cardinality({}) = 0 /\ \A u : Cardinality({u}) = 1
    BY FS_EmptySet, FS_Singleton
  <1>10. Cardinality(cpu) + Cardinality(other) <= 1
    <2>1. CASE cpu = {} /\ other = {}
      BY <1>9, <2>1
    <2>2. CASE cpu = {} /\ \E u : other = {u}
      <3>1. PICK u : other = {u}
        BY <2>2
      <3>2. Cardinality(cpu) = 0 /\ Cardinality(other) = 1
        BY <1>9, <2>2, <3>1
      <3>. QED
        BY <3>2
    <2>3. CASE other = {} /\ \E c : cpu = {c}
      <3>1. PICK c : cpu = {c}
        BY <2>3
      <3>2. Cardinality(cpu) = 1 /\ Cardinality(other) = 0
        BY <1>9, <2>3, <3>1
      <3>. QED
        BY <3>2
    <2>. QED
      BY <1>8, <2>1, <2>2, <2>3
  <1>. QED
    BY <1>10 DEF cpu, other

(* Where the ARM9 sees a bank: in one region whole, or beyond them all. *)
LEMMA InOneRegion ==
  ASSUME VramInv, NEW b \in VramBanks, Vram!Arm9Base(b) # Vram!None
  PROVE  /\ Vram!Arm9Base(b) \in Nat /\ Vram!Size[b] \in 1 .. 8
         /\ \/ Vram!Arm9Base(b) >= 512
            \/ \E r \in Vram!Regions :
                 Vram!Arm9Base(b) >= r[1] /\ Vram!Arm9Base(b) + Vram!Size[b] <= r[2]
  <1>. DEFINE base == Vram!Arm9Base(b)
              c == dev[b]
  <1>1. /\ c.on \in BOOLEAN /\ c.mst \in 0 .. 7 /\ c.ofs \in 0 .. 3
        /\ b \in 0 .. 8
    BY NdsAssumption DEF VramInv
  <1>2. c.on
    BY DEF Vram!Arm9Base, Vram!None
  <1>3. /\ Vram!Size[b] = (IF b < 4 THEN 8 ELSE IF b = 4 THEN 4 ELSE IF b = 7 THEN 2 ELSE 1)
        /\ Vram!Size[b] \in 1 .. 8
    BY <1>1 DEF Vram!Size
  <1>4. CASE c.mst = 0
    <2>1. base = Vram!LcdcBase[b]
      BY <1>2, <1>4 DEF Vram!Arm9Base
    <2>2. Vram!LcdcBase[b] \in Nat /\ Vram!LcdcBase[b] >= 512
      BY <1>1 DEF Vram!LcdcBase
    <2>. QED
      BY <1>3, <2>1, <2>2
  <1>5. CASE c.mst = 1
    <2>1. base = Vram!BackgroundBase(b, c.ofs)
      BY <1>2, <1>5 DEF Vram!Arm9Base
    <2>2. \/ b < 4 /\ base = 8 * c.ofs
          \/ b = 4 /\ base = 0
          \/ b \in {5, 6} /\ base = (c.ofs % 2) + 4 * (c.ofs \div 2)
          \/ b = 7 /\ base = 128
          \/ b = 8 /\ base = 130
      BY <1>1, <2>1 DEF Vram!BackgroundBase
    <2>3. \/ base \in Nat /\ base + Vram!Size[b] <= 32
          \/ base >= 128 /\ base \in Nat /\ base + Vram!Size[b] <= 136
      BY <1>1, <1>3, <2>2
    <2>. QED
      BY <1>3, <2>3 DEF Vram!Regions
  <1>6. CASE c.mst = 2
    <2>1. base = Vram!ObjectBase(b, c.ofs)
      BY <1>2, <1>6 DEF Vram!Arm9Base
    <2>2. \/ b \in {0, 1} /\ base = 256 + 8 * (c.ofs % 2)
          \/ b = 4 /\ base = 256
          \/ b \in {5, 6} /\ base = 256 + (c.ofs % 2) + 4 * (c.ofs \div 2)
          \/ b = 8 /\ base = 384
      BY <1>1, <2>1 DEF Vram!ObjectBase, Vram!None
    <2>3. \/ base >= 256 /\ base \in Nat /\ base + Vram!Size[b] <= 272
          \/ base >= 384 /\ base \in Nat /\ base + Vram!Size[b] <= 392
      BY <1>1, <1>3, <2>2
    <2>. QED
      BY <1>3, <2>3 DEF Vram!Regions
  <1>7. CASE c.mst \in 3 .. 7
    <2>1. b \in {2, 3} /\ base = (IF b = 2 THEN 128 ELSE 384)
      BY <1>1, <1>2, <1>7 DEF Vram!Arm9Base, Vram!None
    <2>. QED
      BY <1>3, <2>1 DEF Vram!Regions
  <1>. QED
    BY <1>1, <1>4, <1>5, <1>6, <1>7

LEMMA ImageIsMap ==
  ASSUME VramInv
  PROVE  Vram!ImageIsTheMap
  <1>. SUFFICES ASSUME NEW r \in Vram!Regions, NEW at \in r[1] .. r[2] - 1,
                       Cardinality(Vram!Mapped("arm9", at)) <= 1
                PROVE  Vram!Assembled(r[1], r[2], at) = Vram!Resolve("arm9", at)
    BY VramCardinality DEF Vram!ImageIsTheMap
  <1>. DEFINE s == Vram!Mapped("arm9", at)
              t == {b \in s : Vram!Arm9Base(b) \in r[1] .. r[2] - 1}
  <1>1. \A b \in s : /\ b \in VramBanks /\ Vram!Arm9Base(b) # Vram!None
                     /\ at \in Vram!Arm9Base(b) .. Vram!Arm9Base(b) + Vram!Size[b] - 1
    BY DEF Vram!Mapped, Vram!Base
  <1>2. at \in Int /\ at < 512
    BY DEF Vram!Regions
  <1>3. \A b \in s : Vram!Arm9Base(b) \in r[1] .. r[2] - 1
    <2>. SUFFICES ASSUME NEW b \in s PROVE Vram!Arm9Base(b) \in r[1] .. r[2] - 1
      OBVIOUS
    <2>1. /\ Vram!Arm9Base(b) \in Nat /\ Vram!Size[b] \in 1 .. 8
          /\ \/ Vram!Arm9Base(b) >= 512
             \/ \E q \in Vram!Regions :
                  Vram!Arm9Base(b) >= q[1] /\ Vram!Arm9Base(b) + Vram!Size[b] <= q[2]
      BY <1>1, InOneRegion
    <2>2. PICK base \in Nat, size \in 1 .. 8 : base = Vram!Arm9Base(b) /\ size = Vram!Size[b]
      BY <2>1
    <2>3. at \in base .. base + size - 1
      BY <1>1, <2>2
    <2>4. PICK q \in Vram!Regions : base >= q[1] /\ base + size <= q[2]
      BY <1>2, <2>1, <2>2, <2>3
    <2>5. base \in r[1] .. r[2] - 1
      BY <2>3, <2>4 DEF Vram!Regions
    <2>. QED
      BY <2>2, <2>5
  <1>4. t = s
    BY <1>3
  <1>5. s = {} \/ \E b : s = {b}
    <2>1. s \subseteq 0 .. 8
      BY <1>1, NdsAssumption
    <2>. HIDE DEF s
    <2>2. IsFiniteSet(s)
      <3>1. 0 \in Int /\ 8 \in Int
        OBVIOUS
      <3>2. IsFiniteSet(0 .. 8)
        BY ONLY <3>1, FS_Interval
      <3>. QED
        BY <2>1, <3>2, FS_Subset
    <2>5. Cardinality(s) <= 1
      BY DEF s
    <2>3. Cardinality(s) \in Nat /\ (Cardinality(s) = 0 <=> s = {})
      BY <2>2, FS_CardinalityType, FS_EmptySet
    <2>4. Cardinality(s) = 1 => \E b : s = {b}
      BY <2>2, FS_Singleton
    <2>6. Cardinality(s) = 0 \/ Cardinality(s) = 1
      BY <2>3, <2>5
    <2>. QED
      BY <2>3, <2>4, <2>6, Zenon
  <1>. HIDE DEF s
  <1>6. CASE s = {}
    BY <1>4, <1>6 DEF Vram!Assembled, Vram!Resolve, s
  <1>7. CASE \E b : s = {b}
    <2>1. PICK b : s = {b}
      BY <1>7
    <2>2. Vram!Lowest(s) = b /\ Vram!Highest(s) = b
      <3>1. b \in VramBanks
        BY <1>1, <2>1
      <3>2. b \in Int
        BY <3>1, NdsAssumption
      <3>. QED
        BY <2>1, <3>2 DEF Vram!Lowest, Vram!Highest
    <2>3. Vram!Assembled(r[1], r[2], at) = <<b, at - Vram!Arm9Base(b)>>
      BY <1>4, <2>1, <2>2 DEF Vram!Assembled, s
    <2>4. Vram!Resolve("arm9", at) = <<b, at - Vram!Arm9Base(b)>>
      BY <2>1, <2>2 DEF Vram!Resolve, Vram!Base, s
    <2>. QED
      BY <2>3, <2>4
  <1>. QED
    BY <1>5, <1>6, <1>7

LEMMA VramOneOwner == VramInv => Vram!BanksHaveOneUse /\ Vram!ImageIsTheMap
  <1>. SUFFICES ASSUME VramInv PROVE Vram!BanksHaveOneUse
    BY ImageIsMap
  <1>1. Vram!VramStat = {b \in VramBanks : Vram!Arm7Base(b) # Vram!None}
    <2>1. \A b \in VramBanks : Vram!Arm7Base(b) # Vram!None <=> b \in Vram!Routed(2) /\ b \in {2, 3}
      BY DEF Vram!Arm7Base, Vram!None, VramInv
    <2>. QED
      BY <2>1 DEF Vram!VramStat, Vram!Routed
  <1>. QED
    BY <1>1, OneUse, VramCardinality DEF Vram!BanksHaveOneUse
-----------------------------------------------------------------------------
(* The ARM9's cache model. *)
LEMMA ModRange ==
  ASSUME NEW n \in Nat \ {0}, NEW m \in Nat
  PROVE  m % n \in 0 .. n - 1
  OBVIOUS

CacheInv ==
  /\ dev \in [tags : [0 .. CacheSets - 1 -> [0 .. CacheWays - 1 -> Int]],
              victim : [0 .. CacheSets - 1 -> 0 .. CacheWays - 1],
              last : Int, hit : BOOLEAN]
  /\ Memory!CacheIsASet

LEMMA CacheStart == Memory!CacheInit => CacheInv
  <1>. SUFFICES ASSUME Memory!CacheInit PROVE CacheInv
    OBVIOUS
  <1>1. 0 \in 0 .. CacheWays - 1 /\ -1 \in Int
    BY NdsAssumption
  <1>. QED
    BY <1>1 DEF Memory!CacheInit, Memory!Invalid, CacheInv, Memory!CacheIsASet

LEMMA CacheStep == CacheInv /\ [Memory!CacheNext]_dev => CacheInv'
  <1>. SUFFICES ASSUME CacheInv, [Memory!CacheNext]_dev PROVE CacheInv'
    OBVIOUS
  <1>. USE DEF CacheInv
  <1>0. ASSUME dev' = [dev EXCEPT !.hit = dev'.hit], dev'.hit \in BOOLEAN
        PROVE  CacheInv'
    <2>1. dev'.tags = dev.tags /\ dev'.victim = dev.victim /\ dev'.last = dev.last
      BY <1>0
    <2>2. dev' \in [tags : [0 .. CacheSets - 1 -> [0 .. CacheWays - 1 -> Int]],
                    victim : [0 .. CacheSets - 1 -> 0 .. CacheWays - 1],
                    last : Int, hit : BOOLEAN]
      BY <1>0
    <2>3. Memory!CacheIsASet'
      BY <2>1 DEF Memory!CacheIsASet, Memory!Resident
    <2>. QED
      BY <2>2, <2>3
  <1>1. CASE UNCHANGED dev
    BY <1>1 DEF Memory!CacheIsASet, Memory!Resident
  <1>2. ASSUME NEW line \in 0 .. CacheLines - 1, Memory!Contains(line)
        PROVE  CacheInv'
    BY <1>0, <1>2 DEF Memory!Contains, Memory!Resident
  <1>3. ASSUME NEW line \in 0 .. CacheLines - 1, Memory!Access(line)
        PROVE  CacheInv'
    <2>. DEFINE s == Memory!SetOf(line)
                v == dev.victim[s]
    <2>1. line \in Nat /\ line # -1 /\ s \in 0 .. CacheSets - 1
      BY NdsAssumption, ModRange DEF Memory!SetOf
    <2>2. v \in 0 .. CacheWays - 1
      BY <2>1
    <2>3. CASE line = dev.last /\ dev' = [dev EXCEPT !.hit = TRUE]
      BY <1>0, <2>3
    <2>4. CASE Memory!Resident(line) /\ dev' = [dev EXCEPT !.last = line, !.hit = TRUE]
      <3>1. dev'.tags = dev.tags /\ dev'.last = line
        BY <2>4
      <3>2. dev' \in [tags : [0 .. CacheSets - 1 -> [0 .. CacheWays - 1 -> Int]],
                      victim : [0 .. CacheSets - 1 -> 0 .. CacheWays - 1],
                      last : Int, hit : BOOLEAN]
        <4>1. dev' = [tags |-> dev.tags, victim |-> dev.victim, last |-> line, hit |-> TRUE]
          BY <2>4
        <4>2. line \in Int
          BY <2>1
        <4>. QED
          BY <4>1, <4>2
      <3>3. Memory!CacheIsASet'
        BY <2>4, <3>1 DEF Memory!CacheIsASet, Memory!Resident
      <3>. QED
        BY <3>2, <3>3
    <2>5. CASE /\ ~Memory!Resident(line)
               /\ dev' = [dev EXCEPT !.tags[s][v] = line, !.victim[s] = (v + 1) % CacheWays,
                                     !.last = line, !.hit = FALSE]
      <3>. HIDE DEF s, v
      <3>1. (v + 1) % CacheWays \in 0 .. CacheWays - 1
        BY <2>2, NdsAssumption, ModRange
      <3>2. /\ dev'.tags = [dev.tags EXCEPT ![s][v] = line]
            /\ dev'.last = line
        BY <2>5
      <3>3. dev' \in [tags : [0 .. CacheSets - 1 -> [0 .. CacheWays - 1 -> Int]],
                      victim : [0 .. CacheSets - 1 -> 0 .. CacheWays - 1],
                      last : Int, hit : BOOLEAN]
        <4>1. dev'.tags \in [0 .. CacheSets - 1 -> [0 .. CacheWays - 1 -> Int]]
          <5>1. dev.tags \in [0 .. CacheSets - 1 -> [0 .. CacheWays - 1 -> Int]] /\ line \in Int
            BY <2>1
          <5>2. [dev.tags[s] EXCEPT ![v] = line] \in [0 .. CacheWays - 1 -> Int]
            BY <2>1, <5>1
          <5>. QED
            BY <2>1, <3>2, <5>1, <5>2
        <4>2. dev'.victim = [dev.victim EXCEPT ![s] = (v + 1) % CacheWays]
          BY <2>5
        <4>3. dev'.victim \in [0 .. CacheSets - 1 -> 0 .. CacheWays - 1]
          BY <2>1, <3>1, <4>2
        <4>. DEFINE t == dev'.tags
                    u == dev'.victim
        <4>4. dev' = [tags |-> t, victim |-> u, last |-> line, hit |-> FALSE]
          BY <2>5
        <4>5. line \in Int
          BY <2>1
        <4>6. /\ t \in [0 .. CacheSets - 1 -> [0 .. CacheWays - 1 -> Int]]
              /\ u \in [0 .. CacheSets - 1 -> 0 .. CacheWays - 1]
          BY <4>1, <4>3
        <4>. HIDE DEF t, u
        <4>. QED
          BY <4>4, <4>5, <4>6
      <3>4. ASSUME NEW q \in 0 .. CacheSets - 1, NEW w \in 0 .. CacheWays - 1
            PROVE  dev'.tags[q][w] = IF q = s /\ w = v THEN line ELSE dev.tags[q][w]
        <4>1. /\ dev.tags \in [0 .. CacheSets - 1 -> [0 .. CacheWays - 1 -> Int]]
              /\ s \in DOMAIN dev.tags /\ v \in DOMAIN dev.tags[s]
          BY <2>1, <2>2
        <4>2. dev'.tags = [dev.tags EXCEPT ![s] = [dev.tags[s] EXCEPT ![v] = line]]
          BY <3>2
        <4>3. CASE q = s
          <5>1. dev'.tags[q] = [dev.tags[s] EXCEPT ![v] = line]
            BY <4>1, <4>2, <4>3
          <5>2. dev.tags[s] \in [0 .. CacheWays - 1 -> Int]
            BY <2>1, <4>1
          <5>. QED
            BY <4>3, <5>1, <5>2
        <4>4. CASE q # s
          BY <4>1, <4>2, <4>4
        <4>. QED
          BY <4>3, <4>4
      <3>5. \A w \in 0 .. CacheWays - 1 : dev.tags[s][w] # line
        BY <2>5 DEF Memory!Resident, s
      <3>6. ASSUME NEW q \in 0 .. CacheSets - 1, NEW w \in 0 .. CacheWays - 1,
                   NEW x \in 0 .. CacheWays - 1, dev'.tags[q][w] # -1
            PROVE  /\ Memory!SetOf(dev'.tags[q][w]) = q
                   /\ dev'.tags[q][w] = dev'.tags[q][x] => w = x
        <4>1. CASE q = s /\ w = v
          BY <3>4, <3>5, <4>1 DEF s
        <4>2. CASE ~(q = s /\ w = v)
          BY <3>4, <3>5, <3>6, <4>2 DEF Memory!CacheIsASet, Memory!Invalid
        <4>. QED
          BY <4>1, <4>2
      <3>7. dev'.tags[Memory!SetOf(line)][v] = line
        BY <2>1, <2>2, <3>4 DEF s
      <3>8. Memory!CacheIsASet'
        BY <2>2, <3>2, <3>6, <3>7
           DEF Memory!CacheIsASet, Memory!Resident, Memory!Invalid, Memory!SetOf
      <3>. QED
        BY <3>3, <3>8
    <2>. QED
      BY <1>3, <2>3, <2>4, <2>5 DEF Memory!Access
  <1>. QED
    BY <1>1, <1>2, <1>3 DEF Memory!CacheNext
-----------------------------------------------------------------------------
(* The address maps. *)
MapInv ==
  dev \in [wramcnt : 0 .. 3, control : SUBSET {"itcm", "dtcm"}, itcm : {3} \cup TcmFields,
           dtcm : {3} \cup TcmFields, base : {0} \cup DtcmBases]

LEMMA MapStart == Memory!MapInit => MapInv
  BY DEF Memory!MapInit, MapInv

LEMMA MapStep == MapInv /\ [Memory!MapNext]_dev => MapInv'
  <1>. SUFFICES ASSUME MapInv, [Memory!MapNext]_dev PROVE MapInv'
    OBVIOUS
  <1>. USE DEF MapInv
  <1>1. CASE UNCHANGED dev
    BY <1>1
  <1>2. CASE Memory!WriteWramcnt
    BY <1>2 DEF Memory!WriteWramcnt
  <1>3. CASE Memory!WriteControl
    BY <1>3 DEF Memory!WriteControl, Memory!Controls
  <1>4. CASE Memory!WriteItcm
    BY <1>4 DEF Memory!WriteItcm
  <1>5. CASE Memory!WriteDtcm
    BY <1>5 DEF Memory!WriteDtcm
  <1>. QED
    BY <1>1, <1>2, <1>3, <1>4, <1>5 DEF Memory!MapNext

(* 2^20 is a number. *)
LEMMA PagesInt == Memory!Pages \in Int
  BY DEF Memory!Pages

(* What is shared of the memory between the cores is one core's, page by page. *)
LEMMA SharedHalves ==
  ASSUME MapInv, NEW a \in Int, NEW b \in Int,
         Memory!MapWram("arm7", a).slot = "shared", Memory!MapWram("arm9", b).slot = "shared"
  PROVE  Memory!MapWram("arm7", a) # Memory!MapWram("arm9", b)
  <1>1. dev.wramcnt \in 0 .. 3
    BY DEF MapInv
  <1>2. /\ a % 4 \in 0 .. 3 /\ b % 4 \in 0 .. 3
    OBVIOUS
  <1>3. CASE dev.wramcnt \in {0, 3}
    BY <1>3 DEF Memory!MapWram, Memory!SharedAlloc, Memory!At, Memory!Nowhere
  <1>4. CASE dev.wramcnt = 1
    BY <1>2, <1>4 DEF Memory!MapWram, Memory!SharedAlloc, Memory!At, Memory!Nowhere
  <1>5. CASE dev.wramcnt = 2
    BY <1>2, <1>5 DEF Memory!MapWram, Memory!SharedAlloc, Memory!At, Memory!Nowhere
  <1>. QED
    BY <1>1, <1>3, <1>4, <1>5

(* The stores of each core. *)
LEMMA StoresOfArm7 ==
  ASSUME NEW a \in Int, NEW i \in BOOLEAN
  PROVE  LET x == Memory!Reached("arm7", a, i) IN
         \/ x.slot \in {"io", "vram", "main", "arm7_wram", "arm7_bios", "none"}
         \/ x.slot = "shared" /\ x = Memory!MapWram("arm7", a)
  <1>1. Memory!Tcm("arm7", a, i) = Memory!Nowhere
    BY DEF Memory!Tcm
  <1>2. Memory!Map("arm7", a, i) = Memory!MainMap("arm7", a)
    BY <1>1 DEF Memory!Map
  <1>3. Memory!MapWram("arm7", a).slot \in {"arm7_wram", "none", "shared"}
    BY DEF Memory!MapWram, Memory!At, Memory!Nowhere
  <1>4. \/ Memory!MainMap("arm7", a).slot \in {"main", "arm7_bios", "none"}
        \/ Memory!MainMap("arm7", a) = Memory!MapWram("arm7", a)
    BY DEF Memory!MainMap, Memory!At, Memory!Nowhere
  <1>. QED
    BY <1>2, <1>3, <1>4 DEF Memory!Reached, Memory!At

LEMMA StoresOfArm9 ==
  ASSUME NEW a \in Int, NEW i \in BOOLEAN
  PROVE  LET x == Memory!Reached("arm9", a, i) IN
         /\ \/ x.slot \in {"io", "vram", "main", "itcm", "dtcm", "palette", "oam",
                           "arm9_bios", "none"}
            \/ x.slot = "shared" /\ x = Memory!MapWram("arm9", a)
         /\ i => x.slot # "dtcm"
  <1>1. /\ Memory!Tcm("arm9", a, i).slot \in {"itcm", "dtcm", "none"}
        /\ i => Memory!Tcm("arm9", a, i).slot # "dtcm"
    BY DEF Memory!Tcm, Memory!At, Memory!Nowhere
  <1>2. Memory!MapWram("arm9", a).slot \in {"none", "shared"}
    BY DEF Memory!MapWram, Memory!At, Memory!Nowhere
  <1>3. \/ Memory!MainMap("arm9", a).slot \in {"main", "palette", "oam", "arm9_bios", "none"}
        \/ Memory!MainMap("arm9", a) = Memory!MapWram("arm9", a)
    BY DEF Memory!MainMap, Memory!At, Memory!Nowhere
  <1>4. Memory!Map("arm9", a, i) \in {Memory!Tcm("arm9", a, i), Memory!MainMap("arm9", a)}
    BY DEF Memory!Map
  <1>. QED
    BY <1>1, <1>2, <1>3, <1>4 DEF Memory!Reached, Memory!At

LEMMA MapOneOwner == MapInv => Memory!StoresHaveOneOwner
  <1>. SUFFICES ASSUME MapInv PROVE Memory!StoresHaveOneOwner
    OBVIOUS
  <1>0. \A a \in Memory!Probes : a \in Int
    <2>1. Memory!Pages - 16 \in Int /\ Memory!Pages - 1 \in Int
      BY PagesInt
    <2>2. \A b \in DtcmBases : b \in Int
      BY NdsAssumption
    <2>. QED
      BY <2>1, <2>2 DEF Memory!Probes
  <1>1. ASSUME NEW a \in Memory!Probes, NEW b \in Memory!Probes, NEW i \in BOOLEAN,
               NEW j \in BOOLEAN,
               Memory!Reached("arm7", a, i) = Memory!Reached("arm9", b, j)
        PROVE  Memory!Reached("arm7", a, i).slot \in {"main", "io", "vram", "none"}
    <2>1. a \in Int /\ b \in Int
      BY <1>0
    <2>. QED
      BY <1>1, <2>1, StoresOfArm7, StoresOfArm9, SharedHalves
  <1>2. \A a \in Memory!Probes : Memory!Reached("arm9", a, TRUE).slot # "dtcm"
    BY <1>0, StoresOfArm9
  <1>3. ASSUME ~Memory!Hidden,
               NEW k \in 0 .. 7
        PROVE  \E core \in Memory!Cores : \E a \in Memory!Low :
                 Memory!Reached(core, a, FALSE) = Memory!At("shared", k)
    <2>1. ASSUME NEW core \in Memory!Cores, NEW a \in Memory!Low, NEW i \in BOOLEAN
          PROVE  Memory!Reached(core, a, i) = Memory!MapWram(core, a)
      <3>1. a \div 4096 = 3
        BY DEF Memory!Low
      <3>2. Memory!Tcm(core, a, i) = Memory!Nowhere
        BY <1>3 DEF Memory!Tcm, Memory!Hidden
      <3>3. Memory!Reached(core, a, i) = Memory!Map(core, a, i)
        BY <3>1 DEF Memory!Reached
      <3>4. Memory!Map(core, a, i) = Memory!MainMap(core, a)
        BY <3>2 DEF Memory!Map
      <3>5. Memory!MainMap(core, a) = Memory!MapWram(core, a)
        <4>1. ~(a >= Memory!Pages - 16)
          BY DEF Memory!Pages, Memory!Low
        <4>. QED
          BY <3>1, <4>1 DEF Memory!MainMap
      <3>. QED
        BY <3>3, <3>4, <3>5
    <2>2. dev.wramcnt = 0 \/ dev.wramcnt = 1 \/ dev.wramcnt = 2 \/ dev.wramcnt = 3
      <3>1. dev.wramcnt \in 0 .. 3
        BY DEF MapInv
      <3>. QED
        BY <3>1
    <2>9. \A core \in Memory!Cores : \A a \in Memory!Low : \A x :
            Memory!MapWram(core, a) = x => Memory!Reached(core, a, FALSE) = x
      <3>1. \A core \in Memory!Cores : \A a \in Memory!Low : \A i \in BOOLEAN :
              Memory!Reached(core, a, i) = Memory!MapWram(core, a)
        BY <2>1
      <3>. QED
        BY <3>1, Zenon
    <2>3. "arm7" \in Memory!Cores /\ "arm9" \in Memory!Cores
      BY DEF Memory!Cores
    <2>. DEFINE f == 12288 + k
                h == 12288 + (k % 4)
    <2>4. /\ f \in Int /\ f % 8 = k /\ f < 14336
          /\ h \in Int /\ h % 4 = k % 4 /\ h < 14336
          /\ k < 4 => k % 4 = k
          /\ k >= 4 => k % 4 = k - 4
      OBVIOUS
    <2>10. f \in Memory!Low /\ h \in Memory!Low
      BY DEF Memory!Low
    <2>. HIDE DEF f, h
    <2>5. CASE dev.wramcnt = 0
      <3>1. Memory!MapWram("arm9", f) = Memory!At("shared", k)
        BY <2>4, <2>5 DEF Memory!MapWram, Memory!SharedAlloc
      <3>2. Memory!Reached("arm9", f, FALSE) = Memory!At("shared", k)
        BY <2>9, <2>3, <2>10, <3>1, Zenon
      <3>. QED
        BY <2>3, <2>10, <3>2, Zenon
    <2>6. CASE dev.wramcnt = 3
      <3>0. Memory!SharedAlloc("arm7") = [base |-> 0, len |-> 8]
        BY <2>6 DEF Memory!SharedAlloc
      <3>1. Memory!MapWram("arm7", f) = Memory!At("shared", k)
        BY <2>4, <3>0 DEF Memory!MapWram
      <3>2. Memory!Reached("arm7", f, FALSE) = Memory!At("shared", k)
        BY <2>9, <2>3, <2>10, <3>1, Zenon
      <3>. QED
        BY <2>3, <2>10, <3>2, Zenon
    <2>7. CASE dev.wramcnt = 1
      <3>1. /\ k >= 4 => Memory!MapWram("arm9", h) = Memory!At("shared", k)
            /\ k < 4 => Memory!MapWram("arm7", h) = Memory!At("shared", k)
        <4>1. /\ Memory!SharedAlloc("arm9") = [base |-> 4, len |-> 4]
              /\ Memory!SharedAlloc("arm7") = [base |-> 0, len |-> 4]
          BY <2>7 DEF Memory!SharedAlloc
        <4>. QED
          BY <2>4, <4>1 DEF Memory!MapWram
      <3>2. k < 4 \/ k >= 4
        OBVIOUS
      <3>. QED
        BY <2>9, <2>3, <2>10, <3>1, <3>2, Zenon
    <2>8. CASE dev.wramcnt = 2
      <3>1. /\ k < 4 => Memory!MapWram("arm9", h) = Memory!At("shared", k)
            /\ k >= 4 => Memory!MapWram("arm7", h) = Memory!At("shared", k)
        <4>1. /\ Memory!SharedAlloc("arm9") = [base |-> 0, len |-> 4]
              /\ Memory!SharedAlloc("arm7") = [base |-> 4, len |-> 4]
          BY <2>8 DEF Memory!SharedAlloc
        <4>. QED
          BY <2>4, <4>1 DEF Memory!MapWram
      <3>2. k < 4 \/ k >= 4
        OBVIOUS
      <3>. QED
        BY <2>9, <2>3, <2>10, <3>1, <3>2, Zenon
    <2>. QED
      BY <2>2, <2>5, <2>6, <2>7, <2>8, Zenon
  <1>4. \A x \in Memory!Reach("arm7") \cap Memory!Reach("arm9") :
          x.slot \in {"main", "io", "vram", "none"}
    BY <1>1 DEF Memory!Reach
  <1>5. ~Memory!Hidden =>
          \A k \in 0 .. 7 : \E core \in Memory!Cores : \E a \in Memory!Low :
            Memory!Reached(core, a, FALSE) = Memory!At("shared", k)
    BY <1>3, Zenon
  <1>. QED
    BY <1>2, <1>4, <1>5, Zenon DEF Memory!StoresHaveOneOwner
-----------------------------------------------------------------------------
(* A behaviour is about one of the parts, and the queues are there always. *)
NdsInv ==
  /\ IInv
  /\ unit = "vram" => VramInv
  /\ unit = "cache" => CacheInv
  /\ unit = "memory" => MapInv

LEMMA NdsStart == NdsInit => NdsInv
  <1>. SUFFICES ASSUME NdsInit PROVE NdsInv
    OBVIOUS
  <1>1. IInv
    BY InitIInv DEF NdsInit
  <1>2. unit = "vram" => Vram!Init
    BY DEF NdsInit, DeviceInit
  <1>3. unit = "cache" => Memory!CacheInit
    BY DEF NdsInit, DeviceInit
  <1>4. unit = "memory" => Memory!MapInit
    BY DEF NdsInit, DeviceInit
  <1>. QED
    BY <1>1, <1>2, <1>3, <1>4, VramStart, CacheStart, MapStart DEF NdsInv

LEMMA NdsStep == NdsInv /\ [NdsNext]_<<vars, unit, dev>> => NdsInv'
  <1>. SUFFICES ASSUME NdsInv, [NdsNext]_<<vars, unit, dev>> PROVE NdsInv'
    OBVIOUS
  <1>1. [Next]_vars /\ UNCHANGED unit
    BY DEF NdsNext, Still
  <1>2. unit = "vram" => [Vram!Next]_dev
    BY DEF NdsNext, Still
  <1>3. unit = "cache" => [Memory!CacheNext]_dev
    BY DEF NdsNext, Still
  <1>4. unit = "memory" => [Memory!MapNext]_dev
    BY DEF NdsNext, Still
  <1>5. IInv'
    BY <1>1, NextIInv DEF NdsInv
  <1>6. unit' = "vram" => VramInv'
    BY <1>1, <1>2, VramStep DEF NdsInv
  <1>7. unit' = "cache" => CacheInv'
    BY <1>1, <1>3, CacheStep DEF NdsInv
  <1>8. unit' = "memory" => MapInv'
    BY <1>1, <1>4, MapStep DEF NdsInv
  <1>. QED
    BY <1>5, <1>6, <1>7, <1>8 DEF NdsInv

(* The inductive invariant of the DS's parts.                              *)
THEOREM NdsInvariant == NdsSpec => []NdsInv
  <1>. QED
    BY NdsStart, NdsStep, PTL DEF NdsSpec

(* A block of memory is one processor's or one engine's: a bank of video   *)
(* memory has one use and an engine's image of it is what the ARM9 sees, a *)
(* cache holds a line once, and a page of the shared memory is reached by  *)
(* the processor WRAMCNT gives it to.                                      *)
THEOREM OwnersAreUnique == NdsSpec => []CellsHaveOneOwner
  <1>1. NdsInv => CellsHaveOneOwner
    BY VramOneOwner, MapOneOwner DEF NdsInv, CacheInv, CellsHaveOneOwner
  <1>. QED
    BY <1>1, NdsInvariant, PTL

(* The queues interrupt and keep their order beside the other parts too.   *)
THEOREM QueuesKeep == NdsSpec => []EveryEdgeRaises /\ WordsInOrder
  <1>1. NdsInit => Init
    BY DEF NdsInit
  <1>2. [NdsNext]_<<vars, unit, dev>> => [Next]_vars
    BY DEF NdsNext, Still
  <1>3. NdsSpec => Spec
    BY <1>1, <1>2, PTL DEF NdsSpec, Spec
  <1>. QED
    BY <1>3, NoLostWakeup, FirstInFirstOut, PTL
=============================================================================
