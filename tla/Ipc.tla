--------------------------------- MODULE Ipc ---------------------------------
(***************************************************************************)
(* The queues between the two processors of the Nintendo DS                *)
(* (crates/nds/src/ipc.rs): one in each direction, with interrupts that    *)
(* are raised on an edge.  The two cores' programs are arbitrary.          *)
(*                                                                         *)
(* A word stands for its number in the order of its sender's stores.  The  *)
(* other half of the file, IPCSYNC, shares no state with the queues and is *)
(* left out.                                                               *)
(***************************************************************************)
EXTENDS Naturals, Sequences

CONSTANTS
  Core,        (* the two cores                                             *)
  FifoDepth,   (* FIFO_DEPTH, 16 in the code                                *)
  MaxWords     (* bound of the model: the words the two cores send          *)

ASSUME IpcAssumption ==
  /\ \E a, b \in Core : a # b /\ Core = {a, b}
  /\ FifoDepth \in Nat \ {0}
  /\ MaxWords \in Nat

VARIABLES
  fifo,        (* per core, the words it has sent and the other not read    *)
  control,     (* per core, the bits of IPCFIFOCNT                           *)
  lastRecv,    (* last_recv: per core, the latest word it read              *)
  prev,        (* per core, the conditions the edge detector saw last       *)
  iflags,      (* per core, which of the two interrupts are set in IF        *)
  words,       (* history: per core, how many words it has sent             *)
  roomFrom,    (* history: per core, its send queue has held a word since   *)
               (* it last acknowledged send-empty                           *)
  calledFrom   (* history: per core, its receive queue has been empty since *)
               (* it last acknowledged receive-not-empty                    *)

vars == <<fifo, control, lastRecv, prev, iflags, words, roomFrom, calledFrom>>

Remote == [c \in Core |-> CHOOSE d \in Core : d # c]

Irq == {"sendEmpty", "recvNotEmpty"}

Control == [enabled : BOOLEAN, sendIrq : BOOLEAN, recvIrq : BOOLEAN,
            error : BOOLEAN]

Init ==
  /\ fifo = [c \in Core |-> <<>>]
  /\ control = [c \in Core |-> [enabled |-> FALSE, sendIrq |-> FALSE, recvIrq |-> FALSE,
                                error |-> FALSE]]
  /\ lastRecv = [c \in Core |-> 0]
  /\ prev = [c \in Core |-> [sendEmpty |-> FALSE, recvReady |-> FALSE]]
  /\ iflags = [c \in Core |-> {}]
  /\ words = [c \in Core |-> 0]
  /\ roomFrom = [c \in Core |-> FALSE]
  /\ calledFrom = [c \in Core |-> TRUE]
-----------------------------------------------------------------------------
SendEmpty(c) == control'[c].sendIrq /\ fifo'[c] = <<>>
RecvReady(c) == control'[c].recvIrq /\ fifo'[Remote[c]] # <<>>

(* update_edges: both conditions of both cores are looked at after every   *)
(* access, and an interrupt is raised where one has become true.           *)
UpdateEdges ==
  /\ prev' = [c \in Core |-> [sendEmpty |-> SendEmpty(c), recvReady |-> RecvReady(c)]]
  /\ iflags' = [c \in Core |-> iflags[c]
       \cup (IF SendEmpty(c) /\ ~prev[c].sendEmpty THEN {"sendEmpty"} ELSE {})
       \cup (IF RecvReady(c) /\ ~prev[c].recvReady THEN {"recvNotEmpty"} ELSE {})]

(* The two histories follow the queues; they do not matter while the       *)
(* interrupt is set.                                                       *)
NoteQueues ==
  /\ roomFrom' = [c \in Core |->
       roomFrom[c] \/ fifo'[c] # <<>> \/ "sendEmpty" \in iflags'[c]]
  /\ calledFrom' = [c \in Core |->
       calledFrom[c] \/ fifo'[Remote[c]] = <<>> \/ "recvNotEmpty" \in iflags'[c]]

(* Mutant: clearing the queue is not seen by the edge detector. *)
WriteFifocntSilent(c) ==
  \E written \in Control, clear \in BOOLEAN :
    /\ written.error => control[c].error
    /\ control' = [control EXCEPT ![c] = written]
    /\ fifo' = [fifo EXCEPT ![c] = IF clear THEN <<>> ELSE @]
    /\ UNCHANGED <<prev, iflags>>
    /\ NoteQueues
    /\ UNCHANGED <<lastRecv, words>>

(* write_fifocnt: the enables, the clearing of the send queue and of the   *)
(* error flag, which a store cannot set.                                   *)
WriteFifocnt(c) ==
  \E written \in Control, clear \in BOOLEAN :
    /\ written.error => control[c].error
    /\ control' = [control EXCEPT ![c] = written]
    /\ fifo' = [fifo EXCEPT ![c] = IF clear THEN <<>> ELSE @]
    /\ UpdateEdges
    /\ NoteQueues
    /\ UNCHANGED <<lastRecv, words>>

(* Mutant: the depth is not looked at. *)
SendOverflowing(c) ==
  /\ words[c] + words[Remote[c]] < MaxWords
  /\ control[c].enabled
  /\ words' = [words EXCEPT ![c] = @ + 1]
  /\ fifo' = [fifo EXCEPT ![c] = Append(@, words'[c])]
  /\ UNCHANGED <<control, lastRecv>>
  /\ UpdateEdges
  /\ NoteQueues

(* send: a store to a full queue is dropped and flagged. *)
Send(c) ==
  /\ words[c] + words[Remote[c]] < MaxWords
  /\ control[c].enabled
  /\ words' = [words EXCEPT ![c] = @ + 1]
  /\ \/ /\ Len(fifo[c]) < FifoDepth
        /\ fifo' = [fifo EXCEPT ![c] = Append(@, words'[c])]
        /\ UNCHANGED control
     \/ /\ Len(fifo[c]) >= FifoDepth
        /\ control' = [control EXCEPT ![c].error = TRUE]
        /\ UNCHANGED fifo
  /\ UpdateEdges
  /\ NoteQueues
  /\ UNCHANGED lastRecv

(* Mutant: the newest word is read first. *)
RecvNewest(c) ==
  LET queue == fifo[Remote[c]]
  IN  /\ queue # <<>>
      /\ fifo' = [fifo EXCEPT ![Remote[c]] = SubSeq(@, 1, Len(@) - 1)]
      /\ lastRecv' = [lastRecv EXCEPT ![c] = queue[Len(queue)]]
      /\ UNCHANGED <<control, words>>
      /\ UpdateEdges
      /\ NoteQueues

(* recv: the oldest word of the remote, or the latest one again, flagged   *)
(* as an error, when there is none; the enable bit is not looked at.       *)
Recv(c) ==
  LET queue == fifo[Remote[c]]
  IN  /\ \/ /\ queue # <<>>
            /\ fifo' = [fifo EXCEPT ![Remote[c]] = Tail(@)]
            /\ lastRecv' = [lastRecv EXCEPT ![c] = Head(queue)]
            /\ UNCHANGED control
         \/ /\ queue = <<>>
            /\ control' = [control EXCEPT ![c].error = TRUE]
            /\ UNCHANGED <<fifo, lastRecv>>
      /\ UpdateEdges
      /\ NoteQueues
      /\ UNCHANGED words

(* A store to IF. *)
Acknowledge(c) ==
  \E i \in iflags[c] :
    /\ iflags' = [iflags EXCEPT ![c] = @ \ {i}]
    /\ roomFrom' = IF i = "sendEmpty" THEN [roomFrom EXCEPT ![c] = fifo[c] # <<>>] ELSE roomFrom
    /\ calledFrom' = IF i = "recvNotEmpty"
                     THEN [calledFrom EXCEPT ![c] = fifo[Remote[c]] = <<>>]
                     ELSE calledFrom
    /\ UNCHANGED <<fifo, control, lastRecv, prev, words>>

Next == \E c \in Core : WriteFifocnt(c) \/ Send(c) \/ Recv(c) \/ Acknowledge(c)

Spec == Init /\ [][Next]_vars
-----------------------------------------------------------------------------
TypeOK ==
  /\ fifo \in [Core -> Seq(1 .. MaxWords)]
  /\ \A c \in Core : Len(fifo[c]) <= FifoDepth
  /\ control \in [Core -> Control]
  /\ lastRecv \in [Core -> 0 .. MaxWords]
  /\ prev \in [Core -> [sendEmpty : BOOLEAN, recvReady : BOOLEAN]]
  /\ iflags \in [Core -> SUBSET Irq]
  /\ words \in [Core -> 0 .. MaxWords]
  /\ roomFrom \in [Core -> BOOLEAN]
  /\ calledFrom \in [Core -> BOOLEAN]

(* No core sleeps through a word: a handler that acknowledges the          *)
(* interrupt and then reads until the queue is empty is called again for   *)
(* the next word, however the other core sends, clears and enables in      *)
(* between.  The same holds of the room a sender waits for.                *)
EveryEdgeRaises ==
  \A c \in Core :
    /\ (control[c].recvIrq /\ calledFrom[c] /\ fifo[Remote[c]] # <<>>)
         => "recvNotEmpty" \in iflags[c]
    /\ (control[c].sendIrq /\ roomFrom[c] /\ fifo[c] = <<>>)
         => "sendEmpty" \in iflags[c]

(* Words come out in the order they went in, whatever is dropped at a full *)
(* queue or cleared.                                                       *)
WordsInOrder == [][\A c \in Core : lastRecv'[c] >= lastRecv[c]]_vars
=============================================================================
