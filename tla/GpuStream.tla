----------------------------- MODULE GpuStream -----------------------------
(***************************************************************************)
(* Command submission to the 3D engine (gpu3d/src/command.rs, fifo.rs and  *)
(* lib.rs): words of packed command lists and writes to the command ports  *)
(* become (command, parameter) entries of a ring, and after each write     *)
(* every complete command is taken out and executed.  The program sends    *)
(* whole lists; `owed` is what a write completes by the list's own layout. *)
(***************************************************************************)
EXTENDS Integers, SequencesExt

CONSTANTS
  Capacity,    (* entries of the ring: 256 in the code *)
  Pack,        (* commands of a packing word: 4 in the code *)
  Values       (* values of a parameter word *)

VARIABLE
  stream  (* [fifo, packed, remaining, cur, mode, flag, list, left, port, done, owed]; *)
          (* list: commands being sent, left: their words yet to be sent  *)

(* Commands by their parameter words: the code's range from 0 to 32.       *)
ParamCount == [nop |-> 0, push |-> 0, mode |-> 1, vertex |-> 2, normal3 |-> 3]
Commands == DOMAIN ParamCount

Entry(c, p) == [command |-> c, param |-> p]
Zero == 0
None == [command |-> "nop", params |-> <<>>]

Init ==
  stream = [fifo |-> <<>>, packed |-> <<>>, remaining |-> 0, cur |-> "nop", mode |-> "never",
            flag |-> FALSE, list |-> <<>>, left |-> <<>>, port |-> FALSE, done |-> <<>>,
            owed |-> <<>>]

(* Fifo::push: a full ring refuses the entry, and write_register drops it. *)
Push(s, e) == IF Len(s.fifo) < Capacity THEN [s EXCEPT !.fifo = Append(@, e)] ELSE s

(* Decoder::advance: commands without parameters are emitted at once, up   *)
(* to the first that waits for some.                                       *)
Waits(c) == ParamCount[c] > 0
Advance(s) ==
  LET stop == SelectInSeq(s.packed, Waits)
      free == SelectSeq(IF stop = 0 THEN s.packed ELSE SubSeq(s.packed, 1, stop - 1),
                        LAMBDA c : c # "nop")
      t == FoldLeft(LAMBDA u, c : Push(u, Entry(c, Zero)), s, free)
  IN  IF stop = 0 THEN [t EXCEPT !.packed = <<>>]
      ELSE [t EXCEPT !.packed = SubSeq(@, stop + 1, Len(@)), !.cur = s.packed[stop],
                     !.remaining = ParamCount[s.packed[stop]]]

(* Mutant: the rest of the packing word is forgotten after a parameter.    *)
FeedForgets(s, word) ==
  IF s.remaining > 0 THEN [Push(s, Entry(s.cur, word)) EXCEPT !.remaining = @ - 1]
  ELSE Advance([s EXCEPT !.packed = word])

(* Decoder::feed of one word: a parameter, or a packing word.              *)
Feed(s, word) ==
  IF s.remaining > 0
  THEN LET t == [Push(s, Entry(s.cur, word)) EXCEPT !.remaining = @ - 1]
       IN  IF t.remaining = 0 THEN Advance(t) ELSE t
  ELSE Advance([s EXCEPT !.packed = word])

WritePort(s, c, word) == Push(s, Entry(c, IF ParamCount[c] = 0 THEN Zero ELSE word))

(* run_pending: execute every command whose entries are all there.         *)
Needed(c) == IF ParamCount[c] = 0 THEN 1 ELSE ParamCount[c]
Complete(fifo) == fifo # <<>> /\ Len(fifo) >= Needed(Head(fifo).command)
Execute(s) ==
  IF ~Complete(s.fifo) THEN s
  ELSE LET c == Head(s.fifo).command
       IN  [s EXCEPT !.fifo = SubSeq(@, Needed(c) + 1, Len(@)),
                     !.done = Append(@, [command |-> c,
                                         params |-> [i \in 1 .. ParamCount[c] |-> s.fifo[i].param]])]

(* The ring holds at most Capacity entries, so so many rounds empty it.    *)
RunPending(s) == FoldLeft(LAMBDA u, i : Execute(u), s, [i \in 1 .. Capacity |-> i])

LessThanHalf(s) == Len(s.fifo) < Capacity \div 2
IrqAsserted(s) ==
  \/ s.mode = "less_than_half" /\ LessThanHalf(s)
  \/ s.mode = "empty" /\ s.fifo = <<>>
-----------------------------------------------------------------------------
(* The program.  The words of a list: a packing word, then the parameters. *)
ParamsOf(list) == FlattenSeq([i \in DOMAIN list |-> list[i].params])
WordsNeeded(list, j) == Len(ParamsOf(SubSeq(list, 1, j)))

(* What the first k parameters of a list complete, beyond the first k - 1. *)
Completed(list, k) ==
  LET got(n) == {j \in 1 .. Len(list) : n >= 0 /\ WordsNeeded(list, j) <= n}
      fresh == got(k) \ got(k - 1)
  IN  SelectSeq([j \in 1 .. Len(list) |-> IF j \in fresh THEN list[j] ELSE None],
                LAMBDA x : x # None)

Idle == stream.list = <<>>
Calls == {[command |-> c, params |-> p] : c \in Commands, p \in UNION {[1 .. n -> Values] : n \in 0 .. 3}}
WholeCalls == {call \in Calls : Len(call.params) = ParamCount[call.command]}

SendPacking ==
  \E list \in [1 .. Pack -> WholeCalls] :
    /\ Idle
    /\ LET s == [stream EXCEPT !.done = <<>>]
           t == RunPending(Feed(s, [i \in 1 .. Pack |-> list[i].command]))
       IN  stream' = [t EXCEPT !.owed = Completed(list, 0), !.left = ParamsOf(list), !.port = FALSE,
                               !.list = IF ParamsOf(list) = <<>> THEN <<>> ELSE list]

(* A parameter of the list: by a store, or a word of a GXFIFO DMA.         *)
SendParam ==
  /\ ~Idle /\ ~stream.port
  /\ LET t == RunPending(Feed([stream EXCEPT !.done = <<>>], Head(stream.left)))
         k == Len(ParamsOf(stream.list)) - Len(stream.left) + 1
     IN  stream' = [t EXCEPT !.owed = Completed(stream.list, k), !.left = Tail(@),
                             !.list = IF Len(stream.left) = 1 THEN <<>> ELSE @]

(* A command by its port, a write for each parameter.                      *)
SendPort ==
  \/ \E call \in WholeCalls :
       /\ Idle /\ call.command # "nop"
       /\ LET word == IF call.params = <<>> THEN Zero ELSE Head(call.params)
              t == RunPending(WritePort([stream EXCEPT !.done = <<>>], call.command, word))
              rest == IF call.params = <<>> THEN <<>> ELSE Tail(call.params)
          IN  stream' = [t EXCEPT !.left = rest, !.port = TRUE,
                                  !.list = IF rest = <<>> THEN <<>> ELSE <<call>>,
                                  !.owed = IF rest = <<>> THEN <<call>> ELSE <<>>]
  \/ /\ ~Idle /\ stream.port
     /\ LET call == Head(stream.list)
            last == Len(stream.left) = 1
            t == RunPending(WritePort([stream EXCEPT !.done = <<>>], call.command, Head(stream.left)))
        IN  stream' = [t EXCEPT !.left = Tail(@), !.list = IF last THEN <<>> ELSE @,
                                !.owed = IF last THEN <<call>> ELSE <<>>]

(* GXSTAT: the interrupt mode; poll_gxfifo_irq before each instruction.    *)
SetMode == \E mode \in {"never", "less_than_half", "empty"} : stream' = [stream EXCEPT !.mode = mode]
Poll == IrqAsserted(stream) /\ stream' = [stream EXCEPT !.flag = TRUE]
Acknowledge == stream.flag /\ stream' = [stream EXCEPT !.flag = FALSE]

Next == SendPacking \/ SendParam \/ SendPort \/ SetMode \/ Poll \/ Acknowledge
Spec == Init /\ [][Next]_stream
-----------------------------------------------------------------------------
TypeOK == Len(stream.fifo) <= Capacity /\ stream.remaining \in 0 .. 3

(* Each write executes exactly the commands it completes, in order and     *)
(* with their own parameters, whichever channel they came by: none is      *)
(* dropped by a full ring, left waiting, or given another's parameters.    *)
CommandsAsSent == stream.done = stream.owed
=============================================================================
