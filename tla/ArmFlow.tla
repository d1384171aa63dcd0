------------------------------- MODULE ArmFlow -------------------------------
(***************************************************************************)
(* What an instruction of the ARM core is, and where control goes.         *)
(***************************************************************************)
EXTENDS Naturals, Sequences, SequencesExt

(* Control flow (crates/arm/src/cpu/mod.rs and thumb.rs): the fetch in     *)
(* either instruction set, branches with link, the two halves of Thumb's   *)
(* BL, interworking, exceptions and the returns from all of them.  The     *)
(* program calls, is interrupted anywhere, and returns.  An address counts *)
(* bytes, bit 0 and bit 1 included.                                        *)

CONSTANTS
  Targets,  (* where the program calls: a set of addresses, multiples of 4 *)
  Depth,    (* calls and exceptions open at a time                         *)
  Limit     (* the program calls from below this address                   *)

VARIABLE
  flow  (* [v5, pc, thumb, mode, lr, spsr, masked, half, frames, back]: the *)
        (* version, r15, the T bit, the mode, LR and the saved status of    *)
        (* each, the I bit, the target in the middle of a Thumb BL, the     *)
        (* frames (history, and the LR each callee saved), and (history)    *)
        (* what the latest return had to come back to, once it is there     *)

Modes == {"usr", "svc", "irq"}

NoStatus == [mode |-> "usr", thumb |-> FALSE, masked |-> FALSE]

FlowInit ==
  \E v5 \in BOOLEAN, thumb \in BOOLEAN, pc \in Targets :
    flow = [v5 |-> v5, pc |-> pc, thumb |-> thumb, mode |-> "usr",
            lr |-> [m \in Modes |-> 0],
            spsr |-> [m \in Modes \ {"usr"} |-> NoStatus],
            masked |-> FALSE, half |-> FALSE, frames |-> <<>>, back |-> <<>>]

Size(c) == IF c.thumb THEN 2 ELSE 4
ClearLow(a, n) == a - (a % n)

(* step_arm, step_thumb: the address an instruction is fetched from.       *)
Fetched(c) == ClearLow(c.pc, Size(c))
After(c) == Fetched(c) + Size(c)

Here(c) == [pc |-> After(c), thumb |-> c.thumb, mode |-> c.mode]
Opened(c, kind) ==
  [c EXCEPT !.frames = Append(@, [kind |-> kind, to |-> Here(c), lr |-> c.lr[c.mode]]),
            !.back = <<>>]

(* execute_branch_exchange, thumb BX: bit 0 of the target is the set.      *)
Exchange(c, target) == [c EXCEPT !.thumb = target % 2 = 1, !.pc = ClearLow(target, 2)]

(* load_pc: a loaded program counter changes the set on ARMv5 alone.       *)
LoadPc(c, value) == [c EXCEPT !.thumb = IF c.v5 THEN value % 2 = 1 ELSE @, !.pc = value]

(* Mutant: a Thumb call links without the bit that says so. *)
LinkPlain(c) == After(c)

(* What BL and BLX leave in LR. *)
Link(c) == IF c.thumb THEN After(c) + 1 ELSE After(c)

Linked(c) == [Opened(c, "call") EXCEPT !.lr[c.mode] = Link(c)]

CanOpen == Len(flow.frames) < Depth /\ ~flow.half /\ flow.pc < Limit
-----------------------------------------------------------------------------
(* BL and BLX label in ARM state, BLX register in both. *)
Call ==
  /\ CanOpen
  /\ \E t \in Targets :
       \/ ~flow.thumb /\ flow' = [Linked(flow) EXCEPT !.pc = t]
       \/ ~flow.thumb /\ flow.v5 /\ flow' = [Linked(flow) EXCEPT !.pc = t, !.thumb = TRUE]
       \/ flow.v5 /\ \E set \in {0, 1} : flow' = Exchange(Linked(flow), t + set)

(* Thumb BL: the first half puts the high part of the way into LR. *)
FirstHalf ==
  /\ CanOpen /\ flow.thumb
  /\ \E t \in Targets :
       flow' = [flow EXCEPT !.half = TRUE, !.lr[flow.mode] = t, !.pc = After(flow),
                            !.frames = Append(@, [kind |-> "call", lr |-> flow.lr[flow.mode],
                                                  to |-> [Here(flow) EXCEPT !.pc = @ + 2]]),
                            !.back = <<>>]

(* The second half, BL or on ARMv5 BLX: whatever ran between the two       *)
(* halves has its own LR.                                                  *)
InHalf == flow.half /\ Last(flow.frames).kind = "call" /\ Last(flow.frames).to.mode = flow.mode

SecondHalf ==
  /\ InHalf /\ flow.thumb
  /\ LET c == [flow EXCEPT !.half = FALSE, !.back = <<>>, !.lr[flow.mode] = Link(flow)]
         target == flow.lr[flow.mode]
     IN  \/ flow' = [c EXCEPT !.pc = target]
         \/ flow.v5 /\ flow' = [c EXCEPT !.thumb = FALSE, !.pc = ClearLow(target, 4)]

(* enter_exception: the status is saved, interrupts are masked, ARM state. *)
Entered(c, mode, return, kind) ==
  [c EXCEPT !.spsr[mode] = [mode |-> c.mode, thumb |-> c.thumb, masked |-> c.masked],
            !.mode = mode, !.lr[mode] = return, !.thumb = FALSE, !.masked = TRUE, !.pc = 0,
            !.back = <<>>,
            !.frames = Append(@, [kind |-> kind, lr |-> c.lr[mode],
                                  to |-> [pc |-> IF kind = "irq" THEN Fetched(c) ELSE After(c),
                                          thumb |-> c.thumb, mode |-> c.mode]])]

(* SWI, and with the same return the undefined instruction. *)
SoftwareInterrupt ==
  /\ CanOpen /\ flow.mode = "usr"
  /\ flow' = Entered(flow, "svc", After(flow), "swi")

(* take_irq, before any instruction: the address of the next, plus 4.      *)
TakeIrq ==
  /\ ~flow.masked /\ Len(flow.frames) < Depth + 1 /\ flow.mode # "irq"
  /\ flow' = Entered(flow, "irq", flow.pc + 4, "irq")

(* A handler that has saved its state lets interrupts in again.            *)
Unmask == flow.mode = "svc" /\ flow.masked /\ flow' = [flow EXCEPT !.masked = FALSE]

(* A straight line, of two instructions after a place that is called. *)
Step ==
  /\ ~flow.half /\ flow.pc \in Targets \cup {0}
  /\ flow' = [flow EXCEPT !.pc = After(flow), !.back = <<>>]

(* write_cpsr from the SPSR after the program counter is written: MOVS pc, *)
(* lr and SUBS pc, lr, #4.  The SPSR and LR of the mode left are dead: the *)
(* next exception overwrites them.                                         *)
Restored(c, pc) ==
  LET s == c.spsr[c.mode]
  IN  [c EXCEPT !.pc = pc, !.mode = s.mode, !.thumb = s.thumb, !.masked = s.masked,
                !.spsr[c.mode] = NoStatus]

(* The callee saved LR when it was called and has not lost it; it returns  *)
(* by BX, or by POP of a word where that interworks or need not.           *)
Closed(c, f) ==
  [c EXCEPT !.frames = Front(@), !.back = <<f.to>>,
            !.lr[flow.mode] = f.lr]

Return ==
  /\ flow.frames # <<>> /\ ~InHalf
  /\ LET f == Last(flow.frames)
         lr == flow.lr[flow.mode]
     IN  \/ f.kind = "call" /\ flow' = Closed(Exchange(flow, lr), f)
         \/ /\ f.kind = "call" /\ (flow.v5 \/ (lr % 2 = 1) = flow.thumb)
            /\ flow' = Closed(LoadPc(flow, lr), f)
         \/ f.kind = "swi" /\ flow' = Closed(Restored(flow, lr), f)
         \/ f.kind = "irq" /\ flow' = Closed(Restored(flow, lr - 4), f)

FlowNext == Call \/ FirstHalf \/ SecondHalf \/ SoftwareInterrupt \/ TakeIrq \/ Unmask \/ Step \/ Return
-----------------------------------------------------------------------------
FlowTypeOK ==
  /\ flow.mode \in Modes /\ flow.thumb \in BOOLEAN /\ flow.masked \in BOOLEAN
  /\ Len(flow.frames) <= Depth + 1

(* A return comes back to the instruction after the one that called, in    *)
(* the mode and the instruction set it was in, whichever way it went       *)
(* there, and an interrupt resumes where it struck: between the halves of  *)
(* a Thumb BL, in ARM or Thumb state, on either version.                   *)
ReturnsHome ==
  flow.back # <<>> =>
    [pc |-> Fetched(flow), thumb |-> flow.thumb, mode |-> flow.mode] = flow.back[1]
-----------------------------------------------------------------------------
(* The decoders (crates/arm/src/decode/arm.rs, thumb.rs): the class a word *)
(* belongs to.  An ARM word is the bits that tell classes apart: 27..20,   *)
(* 7..4, what 19..8 hold, and whether the condition is NV; a Thumb         *)
(* halfword is its bits 15..7.                                             *)
VARIABLE decode  (* idle, or the word that is decoded *)

(* Bits 19..8: all ones, ones but for Rd, zeros below Rn and Rd, or none.  *)
Fills == {"ones", "clz", "zero", "other"}

ArmWords ==
  [at : {"arm"}, top : 0 .. 255, low : 0 .. 15, fill : Fills, never : {FALSE}]
  \cup [at : {"arm"}, top : 0 .. 255, low : {0, 1}, fill : {"other"}, never : {TRUE}]
ThumbWords == [at : {"thumb"}, bits : 0 .. 511]
Idle == [at |-> "idle"]

(* The bits under the mask are the value's, of eight.                      *)
Bit(n, i) == (n \div 2 ^ i) % 2
Has(bits, mask, value) == \A i \in 0 .. 7 : Bit(value, i) = Bit(bits, i) * Bit(mask, i)

(* The tests of the 000 region, by the masks of the source. *)
MatchesBranchExchange(w) == Has(w.top, 255, 18) /\ Has(w.low, 13, 1) /\ w.fill = "ones"
MatchesBreakpoint(w) == Has(w.top, 255, 18) /\ Has(w.low, 15, 7)
MatchesClz(w) == Has(w.top, 255, 22) /\ Has(w.low, 15, 1) /\ w.fill \in {"ones", "clz"}
MatchesSaturating(w) == Has(w.top, 249, 16) /\ Has(w.low, 15, 5) /\ w.fill = "zero"
MatchesHalfwordMultiply(w) == Has(w.top, 249, 16) /\ Has(w.low, 9, 8)
MatchesSwap(w) == Has(w.top, 251, 16) /\ Has(w.low, 15, 9) /\ w.fill = "zero"
MatchesMultiply(w) == Has(w.top, 252, 0) /\ Has(w.low, 15, 9)
MatchesMultiplyLong(w) == Has(w.top, 248, 8) /\ Has(w.low, 15, 9)
MatchesDoublewordTransfer(w) == Has(w.top, 225, 0) /\ Has(w.low, 13, 13)
MatchesHalfwordTransfer(w) == Has(w.top, 224, 0) /\ Has(w.low, 9, 9) /\ ~Has(w.low, 6, 0)

(* decode_data_processing: TST, TEQ, CMP and CMN without S move a status.  *)
DataProcessing(w) ==
  IF Has(w.top, 25, 16) THEN (IF Has(w.top, 2, 0) THEN "Mrs" ELSE "Msr") ELSE "DataProcessing"

(* Mutant: the halfword test is asked before the doubleword test. *)
ExtensionHalfwordFirst(w) ==
  CASE MatchesBranchExchange(w) -> "BranchExchange"
    [] ~MatchesBranchExchange(w) /\ MatchesHalfwordTransfer(w) -> "HalfwordTransfer"
    [] OTHER -> DataProcessing(w)

(* The first test that a word of the 000 region passes. *)
Extension(w) ==
  IF MatchesBranchExchange(w) THEN "BranchExchange"
  ELSE IF MatchesBreakpoint(w) THEN "Breakpoint"
  ELSE IF MatchesClz(w) THEN "CountLeadingZeros"
  ELSE IF MatchesSaturating(w) THEN "SaturatingArithmetic"
  ELSE IF MatchesHalfwordMultiply(w) THEN "HalfwordMultiply"
  ELSE IF MatchesSwap(w) THEN "Swap"
  ELSE IF MatchesMultiply(w) THEN "Multiply"
  ELSE IF MatchesMultiplyLong(w) THEN "MultiplyLong"
  ELSE IF MatchesDoublewordTransfer(w) THEN "DoublewordTransfer"
  ELSE IF MatchesHalfwordTransfer(w) THEN "HalfwordTransfer"
  ELSE DataProcessing(w)

(* decode_arm, decode_operation: the NV space, then the class field.       *)
DecodeArm(w) ==
  LET class == w.top \div 32
      bit4 == w.low % 2 = 1
  IN  CASE w.never -> IF class = 5 THEN "BranchLinkExchange" ELSE "Never"
        [] ~w.never /\ class = 0 -> Extension(w)
        [] ~w.never /\ class = 1 -> DataProcessing(w)
        [] ~w.never /\ class = 2 -> "SingleTransfer"
        [] ~w.never /\ class = 3 -> IF bit4 THEN "Undefined" ELSE "SingleTransfer"
        [] ~w.never /\ class = 4 -> "BlockTransfer"
        [] ~w.never /\ class = 5 -> "Branch"
        [] ~w.never /\ class = 6 -> "Undefined"
        [] ~w.never /\ class = 7 -> IF w.top \div 16 = 15 THEN "SoftwareInterrupt"
                                    ELSE IF bit4 THEN "CoprocessorRegisterTransfer"
                                    ELSE "Undefined"

(* decode_thumb: bits 15..13, then as far down as a group needs. *)
DecodeThumb(w) ==
  LET b(n) == (w.bits \div 2 ^ (n - 7)) % 2 = 1
      group == w.bits \div 64
      cond == (w.bits \div 2) % 16
  IN  CASE group = 0 -> IF b(12) /\ b(11) THEN "AddSubtract" ELSE "MoveShifted"
        [] group = 1 -> "AluImmediate"
        [] group = 2 -> IF b(12) THEN (IF b(9) THEN "LoadStoreSignExtended" ELSE "LoadStoreRegister")
                        ELSE IF b(11) THEN "PcRelativeLoad"
                        ELSE IF b(10) THEN "HiRegister" ELSE "AluOperation"
        [] group = 3 -> "LoadStoreImmediate"
        [] group = 4 -> IF b(12) THEN "SpRelativeLoadStore" ELSE "LoadStoreHalfword"
        [] group = 5 -> IF ~b(12) THEN "LoadAddress"
                        ELSE IF ~b(11) /\ ~b(10) /\ ~b(9) THEN "AdjustStackPointer"
                        ELSE IF b(10) /\ ~b(9) THEN "PushPop" ELSE "Undefined"
        [] group = 6 -> IF ~b(12) THEN "BlockTransfer"
                        ELSE IF cond = 15 THEN "SoftwareInterrupt"
                        ELSE IF cond = 14 THEN "Undefined" ELSE "ConditionalBranch"
        [] group = 7 -> IF ~b(12) /\ ~b(11) THEN "Branch" ELSE "LongBranchLink"
-----------------------------------------------------------------------------
DecodeInit == decode = Idle
Ask == decode = Idle /\ decode' \in ArmWords \cup ThumbWords
Answer == decode # Idle /\ decode' = Idle
DecodeNext == Ask \/ Answer
-----------------------------------------------------------------------------
DecodeTypeOK == decode.at \in {"idle", "arm", "thumb"}

x == 2

(* A pattern of the encoding table: a bit, or x for either. *)
Fits(bits, pattern) ==
  \A i \in DOMAIN pattern :
    pattern[i] = x \/ (bits \div 2 ^ (Len(pattern) - i)) % 2 = pattern[i]

(* The encodings of the ARM and Thumb tables, in no order; of the ones the *)
(* Thumb table leaves free, 1011 0001 goes with its neighbour.             *)
ArmTable ==
  {<<"BranchExchange", <<0,0,0,1,0,0,1,0>>, <<0,0,x,1>>, {"ones"}>>,
   <<"Breakpoint", <<0,0,0,1,0,0,1,0>>, <<0,1,1,1>>, Fills>>,
   <<"CountLeadingZeros", <<0,0,0,1,0,1,1,0>>, <<0,0,0,1>>, {"ones", "clz"}>>,
   <<"SaturatingArithmetic", <<0,0,0,1,0,x,x,0>>, <<0,1,0,1>>, {"zero"}>>,
   <<"HalfwordMultiply", <<0,0,0,1,0,x,x,0>>, <<1,x,x,0>>, Fills>>,
   <<"Swap", <<0,0,0,1,0,x,0,0>>, <<1,0,0,1>>, {"zero"}>>,
   <<"Multiply", <<0,0,0,0,0,0,x,x>>, <<1,0,0,1>>, Fills>>,
   <<"MultiplyLong", <<0,0,0,0,1,x,x,x>>, <<1,0,0,1>>, Fills>>,
   <<"DoublewordTransfer", <<0,0,0,x,x,x,x,0>>, <<1,1,x,1>>, Fills>>,
   <<"HalfwordTransfer", <<0,0,0,x,x,x,x,1>>, <<1,1,x,1>>, Fills>>,
   <<"HalfwordTransfer", <<0,0,0,x,x,x,x,x>>, <<1,0,1,1>>, Fills>>,
   <<"Mrs", <<0,0,0,1,0,x,0,0>>, <<0,0,0,0>>, Fills>>,
   <<"Msr", <<0,0,0,1,0,x,1,0>>, <<0,0,0,0>>, Fills>>,
   <<"Msr", <<0,0,1,1,0,x,1,0>>, <<x,x,x,x>>, Fills>>,
   <<"SingleTransfer", <<0,1,0,x,x,x,x,x>>, <<x,x,x,x>>, Fills>>,
   <<"SingleTransfer", <<0,1,1,x,x,x,x,x>>, <<x,x,x,0>>, Fills>>,
   <<"BlockTransfer", <<1,0,0,x,x,x,x,x>>, <<x,x,x,x>>, Fills>>,
   <<"Branch", <<1,0,1,x,x,x,x,x>>, <<x,x,x,x>>, Fills>>,
   <<"CoprocessorRegisterTransfer", <<1,1,1,0,x,x,x,x>>, <<x,x,x,1>>, Fills>>,
   <<"SoftwareInterrupt", <<1,1,1,1,x,x,x,x>>, <<x,x,x,x>>, Fills>>,
   <<"DataProcessing", <<0,0,0,0,x,x,x,x>>, <<x,x,x,0>>, Fills>>,
   <<"DataProcessing", <<0,0,0,0,x,x,x,x>>, <<0,x,x,1>>, Fills>>,
   <<"DataProcessing", <<0,0,1,0,x,x,x,x>>, <<x,x,x,x>>, Fills>>,
   <<"DataProcessing", <<0,0,0,1,1,x,x,x>>, <<x,x,x,0>>, Fills>>,
   <<"DataProcessing", <<0,0,0,1,1,x,x,x>>, <<0,x,x,1>>, Fills>>,
   <<"DataProcessing", <<0,0,1,1,1,x,x,x>>, <<x,x,x,x>>, Fills>>,
   <<"DataProcessing", <<0,0,0,1,0,x,x,1>>, <<x,x,x,0>>, Fills>>,
   <<"DataProcessing", <<0,0,0,1,0,x,x,1>>, <<0,x,x,1>>, Fills>>,
   <<"DataProcessing", <<0,0,1,1,0,x,x,1>>, <<x,x,x,x>>, Fills>>}

ThumbTable ==
  {<<"MoveShifted", <<0,0,0,0,x,x,x,x,x>>>>,
   <<"MoveShifted", <<0,0,0,1,0,x,x,x,x>>>>,
   <<"AddSubtract", <<0,0,0,1,1,x,x,x,x>>>>,
   <<"AluImmediate", <<0,0,1,x,x,x,x,x,x>>>>,
   <<"AluOperation", <<0,1,0,0,0,0,x,x,x>>>>,
   <<"HiRegister", <<0,1,0,0,0,1,x,x,x>>>>,
   <<"PcRelativeLoad", <<0,1,0,0,1,x,x,x,x>>>>,
   <<"LoadStoreRegister", <<0,1,0,1,x,x,0,x,x>>>>,
   <<"LoadStoreSignExtended", <<0,1,0,1,x,x,1,x,x>>>>,
   <<"LoadStoreImmediate", <<0,1,1,x,x,x,x,x,x>>>>,
   <<"LoadStoreHalfword", <<1,0,0,0,x,x,x,x,x>>>>,
   <<"SpRelativeLoadStore", <<1,0,0,1,x,x,x,x,x>>>>,
   <<"LoadAddress", <<1,0,1,0,x,x,x,x,x>>>>,
   <<"AdjustStackPointer", <<1,0,1,1,0,0,0,x,x>>>>,
   <<"PushPop", <<1,0,1,1,x,1,0,x,x>>>>,
   <<"BlockTransfer", <<1,1,0,0,x,x,x,x,x>>>>,
   <<"ConditionalBranch", <<1,1,0,1,0,x,x,x,x>>>>,
   <<"ConditionalBranch", <<1,1,0,1,1,0,x,x,x>>>>,
   <<"ConditionalBranch", <<1,1,0,1,1,1,0,x,x>>>>,
   <<"SoftwareInterrupt", <<1,1,0,1,1,1,1,1,x>>>>,
   <<"Branch", <<1,1,1,0,0,x,x,x,x>>>>,
   <<"LongBranchLink", <<1,1,1,1,0,x,x,x,x>>>>,
   <<"LongBranchLink", <<1,1,1,x,1,x,x,x,x>>>>}

(* Every encoding of the tables decodes to its class whatever the order of *)
(* the tests before it, the unconditional space to BLX, and no word of it  *)
(* to an instruction that would execute.                                   *)
DecodesByTheTable ==
  /\ decode.at = "arm" /\ ~decode.never =>
       \A row \in ArmTable :
         Fits(decode.top, row[2]) /\ Fits(decode.low, row[3]) /\ decode.fill \in row[4] =>
           DecodeArm(decode) = row[1]
  /\ decode.at = "arm" /\ decode.never =>
       DecodeArm(decode) = IF Fits(decode.top, <<1,0,1,x,x,x,x,x>>) THEN "BranchLinkExchange"
                           ELSE "Never"
  /\ decode.at = "thumb" =>
       LET rows == {row \in ThumbTable : Fits(decode.bits, row[2])}
       IN  IF rows = {} THEN DecodeThumb(decode) = "Undefined"
           ELSE \A row \in rows : DecodeThumb(decode) = row[1]
=============================================================================
