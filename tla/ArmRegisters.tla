---------------------------- MODULE ArmRegisters ----------------------------
(***************************************************************************)
(* The registers of the ARM core (crates/arm/src/cpu/mod.rs): the banks of *)
(* the modes, the block transfers that read and write many of them, and    *)
(* the arithmetic on their words.                                          *)
(***************************************************************************)
EXTENDS Integers, FiniteSets, FiniteSetsExt

(* Modes and banked registers of the ARM core (crates/arm/src/cpu/mod.rs): *)
(* the visible file, the banks of the modes that are not running, the      *)
(* saved status registers, and every step that moves between them. "r8"    *)
(* stands for r8..r12, "r13" for r13 and r14.                              *)
CONSTANT Modes   (* some of the modes below, User and System among them *)

VARIABLE
  core  (* [r, mode, banked_r13, banked_r8, spsr, phys]: the core, and       *)
        (* (history) the architecture's physical registers                  *)

Registers == {"r8", "r13"}
Values == {0, 1}

(* bank13, spsr_index. *)
Bank13(mode) == IF mode \in {"User", "System"} THEN "User" ELSE mode
HasSpsr(mode) == mode \notin {"User", "System"}

Banks13 == {Bank13(mode) : mode \in Modes}
Banks8 == {"User", "Fiq"}
Bank8(mode) == IF mode = "Fiq" THEN "Fiq" ELSE "User"
SavedModes == {mode \in Modes : HasSpsr(mode)}

(* The physical register a mode sees under a name. *)
Physical(reg, mode) == <<reg, IF reg = "r8" THEN Bank8(mode) ELSE Bank13(mode)>>
PhysicalRegisters == {"r8"} \X Banks8 \cup {"r13"} \X Banks13

BanksInit ==
  core = [r |-> [reg \in Registers |-> 0], mode |-> "System",
          banked_r13 |-> [b \in Banks13 |-> 0], banked_r8 |-> [b \in Banks8 |-> 0],
          spsr |-> [m \in SavedModes |-> "System"],
          phys |-> [p \in PhysicalRegisters |-> 0]]

(* Mutant: r8 to r12 stay where they are when FIQ is entered or left. *)
ChangeModeKeepsR8(c, mode) ==
  LET old13 == Bank13(c.mode)
      new13 == Bank13(mode)
  IN  [c EXCEPT !.mode = mode,
                !.banked_r13 = IF old13 = new13 THEN @ ELSE [@ EXCEPT ![old13] = c.r["r13"]],
                !.r["r13"] = IF old13 = new13 THEN @ ELSE c.banked_r13[new13]]

(* change_mode: the old bank is put away, the new one is taken out. *)
ChangeMode(c, mode) ==
  LET old13 == Bank13(c.mode)
      new13 == Bank13(mode)
      old8 == Bank8(c.mode)
      new8 == Bank8(mode)
  IN  [c EXCEPT !.mode = mode,
                !.banked_r13 = IF old13 = new13 THEN @ ELSE [@ EXCEPT ![old13] = c.r["r13"]],
                !.banked_r8 = IF old8 = new8 THEN @ ELSE [@ EXCEPT ![old8] = c.r["r8"]],
                !.r = [reg \in Registers |->
                         IF reg = "r13" /\ old13 # new13 THEN c.banked_r13[new13]
                         ELSE IF reg = "r8" /\ old8 # new8 THEN c.banked_r8[new8]
                         ELSE c.r[reg]]]

(* What the program means: the register the mode names holds the value. *)
Noted(c, reg, mode, v) == [c EXCEPT !.phys[Physical(reg, mode)] = v]

(* set_reg. *)
SetReg(c, reg, v) == Noted([c EXCEPT !.r[reg] = v], reg, c.mode, v)

(* reg_user, set_reg_user: LDM and STM with ^ and without r15. *)
InBank0(c, reg) == Physical(reg, c.mode) = Physical(reg, "User")
RegUser(c, reg) ==
  IF InBank0(c, reg) THEN c.r[reg]
  ELSE IF reg = "r8" THEN c.banked_r8["User"] ELSE c.banked_r13["User"]
SetRegUser(c, reg, v) ==
  Noted(IF InBank0(c, reg) THEN [c EXCEPT !.r[reg] = v]
        ELSE IF reg = "r8" THEN [c EXCEPT !.banked_r8["User"] = v]
        ELSE [c EXCEPT !.banked_r13["User"] = v], reg, "User", v)

(* enter_exception: the saved status goes to the new mode, as does the     *)
(* return address.                                                         *)
EnterException(c, mode, return) ==
  SetReg([ChangeMode(c, mode) EXCEPT !.spsr[mode] = c.mode], "r13", return)

(* write_cpsr from the SPSR: MOVS pc, LDM {.., pc}^, the TEQP forms.       *)
Returned(c) == IF HasSpsr(c.mode) THEN ChangeMode(c, c.spsr[c.mode]) ELSE c
-----------------------------------------------------------------------------
(* An instruction writes a register; a load may then return as well.       *)
Write ==
  \E reg \in Registers, v \in Values :
    LET c == SetReg(core, reg, v)
    IN  core' = c \/ core' = Returned(c)

TransferUser == \E reg \in Registers, v \in Values : core' = SetRegUser(core, reg, v)

(* take_irq, SWI, undefined, BKPT. *)
Exception ==
  \E mode \in SavedModes \ {"Fiq"}, return \in Values :
    core' = EnterException(core, mode, return)

(* MSR of the control field: the CPSR, but not from User mode, or the SPSR.*)
Msr ==
  \E mode \in Modes :
    \/ core.mode # "User" /\ core' = ChangeMode(core, mode)
    \/ HasSpsr(core.mode) /\ core' = [core EXCEPT !.spsr[core.mode] = mode]

BanksNext == Write \/ TransferUser \/ Exception \/ Msr

vars == core
-----------------------------------------------------------------------------
BanksTypeOK ==
  /\ core.mode \in Modes /\ core.r \in [Registers -> Values]
  /\ core.spsr \in [SavedModes -> Modes]

(* However modes are entered, returned from and left half way, the name a  *)
(* mode has for a register finds what was last written to that physical    *)
(* register, from whichever mode, by name or through the user bank.        *)
BanksHold ==
  /\ \A mode \in Modes, reg \in Registers :
       ChangeMode(core, mode).r[reg] = core.phys[Physical(reg, mode)]
  /\ \A reg \in Registers : RegUser(core, reg) = core.phys[Physical(reg, "User")]
-----------------------------------------------------------------------------
(* Block transfers of the ARM core (execute_block_transfer in cpu/mod.rs,  *)
(* PUSH, POP, STMIA and LDMIA in cpu/thumb.rs): a program stores a set of  *)
(* registers, calls on, and loads them back. Registers are 0 .. PC, and a  *)
(* block of all of them is what the empty list moves the base by. An       *)
(* address counts words.                                                   *)
CONSTANTS
  PC,      (* the number of the program counter; r0 .. PC - 1 are general *)
  Top      (* addresses are 0 .. Top, around Top \div 2 *)

VARIABLE
  block  (* [at, op, r, saved, mem, written]: the step, the form of the   *)
         (* store, the registers, (history) the file before the store,    *)
         (* memory and (history) the words the store wrote                *)

Regs == 0 .. PC
General == 0 .. PC - 1
Unwritten == -1

(* A register's first value tells whose it is; the base points at memory.  *)
Fresh(base) == [i \in Regs |-> IF i = base THEN Top \div 2 ELSE 100 + i]
Clobbered(r, base) == [i \in Regs |-> IF i = base THEN r[i] ELSE 200 + i]

Ops == [list : SUBSET Regs, rn : General, add : BOOLEAN, pre : BOOLEAN, writeback : BOOLEAN]

Idle == [at |-> "ready", op |-> [list |-> {}, rn |-> 0, add |-> FALSE, pre |-> FALSE,
                                 writeback |-> FALSE],
         r |-> Fresh(0), saved |-> Fresh(0), mem |-> [a \in 0 .. Top |-> Unwritten],
         written |-> {}]

BlockInit == block = Idle

(* The words a transfer moves the base by: an empty list counts as full.   *)
Count(op) == IF op.list = {} THEN Cardinality(Regs) ELSE Cardinality(op.list)

(* The registers that move: of an empty list, r15 alone.                   *)
Moved(op) == IF op.list = {} THEN {PC} ELSE op.list

(* Mutant: post-indexed going down, the block lies where pre-indexed has it. *)
StartAlwaysLow(op, base) ==
  IF op.add THEN (IF op.pre THEN base + 1 ELSE base) ELSE base - Count(op)

(* Where the block sits: registers move lowest first at the lowest address.*)
Start(op, base) ==
  LET low == IF op.add THEN base ELSE base - Count(op)
  IN  IF op.pre = op.add THEN low + 1 ELSE low

WriteBack(op, base) == IF op.add THEN base + Count(op) ELSE base - Count(op)

Rank(op, i) == Cardinality({j \in Moved(op) : j < i})

Lowest(op, i) == \A j \in op.list : i <= j

(* STM's value for a register: r15 is stored as PC plus 12 (the marker     *)
(* 300), a base in the list as the new base unless it is the lowest.       *)
Stored(op, r, i) ==
  IF i = PC THEN 300
  ELSE IF i = op.rn /\ op.writeback /\ ~Lowest(op, i) THEN WriteBack(op, r[op.rn])
  ELSE r[i]

Stm(op, r, mem) ==
  LET base == r[op.rn]
      at == [i \in Moved(op) |-> Start(op, base) + Rank(op, i)]
  IN  [mem |-> [a \in DOMAIN mem |->
                  IF \E i \in Moved(op) : at[i] = a
                  THEN Stored(op, r, CHOOSE i \in Moved(op) : at[i] = a) ELSE mem[a]],
       r |-> IF op.writeback THEN [r EXCEPT ![op.rn] = WriteBack(op, base)] ELSE r]

(* LDM: a base that is loaded keeps its loaded value unless it is lowest.  *)
Ldm(op, r, mem) ==
  LET base == r[op.rn]
      loaded == [i \in Regs |->
                   IF i \in Moved(op)
                   THEN mem[Start(op, base) + Rank(op, i)]
                   ELSE r[i]]
  IN  IF op.writeback /\ (op.rn \notin op.list \/ Lowest(op, op.rn))
      THEN [loaded EXCEPT ![op.rn] = WriteBack(op, base)] ELSE loaded

(* thumb_push_pop, by the count of the registers: down from the stack      *)
(* pointer, and up again.                                                  *)
Push(op, r, mem) ==
  LET sp == r[op.rn] - Cardinality(op.list)
      from(a) == {i \in op.list : sp + Rank(op, i) = a}
  IN  [mem |-> [a \in DOMAIN mem |->
                  IF from(a) # {} THEN r[CHOOSE i \in from(a) : TRUE] ELSE mem[a]],
       r |-> [r EXCEPT ![op.rn] = sp]]

Pop(op, r, mem) ==
  [i \in Regs |-> IF i \in op.list THEN mem[r[op.rn] + Rank(op, i)]
                  ELSE IF i = op.rn THEN r[i] + Cardinality(op.list) ELSE r[i]]

(* thumb_block_transfer's LDMIA: any base that is loaded keeps the value.  *)
ThumbLdm(op, r, mem) ==
  LET loaded == [i \in Regs |-> IF i \in Moved(op) THEN mem[r[op.rn] + Rank(op, i)] ELSE r[i]]
  IN  IF op.rn \in op.list THEN loaded ELSE [loaded EXCEPT ![op.rn] = r[op.rn] + Count(op)]

IsPush(op) == ~op.add /\ op.pre /\ op.writeback /\ op.list # {} /\ op.list \subseteq General \ {op.rn}
IsStmia(op) == op.add /\ ~op.pre /\ op.writeback /\ PC \notin op.list
-----------------------------------------------------------------------------
(* A program stores a block, works, and loads it: with the opposite form,  *)
(* or with the same form from the same base.                               *)
Store ==
  /\ block.at = "ready"
  /\ \E op \in Ops :
       LET r == Fresh(op.rn)
           stores == {Stm(op, r, block.mem)}
                     \cup (IF IsPush(op) THEN {Push(op, r, block.mem)} ELSE {})
       IN  \E s \in stores :
             block' = [block EXCEPT !.at = "stored", !.op = op, !.saved = r, !.mem = s.mem,
                                    !.written = {a \in DOMAIN s.mem : s.mem[a] # Unwritten},
                                    !.r = Clobbered(s.r, op.rn)]

Opposite(op) == [op EXCEPT !.add = ~@, !.pre = ~@]

Load ==
  /\ block.at = "stored"
  /\ LET op == IF block.op.writeback THEN Opposite(block.op) ELSE block.op
     IN  \/ block' = [block EXCEPT !.at = "loaded", !.r = Ldm(op, @, block.mem)]
         \/ /\ IsPush(block.op)
            /\ block' = [block EXCEPT !.at = "loaded", !.r = Pop(op, @, block.mem)]

LoadAgain ==
  /\ block.at = "stored" /\ IsStmia(block.op)
  /\ LET r == [block.r EXCEPT ![block.op.rn] = block.saved[block.op.rn]]
     IN  \E f \in {Ldm(block.op, r, block.mem), ThumbLdm(block.op, r, block.mem)} :
           block' = [block EXCEPT !.at = "again", !.r = f]

Again == block.at \in {"loaded", "again"} /\ block' = Idle

BlockNext == Store \/ Load \/ LoadAgain \/ Again
-----------------------------------------------------------------------------
BlockTypeOK == block.at \in {"ready", "stored", "loaded", "again"} /\ block.op \in Ops

(* What the store wrote lies beyond the old base in its direction, the     *)
(* base itself included only when it is indexed afterwards, and without a  *)
(* gap: a full or an empty stack's words, and none of its neighbour's.     *)
BlockIsContiguous ==
  block.at = "stored" /\ block.op.list # {} =>
    LET base == Top \div 2
        n == Count(block.op)
    IN  block.written =
          CASE block.op.add /\ ~block.op.pre -> base .. base + n - 1
            [] block.op.add /\ block.op.pre  -> base + 1 .. base + n
            [] ~block.op.add /\ block.op.pre -> base - n .. base - 1
            [] OTHER -> base - n + 1 .. base

(* A block that is stored and loaded back, by ARM or by Thumb, finds every *)
(* register it saved, the program counter two instructions on, and the     *)
(* base where it was before the store, or after it when it is loaded by    *)
(* the same form; in the list, the base is as the transfers order it.      *)
GeneralRestored ==
  /\ \A i \in General \ {block.op.rn} :
       block.r[i] = IF i \in block.op.list THEN block.saved[i] ELSE 200 + i
  /\ block.r[PC] = IF PC \in Moved(block.op) THEN 300 ELSE 200 + PC

StackRestores ==
  LET op == block.op
      before == block.saved[op.rn]
      after == WriteBack(op, before)
      base == block.r[op.rn]
  IN  /\ block.at = "loaded" =>
           /\ GeneralRestored
           /\ base = IF op.rn \in op.list /\ op.writeback /\ ~Lowest(op, op.rn)
                     THEN after ELSE before
      /\ block.at = "again" =>
           /\ GeneralRestored
           /\ ~(op.rn \in op.list /\ Lowest(op, op.rn)) => base = after
           /\ base \in {before, after}
-----------------------------------------------------------------------------
Init == BanksInit /\ BlockInit
Next == (BanksNext /\ UNCHANGED block) \/ (BlockNext /\ UNCHANGED core)
Spec == Init /\ [][Next]_<<core, block>>
-----------------------------------------------------------------------------
(* The arithmetic of the core (cpu/mod.rs and thumb.rs) on words of W bits *)
(* in place of 32: the adder and its flags, the barrel shifter, data       *)
(* processing, conditions, saturation and multiplication.  One question is *)
(* asked at a time and the answers are compared with what the operations   *)
(* mean as arithmetic.                                                     *)
CONSTANT W  (* the bits of a word *)

VARIABLE alu  (* idle, or a question: two words, the carry in, an amount *)

Words == 0 .. 2 ^ W - 1
Sign == 2 ^ (W - 1)
Mod(v) == v % 2 ^ W
Signed(v) == IF v >= Sign THEN v - 2 ^ W ELSE v
Bit(b) == IF b THEN 1 ELSE 0
BitOf(v, i) == (v \div 2 ^ i) % 2 = 1
Word(S) == MapThenSumSet(LAMBDA i : 2 ^ i, S)
BitsOf(v) == {i \in 0 .. W - 1 : BitOf(v, i)}
Not(v) == 2 ^ W - 1 - v

(* Mutant: the overflow of a sum is taken for one of a difference. *)
AdcOverflowOfSub(a, b, carry) ==
  LET sum == a + b + Bit(carry)
      differs(x, y) == (x >= Sign) # (y >= Sign)
  IN  [v |-> Mod(sum), c |-> sum >= 2 ^ W, o |-> differs(a, b) /\ differs(a, Mod(sum))]

(* adc: the overflow is the sign both operands differ from. *)
Adc(a, b, carry) ==
  LET sum == a + b + Bit(carry)
      differs(x) == (x >= Sign) # (Mod(sum) >= Sign)
  IN  [v |-> Mod(sum), c |-> sum >= 2 ^ W, o |-> differs(a) /\ differs(b)]

Sbc(a, b, carry) == Adc(a, Not(b), carry)
Sub(a, b) == Sbc(a, b, TRUE)

Shifted(v, c) == [v |-> v, c |-> c]

Lsl(v, n) == Shifted(Mod(v * 2 ^ n), BitOf(v, W - n))
Lsr(v, n) == IF n = W THEN Shifted(0, v >= Sign) ELSE Shifted(v \div 2 ^ n, BitOf(v, n - 1))
Filled(v) == Shifted(IF v >= Sign THEN 2 ^ W - 1 ELSE 0, v >= Sign)
Asr(v, n) == IF n >= W THEN Filled(v) ELSE Shifted(Mod(Signed(v) \div 2 ^ n), BitOf(v, n - 1))
Ror(v, n) ==
  LET r == v \div 2 ^ n + (v % 2 ^ n) * 2 ^ (W - n) IN Shifted(r, r >= Sign)

Kinds == {"lsl", "lsr", "asr", "ror"}

(* shift_by_immediate: LSR and ASR #0 shift by a word, ROR #0 is RRX. *)
ShiftByImmediate(kind, v, n, carry) ==
  CASE kind = "lsl" -> IF n = 0 THEN Shifted(v, carry) ELSE Lsl(v, n)
    [] kind = "lsr" -> Lsr(v, IF n = 0 THEN W ELSE n)
    [] kind = "asr" -> Asr(v, IF n = 0 THEN W ELSE n)
    [] kind = "ror" -> IF n # 0 THEN Ror(v, n)
                       ELSE Shifted(v \div 2 + Bit(carry) * Sign, BitOf(v, 0))

(* shift_by_register. *)
ShiftByRegister(kind, v, n, carry) ==
  CASE n = 0 -> Shifted(v, carry)
    [] n > 0 /\ kind = "lsl" -> IF n < W THEN Lsl(v, n) ELSE Shifted(0, n = W /\ BitOf(v, 0))
    [] n > 0 /\ kind = "lsr" -> IF n < W THEN Lsr(v, n) ELSE Shifted(0, n = W /\ v >= Sign)
    [] n > 0 /\ kind = "asr" -> Asr(v, n)
    [] n > 0 /\ kind = "ror" -> IF n % W = 0 THEN Shifted(v, v >= Sign) ELSE Ror(v, n % W)

(* execute_data_processing, S set: the result and the flags n, z, c and v. *)
Logical(r, shifter, flags) ==
  [v |-> r, n |-> r >= Sign, z |-> r = 0, c |-> shifter, o |-> flags.o]
Arithmetic(r) == [v |-> r.v, n |-> r.v >= Sign, z |-> r.v = 0, c |-> r.c, o |-> r.o]

DataProcessing(op, rn, b, shifter, flags) ==
  CASE op \in {"and", "tst"} -> Logical(Word(BitsOf(rn) \cap BitsOf(b)), shifter, flags)
    [] op \in {"eor", "teq"} ->
         Logical(Word((BitsOf(rn) \cup BitsOf(b)) \ (BitsOf(rn) \cap BitsOf(b))), shifter, flags)
    [] op = "orr" -> Logical(Word(BitsOf(rn) \cup BitsOf(b)), shifter, flags)
    [] op = "bic" -> Logical(Word(BitsOf(rn) \ BitsOf(b)), shifter, flags)
    [] op = "mov" -> Logical(b, shifter, flags)
    [] op = "mvn" -> Logical(Not(b), shifter, flags)
    [] op \in {"sub", "cmp"} -> Arithmetic(Sub(rn, b))
    [] op = "rsb" -> Arithmetic(Sub(b, rn))
    [] op \in {"add", "cmn"} -> Arithmetic(Adc(rn, b, FALSE))
    [] op = "adc" -> Arithmetic(Adc(rn, b, flags.c))
    [] op = "sbc" -> Arithmetic(Sbc(rn, b, flags.c))
    [] op = "rsc" -> Arithmetic(Sbc(b, rn, flags.c))

(* Psr::passes. *)
Passes(cond, f) ==
  CASE cond = "eq" -> f.z            [] cond = "ne" -> ~f.z
    [] cond = "cs" -> f.c            [] cond = "cc" -> ~f.c
    [] cond = "mi" -> f.n            [] cond = "pl" -> ~f.n
    [] cond = "vs" -> f.o            [] cond = "vc" -> ~f.o
    [] cond = "hi" -> f.c /\ ~f.z    [] cond = "ls" -> ~f.c \/ f.z
    [] cond = "ge" -> f.n = f.o      [] cond = "lt" -> f.n # f.o
    [] cond = "gt" -> ~f.z /\ f.n = f.o
    [] cond = "le" -> f.z \/ f.n # f.o

(* execute_saturating: each step clamps, and either sets Q. *)
Clamp(x) == IF x >= Sign THEN Sign - 1 ELSE IF x < -Sign THEN -Sign ELSE x
Saturating(double, subtract, rm, rn) ==
  LET twice == Clamp(2 * Signed(rn))
      b == IF double THEN twice ELSE Signed(rn)
      exact == IF subtract THEN Signed(rm) - b ELSE Signed(rm) + b
  IN  [v |-> Mod(Clamp(exact)),
       q |-> Clamp(exact) # exact \/ (double /\ twice # 2 * Signed(rn))]

(* execute_multiply_long: the two words of the product. *)
MultiplyLong(signed, rm, rs) ==
  LET product == (IF signed THEN Signed(rm) * Signed(rs) ELSE rm * rs) % 2 ^ (2 * W)
  IN  [lo |-> Mod(product), hi |-> product \div 2 ^ W]

(* execute_clz: leading_zeros. *)
Clz(v) == W - Cardinality({i \in 0 .. W - 1 : 2 ^ i <= v})

(* execute_thumb_alu: the flags an operation leaves alone are taken over.  *)
ThumbAlu(op, a, b, f) ==
  CASE op \in {"and", "eor", "orr", "bic", "tst", "mvn"} -> DataProcessing(op, a, b, f.c, f)
    [] op \in {"adc", "sbc", "cmp", "cmn"} -> DataProcessing(op, a, b, f.c, f)
    [] op = "neg" -> Arithmetic(Sub(0, b))
    [] op = "mul" -> Logical(Mod(a * b), f.c, f)
    [] op \in Kinds -> LET s == ShiftByRegister(op, a, b, f.c) IN Logical(s.v, s.c, f)
-----------------------------------------------------------------------------
Questions == [at : {"asked"}, a : Words, b : Words, carry : BOOLEAN, n : 0 .. 2 * W + 1]
Unasked == [at |-> "unasked"]

AluInit == alu = Unasked
Ask == alu = Unasked /\ alu' \in Questions
Answer == alu # Unasked /\ alu' = Unasked
AluNext == Ask \/ Answer
-----------------------------------------------------------------------------
AluTypeOK == alu = Unasked \/ alu \in Questions

FlagsIn(q) == [n |-> q.carry, z |-> FALSE, c |-> q.carry, o |-> q.carry]

Overflows(exact) == exact \notin -Sign .. Sign - 1

(* After CMP the conditions order the operands, unsigned and signed, and   *)
(* after CMN, ADDS and SUBS the overflow is the signed sum that is not     *)
(* there; two words chained by the carry add and subtract like one of      *)
(* twice the width.                                                        *)
Compared(a, b) ==
  LET f == DataProcessing("cmp", a, b, FALSE, FlagsIn([carry |-> FALSE]))
  IN  /\ Passes("hi", f) = (a > b) /\ Passes("cs", f) = (a >= b)
      /\ Passes("gt", f) = (Signed(a) > Signed(b)) /\ Passes("ge", f) = (Signed(a) >= Signed(b))
      /\ Passes("eq", f) = (a = b) /\ Passes("vs", f) = Overflows(Signed(a) - Signed(b))
      /\ \A p \in {<<"hi", "ls">>, <<"cs", "cc">>, <<"gt", "le">>, <<"ge", "lt">>,
                   <<"eq", "ne">>, <<"vs", "vc">>, <<"mi", "pl">>} :
           Passes(p[1], f) # Passes(p[2], f)

Chained(a, b, carry) ==
  /\ \A op \in {"adc", "sbc"} :
       LET low == DataProcessing(op, a, b, FALSE, FlagsIn([carry |-> carry]))
           high == DataProcessing(op, b, a, FALSE, low)
           exact == IF op = "adc" THEN b * 2 ^ W + a + a * 2 ^ W + b + Bit(carry)
                    ELSE b * 2 ^ W + a - (a * 2 ^ W + b) - Bit(~carry)
       IN  high.v * 2 ^ W + low.v = exact % 2 ^ (2 * W)
  /\ Adc(a, b, carry).o = Overflows(Signed(a) + Signed(b) + Bit(carry))

(* A shift by n is n shifts by one, by a register and, but for the amounts *)
(* that encode another, by an immediate; RRX is the rotation through C.    *)
ByOne(kind, s) ==
  CASE kind = "lsl" -> Shifted(Mod(2 * s.v), s.v >= Sign)
    [] kind = "lsr" -> Shifted(s.v \div 2, s.v % 2 = 1)
    [] kind = "asr" -> Shifted(Mod(Signed(s.v) \div 2), s.v % 2 = 1)
    [] kind = "ror" -> Shifted(s.v \div 2 + (s.v % 2) * Sign, s.v % 2 = 1)

Stepped(kind, v, n, carry) ==
  LET f[i \in 0 .. n] == IF i = 0 THEN Shifted(v, carry) ELSE ByOne(kind, f[i - 1])
  IN  f[n]

ShiftsByOne(v, n, carry) ==
  \A kind \in Kinds :
    /\ ShiftByRegister(kind, v, n, carry) = Stepped(kind, v, n, carry)
    /\ n \in 1 .. W - 1 => ShiftByImmediate(kind, v, n, carry) = Stepped(kind, v, n, carry)
    /\ kind \in {"lsr", "asr"} => ShiftByImmediate(kind, v, 0, carry) = Stepped(kind, v, W, carry)

(* Saturation is one clamp per rounding, multiplication is exact to two    *)
(* words, CLZ normalises, and Thumb's NEG, shifts and ALU are the ARM      *)
(* instructions they abbreviate.                                           *)
Products(a, b, carry) ==
  /\ LET p == MultiplyLong(TRUE, a, b)
         u == MultiplyLong(FALSE, a, b)
     IN  /\ Signed(p.hi) * 2 ^ W + p.lo = Signed(a) * Signed(b) /\ u.hi * 2 ^ W + u.lo = a * b
         /\ p.lo = u.lo /\ ThumbAlu("mul", a, b, FlagsIn([carry |-> carry])).v = u.lo
  /\ a # 0 => Mod(a * 2 ^ Clz(a)) >= Sign /\ a * 2 ^ Clz(a) < 2 ^ W
  /\ LET s == Saturating(FALSE, carry, a, b)
     IN  ~s.q => s.v = (IF carry THEN Sub(a, b).v ELSE Adc(a, b, FALSE).v)
  /\ \A subtract \in BOOLEAN : Saturating(FALSE, subtract, a, b).q =
       (IF subtract THEN Sub(a, b).o ELSE Adc(a, b, FALSE).o)
  /\ LET f == FlagsIn([carry |-> carry])
     IN  ThumbAlu("neg", a, b, f) = DataProcessing("rsb", b, 0, carry, f)

AluExact ==
  alu # Unasked =>
    /\ Compared(alu.a, alu.b) /\ Chained(alu.a, alu.b, alu.carry)
    /\ ShiftsByOne(alu.a, alu.n, alu.carry) /\ Products(alu.a, alu.b, alu.carry)
=============================================================================
