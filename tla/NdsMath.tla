------------------------------ MODULE NdsMath -------------------------------
(***************************************************************************)
(* The ARM9's division and square root units (nds/src/math.rs).  Operands  *)
(* of 64 bits are written a word at a time, and each write starts the unit *)
(* again on whatever its registers then hold.  A word has W bits here; a   *)
(* value is the unsigned content of its register.                          *)
(***************************************************************************)
EXTENDS Integers, SequencesExt

CONSTANTS
  W,       (* bits of a word: 32 in the code *)
  Cycles   (* [short, long, root]: how long the units are busy *)

VARIABLE
  math  (* [mode, numer, denom, result, rem, zero, busy, wide, param, root, *)
        (*  rooting]: busy and rooting count the cycles that are left       *)

Word == 2 ^ W
Double == 2 ^ (2 * W)
Splice(reg, high, word) == IF high THEN (reg % Word) + word * Word ELSE (reg \div Word) * Word + word

Signed(v, modulus) == IF 2 * v < modulus THEN v ELSE v - modulus
Low(v) == Signed(v % Word, Word)
Whole(v) == Signed(v, Double)
Unsigned(v) == v % Double
InvertHigh(v) == (v % Word) + (Word - 1 - v \div Word) * Word

Magnitude(a) == IF a < 0 THEN -a ELSE a
Quotient(a, b) ==
  LET q == Magnitude(a) \div Magnitude(b) IN IF (a < 0) = (b < 0) THEN q ELSE -q

(* The operands as the mode reads them.                                    *)
Numer(m) == IF m.mode = 0 THEN Low(m.numer) ELSE Whole(m.numer)
Denom(m) == IF m.mode \in {0, 1} THEN Low(m.denom) ELSE Whole(m.denom)

ComputeDiv(m) ==
  LET n == Numer(m)  d == Denom(m)
      one == Unsigned(IF n < 0 THEN 1 ELSE -1)
  IN  IF d = 0
      THEN [m EXCEPT !.zero = TRUE, !.rem = Unsigned(n),
                     !.result = IF m.mode = 2 THEN one ELSE InvertHigh(one)]
      ELSE [m EXCEPT !.zero = FALSE, !.rem = Unsigned(n - Quotient(n, d) * d),
                     !.result = Unsigned(Quotient(n, d))]
Divide(m) == [ComputeDiv(m) EXCEPT !.busy = IF m.mode = 0 THEN Cycles.short ELSE Cycles.long]

(* isqrt, bit by bit from the highest even one that fits.                  *)
EvenBits(v) == SelectSeq([i \in 1 .. W |-> 4 ^ (W - i)], LAMBDA bit : bit <= v)
Isqrt(v) ==
  FoldLeft(LAMBDA s, bit : IF s.rem >= s.root + bit
                           THEN [rem |-> s.rem - s.root - bit, root |-> s.root \div 2 + bit]
                           ELSE [s EXCEPT !.root = @ \div 2],
           [rem |-> v, root |-> 0], EvenBits(v)).root
ComputeSqrt(m) == [m EXCEPT !.root = Isqrt(IF m.wide THEN m.param ELSE m.param % Word),
                            !.rooting = Cycles.root]

Init ==
  math = [mode |-> 0, numer |-> 0, denom |-> 0, result |-> 0, rem |-> 0, zero |-> FALSE,
          busy |-> 0, wide |-> FALSE, param |-> 0, root |-> 0, rooting |-> 0]

WriteDivcnt == \E mode \in 0 .. 3 : math' = Divide([math EXCEPT !.mode = mode])
WriteNumer ==
  \E high \in BOOLEAN, w \in 0 .. Word - 1 :
    math' = Divide([math EXCEPT !.numer = Splice(@, high, w)])
WriteDenom ==
  \E high \in BOOLEAN, w \in 0 .. Word - 1 :
    math' = Divide([math EXCEPT !.denom = Splice(@, high, w)])
WriteSqrtcnt == \E wide \in BOOLEAN : math' = ComputeSqrt([math EXCEPT !.wide = wide])
WriteParam ==
  \E high \in BOOLEAN, w \in 0 .. Word - 1 :
    math' = ComputeSqrt([math EXCEPT !.param = Splice(@, high, w)])

(* The busy flags go down with the clock.                                  *)
Pass ==
  /\ math.busy + math.rooting > 0
  /\ math' = [math EXCEPT !.busy = 0, !.rooting = 0]

(* One unit is used at a time; they share nothing.                         *)
DividerRests == math.mode = 0 /\ math.numer = 0 /\ math.denom = 0
RootRests == ~math.wide /\ math.param = 0
Next ==
  \/ RootRests /\ (WriteDivcnt \/ WriteNumer \/ WriteDenom)
  \/ DividerRests /\ (WriteSqrtcnt \/ WriteParam)
  \/ Pass
Spec == Init /\ [][Next]_math
-----------------------------------------------------------------------------
TypeOK ==
  /\ {math.result, math.rem, math.numer, math.denom, math.param} \subseteq 0 .. Double - 1
  /\ math.root \in 0 .. Word - 1

(* A division started by any of its writes leaves a quotient and a         *)
(* remainder that make up the numerator, the remainder smaller than the    *)
(* divisor and of the numerator's sign, at the ends of the range too; only *)
(* a divisor that is zero in the mode's width sets the flag, and then the  *)
(* remainder is the numerator.                                             *)
DivisionIsExact ==
  math.busy > 0 =>
    LET n == IF math.mode = 0 THEN Low(math.numer) ELSE Whole(math.numer)
        d == IF math.mode \in {0, 1} THEN Low(math.denom) ELSE Whole(math.denom)
        r == Whole(math.rem)
    IN  /\ math.zero = (d = 0)
        /\ Unsigned(n) = Unsigned(Whole(math.result) * d + r)
        /\ d # 0 => Magnitude(r) < Magnitude(d) /\ (r = 0 \/ (r < 0) = (n < 0))
        /\ d = 0 => Low(math.result) = IF n < 0 THEN 1 ELSE -1

(* The root of the parameter, as wide as the mode reads it, is the floor.  *)
RootIsFloor ==
  LET v == IF math.wide THEN math.param ELSE math.param % Word
  IN  math.root * math.root <= v /\ v < (math.root + 1) * (math.root + 1)
=============================================================================
