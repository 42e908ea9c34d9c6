---------------------------------- MODULE Alu ----------------------------------
(***************************************************************************)
(* What the arithmetic instructions of core/src/cpu.c compute: the flags,   *)
(* addition and subtraction in both modes, comparisons, shifts, and the    *)
(* instructions on single bits.  Their cycles are in Cpu.                  *)
(*                                                                         *)
(* An operator is one instruction: from the status s and the operands to a *)
(* record of the byte that is written, val, and the status after it.       *)
(* Intermediate values have 16 bits in the code, and stay below that.       *)
(***************************************************************************)
EXTENDS Integers

Byte   == 0 .. 255
Status == [c : BOOLEAN, z : BOOLEAN, v : BOOLEAN, n : BOOLEAN, d : BOOLEAN]

Bit(b) == IF b THEN 1 ELSE 0
Lo(n)  == n % 256                    \* a cast to uint8_t

Gives(val, s) == [val |-> Lo(val), s |-> s]

(* The macros that derive a flag from a result n; m and o are the operands. *)
carrycalc(n) == n \div 256 # 0
zerocalc(n)  == Lo(n) = 0
signcalc(n)  == Lo(n) >= 128

overflowcalc(n, m, o) ==
  ~(signcalc(n) <=> signcalc(m)) /\ ~(signcalc(n) <=> signcalc(o))

-----------------------------------------------------------------------------
(* adc and sbc.  In decimal mode the digits of the result are corrected in  *)
(* a second cycle, and the carry is that of the correction; sbc corrects   *)
(* the accumulator then, and not the result.                               *)
Sum(s, a, o) == a + o + Bit(s.c)

SumStatus(s, a, o) ==
  LET n == Sum(s, a, o)
  IN [s EXCEPT !.c = carrycalc(n), !.z = zerocalc(n),
               !.v = overflowcalc(n, a, o), !.n = signcalc(n)]

HighDigit(n)  == Lo(n) \div 16
CorrectLow(n) == IF n % 16 > 9 THEN n + 6 ELSE n

Corrected(s, n) ==
  IF HighDigit(n) > 9 THEN Gives(n + 96, [s EXCEPT !.c = TRUE])
                      ELSE Gives(n, [s EXCEPT !.c = FALSE])

adc(s, a, value) ==
  IF s.d THEN Corrected(SumStatus(s, a, value), CorrectLow(Sum(s, a, value)))
         ELSE Gives(Sum(s, a, value), SumStatus(s, a, value))

sbc(s, a, value) ==
  IF s.d THEN Corrected(SumStatus(s, a, 255 - value), Lo(CorrectLow(Lo(a - 102))))
         ELSE Gives(Sum(s, a, 255 - value), SumStatus(s, a, 255 - value))

(* cmp, cpx and cpy, of the register r.                                     *)
cmp(s, r, value) ==
  [s EXCEPT !.c = r >= value, !.z = r = value, !.n = signcalc(r - value)]

(* inc and dec, inx, dex, iny and dey: the carry is left as it is.          *)
Counted(s, n) == Gives(n, [s EXCEPT !.z = zerocalc(n), !.n = signcalc(n)])

inc(s, value) == Counted(s, value + 1)
dec(s, value) == Counted(s, value - 1)

-----------------------------------------------------------------------------
(* The shifts: to the left the bit that falls out is the ninth of the       *)
(* result, to the right it is the lowest of the operand.                   *)
Shifted(s, n, carry) ==
  Gives(n, [s EXCEPT !.c = carry, !.z = zerocalc(n), !.n = signcalc(n)])

asl(s, value) == Shifted(s, 2 * value, carrycalc(2 * value))

rol(s, value) == LET n == 2 * value + Bit(s.c) IN Shifted(s, n, carrycalc(n))

lsr(s, value) == Shifted(s, value \div 2, value % 2 = 1)

ror(s, value) == Shifted(s, value \div 2 + 128 * Bit(s.c), value % 2 = 1)

(* rmb, smb, bbr and bbs.  The bit is the opcode, shifted by 8, which has   *)
(* only 8 bits; and the branches ask if the byte and the mask are both not *)
(* 0 (&&), not if they have a bit in common.                               *)
BitOfOpcode(opcode) == opcode \div 256

IsSet(value, bit) == (value \div 2 ^ bit) % 2 = 1

rmb(opcode, value) ==
  LET bit == BitOfOpcode(opcode) IN IF IsSet(value, bit) THEN value - 2 ^ bit ELSE value

smb(opcode, value) ==
  LET bit == BitOfOpcode(opcode) IN IF IsSet(value, bit) THEN value ELSE value + 2 ^ bit

bbs(opcode, value) == value # 0 /\ 2 ^ BitOfOpcode(opcode) # 0
bbr(opcode, value) == ~bbs(opcode, value)
================================================================================
