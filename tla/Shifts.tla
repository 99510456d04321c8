------------------------------- MODULE Shifts -------------------------------
(***************************************************************************)
(* The shift and rotate groups of CPU.Step (internal/i386/cpu.go) among    *)
(* the instructions of module Alu: C0 and D0 on bytes; C1, D1 and D3 on    *)
(* words and dwords; SHLD and SHRD; and those that write a single flag:    *)
(* the BT group on registers, BSF and BSR.                                 *)
(*                                                                         *)
(* The interpreter masks a byte count to the operand (count & 7) and every *)
(* other count to the dword (count & 31), so a word is also shifted by     *)
(* counts beyond its size.                                                 *)
(***************************************************************************)
EXTENDS Alu

CONSTANTS
    NarrowBits, WideBits,   \* 8 or 16, and 32
    Immediates              \* the count bytes in use

(* 2^n.                                                                    *)
Pow2(n) == LET p[i \in 0..n] == IF i = 0 THEN 1 ELSE 2 * p[i - 1] IN p[n]

ASSUME ShiftsAssumption ==
    /\ NarrowBits \in Nat \ {0, 1} /\ WideBits \in Nat \ {0, 1}
    /\ NarrowHalf = Pow2(NarrowBits - 1) /\ Half = Pow2(WideBits - 1)
    /\ Immediates \subseteq Nat

VARIABLE
    shifted     \* at most one [op, r, n, size, src, from]: the shift by n
                \* just done to register r, the bits shifted in by SHLD or
                \* SHRD, and the registers before it (history)

ShiftSize == {"byte", "word", "dword"}
Op == {"SHL", "SHR", "SAR", "ROL", "ROR"}

(* The operand size of module Alu and the bits of a shifted operand.       *)
Width(size) == IF size = "dword" THEN "wide" ELSE "narrow"
Bits(size) == IF size = "dword" THEN WideBits ELSE NarrowBits

-----------------------------------------------------------------------------
Bit(v, i) == (v \div Pow2(i)) % 2 = 1

(* v << n and v >> n in a register of the given bits, with or without its  *)
(* sign.                                                                   *)
Left(v, n, bits) == (v * Pow2(n)) % Pow2(bits)
Right(v, n) == v \div Pow2(n)
SignedRight(v, n, bits) == (Signed(v, Pow2(bits - 1)) \div Pow2(n)) % Pow2(bits)

(* Each branch of the group: the result, the carry and the overflow.       *)
SHL(v, n, bits) ==
    LET r == IF n < bits THEN Left(v, n, bits) ELSE 0
        c == n < bits /\ Bit(v, bits - n)
    IN  [r |-> r, cf |-> c, of |-> n = 1 /\ Bit(r, bits - 1) # c]

SHR(v, n, bits) ==
    [r |-> IF n < bits THEN Right(v, n) ELSE 0,
     cf |-> n < bits /\ Bit(v, n - 1),
     of |-> n = 1 /\ Bit(v, bits - 1)]

SAR(v, n, bits) ==
    [r |-> SignedRight(v, n, bits),
     cf |-> Bit(v, (IF n < bits THEN n ELSE bits) - 1),
     of |-> FALSE]

ROL(v, count, bits) ==
    LET n == count % bits
        r == (Left(v, n, bits) + Right(v, bits - n)) % Pow2(bits)
    IN  [r |-> r, cf |-> Bit(r, 0), of |-> n = 1 /\ Bit(r, bits - 1) # Bit(r, 0)]

ROR(v, count, bits) ==
    LET n == count % bits
        r == (Right(v, n) + Left(v, bits - n, bits)) % Pow2(bits)
    IN  [r |-> r, cf |-> Bit(r, bits - 1), of |-> n = 1 /\ Bit(r, bits - 1) # Bit(r, bits - 2)]

Apply(op, v, n, bits) ==
    CASE op = "SHL" -> SHL(v, n, bits)
      [] op = "SHR" -> SHR(v, n, bits)
      [] op = "SAR" -> SAR(v, n, bits)
      [] op = "ROL" -> ROL(v, n, bits)
      [] op = "ROR" -> ROR(v, n, bits)

Masked(count, size) == count % (IF size = "byte" THEN NarrowBits ELSE WideBits)

setShiftFlagsN(x, h) == ResultFlags(x.r, h) \cup On("CF", x.cf) \cup On("OF", x.of)

(* A masked count of zero returns before anything is written.              *)
Shift(op, r, count, size) ==
    LET n == Masked(count, size)
        x == Apply(op, Value(r, Width(size)), n, Bits(size))
    IN  /\ Runs
        /\ IF n = 0
           THEN UNCHANGED <<regs, EFLAGS, exact, carry, product, shifted>>
           ELSE /\ regs' = Put(r, x.r, Width(size))
                /\ EFLAGS' = setShiftFlagsN(x, H(Width(size)))
                /\ exact' = {}
                /\ carry' = BOOLEAN
                /\ product' = {}
                /\ shifted' = {[op |-> op, r |-> r, n |-> n, size |-> size, src |-> 0, from |-> regs]}

ShiftGroup == \E op \in Op, r \in Reg, count \in Immediates, size \in ShiftSize : Shift(op, r, count, size)

(* Mutant: the bits shifted in are those at the wrong end of src.          *)
SHLDLow(v, src, n) ==
    LET r == (Left(v, n, WideBits) + (src % Pow2(n))) % Pow2(WideBits) IN
    [r |-> r, cf |-> Bit(v, WideBits - n), of |-> n = 1 /\ Bit(v, WideBits - 1) # Bit(r, WideBits - 1)]

SHLD(v, src, n) ==
    LET r == Left(v, n, WideBits) + Right(src, WideBits - n) IN
    [r |-> r, cf |-> Bit(v, WideBits - n), of |-> n = 1 /\ Bit(v, WideBits - 1) # Bit(r, WideBits - 1)]

SHRD(v, src, n) ==
    LET r == Right(v, n) + Left(src, WideBits - n, WideBits) IN
    [r |-> r, cf |-> Bit(v, n - 1), of |-> n = 1 /\ Bit(v, WideBits - 1) # Bit(r, WideBits - 1)]

DoubleShift(op, r, src, count) ==
    LET n == Masked(count, "dword")
        x == IF op = "SHLD" THEN SHLD(regs[r], src, n) ELSE SHRD(regs[r], src, n)
    IN  /\ Runs
        /\ IF n = 0
           THEN UNCHANGED <<regs, EFLAGS, exact, carry, product, shifted>>
           ELSE /\ regs' = Put(r, x.r, "wide")
                /\ EFLAGS' = setShiftFlagsN(x, Half)
                /\ exact' = {}
                /\ carry' = BOOLEAN
                /\ product' = {}
                /\ shifted' = {[op |-> op, r |-> r, n |-> n, size |-> "dword", src |-> src, from |-> regs]}

-----------------------------------------------------------------------------
(* BT, BTS, BTR and BTC: the bit goes to the carry, the other flags stay   *)
(* as they are, and so does what they tell of.                             *)
BitTest(r, imm) ==
    LET i == imm % WideBits
        b == Bit(regs[r], i)
    IN  /\ Runs
        /\ EFLAGS' = (EFLAGS \ {"CF"}) \cup On("CF", b)
        /\ carry' = {b}
        /\ regs' \in {regs, [regs EXCEPT ![r] = IF b THEN @ ELSE @ + Pow2(i)], [regs EXCEPT ![r] = IF b THEN @ - Pow2(i) ELSE @],
                      [regs EXCEPT ![r] = IF b THEN @ - Pow2(i) ELSE @ + Pow2(i)]}
        /\ product' = {} /\ shifted' = {}
        /\ UNCHANGED exact

(* BSF and BSR: only the zero flag is written, and the register only when  *)
(* a bit was found.                                                        *)
BitScan(r, v) ==
    LET found == {i \in 0..(WideBits - 1) : Bit(v, i)} IN
    /\ Runs
    /\ EFLAGS' = IF found = {} THEN EFLAGS \cup {"ZF"} ELSE EFLAGS \ {"ZF"}
    /\ regs' \in IF found = {} THEN {regs}
                 ELSE {[regs EXCEPT ![r] = i] : i \in {j \in found : (\A k \in found : j <= k) \/ (\A k \in found : j >= k)}}
    /\ exact' = {} /\ product' = {} /\ shifted' = {}
    /\ UNCHANGED carry

CpuInit == Init /\ shifted = {}

CpuNext ==
    \/ Next /\ shifted' = {}
    \/ ShiftGroup
    \/ \E r, s \in Reg, imm \in Immediates :
          (\E op \in {"SHLD", "SHRD"} : DoubleShift(op, r, regs[s], imm)) \/ BitTest(r, imm) \/ BitScan(r, regs[s])

CpuSpec == CpuInit /\ [][CpuNext]_<<vars, shifted>>

-----------------------------------------------------------------------------
(* The two operands of SHLD and SHRD as one number, shifted at once.       *)
Joined(op, v, src, n) ==
    IF op = "SHLD"
    THEN [r |-> (((v * Pow2(WideBits) + src) * Pow2(n)) \div Pow2(WideBits)) % Pow2(WideBits), cf |-> Bit(v, WideBits - n)]
    ELSE [r |-> ((src * Pow2(WideBits) + v) \div Pow2(n)) % Pow2(WideBits), cf |-> Bit(v, n - 1)]

(* n shifts by one, one after the other.                                   *)
Repeat(op, v, n, bits) ==
    LET run[k \in 1..n] == Apply(op, IF k = 1 THEN v ELSE run[k - 1].r, 1, bits)
    IN  run[n]

(* A shift or rotate by n does what n instructions by one do: the same     *)
(* result for every count the mask lets through, also where it reaches the *)
(* size of a word, and the same carry wherever the processor defines it    *)
(* (SHL and SHR define it for counts below the operand's size).  SHLD and  *)
(* SHRD shift their operands as one number.  The upper part of the         *)
(* register and the other register are never touched.                      *)
ShiftIsRepeated ==
    \A x \in shifted :
        LET bits == Bits(x.size)
            old == x.from[x.r] % Pow2(bits)
            y == IF x.op \in Op THEN Repeat(x.op, old, x.n, bits) ELSE Joined(x.op, old, x.src, x.n)
        IN  /\ regs = [x.from EXCEPT ![x.r] = @ - old + y.r]
            /\ x.n < bits \/ x.op \notin {"SHL", "SHR"} => (("CF" \in EFLAGS) = y.cf)
=============================================================================
