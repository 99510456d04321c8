-------------------------------- MODULE Alu --------------------------------
(***************************************************************************)
(* The integer unit of the i386 interpreter: the flag helpers, condition   *)
(* and the arithmetic groups of CPU.Step (internal/i386/cpu.go).           *)
(*                                                                         *)
(* A width is given by its half h = 2^(bits-1): its values are 0..2h-1 and *)
(* its sign bit is set from h on.  EFLAGS is the set of the arithmetic     *)
(* flags that are on.  The operand of an instruction that comes from an    *)
(* immediate, from memory or from another register is any value of its     *)
(* width.  The variables exact, carry and product are history: what the    *)
(* executed instructions have established in ordinary arithmetic.          *)
(***************************************************************************)
EXTENDS Integers, Conditions

CONSTANTS
    Half,           \* 2^31: half of the range of a register
    NarrowHalf,     \* 2^7 or 2^15: half of the range of a narrow operand
    BitAnd(_, _),   \* the bitwise operators of Go
    BitOr(_, _),
    BitXor(_, _),
    EvenParity(_),  \* evenParity: the low byte has an even number of ones
    Sizes,          \* the operand sizes in use
    Excused         \* the instructions ("sbb", "short") in whose known
                    \* flaws the history below makes no claim

Word == 0..(2 * Half - 1)

ASSUME AluAssumption ==
    /\ Half \in Nat \ {0, 1}
    /\ NarrowHalf \in Nat \ {0, 1}
    /\ \E k \in Word : Half = k * NarrowHalf
    /\ \A a, b \in Word : BitAnd(a, b) \in Word /\ BitOr(a, b) \in Word /\ BitXor(a, b) \in Word
    /\ \A a \in Word : EvenParity(a) \in BOOLEAN
    /\ Sizes \subseteq {"narrow", "wide"}
    /\ Excused \subseteq {"sbb", "short"}

VARIABLES
    regs,       \* CPU.Regs
    EFLAGS,     \* CPU.EFLAGS
    fault,      \* Step returned an error, which ends the process
    exact,      \* at most one [s, h]: the signed result the flags tell about
    carry,      \* the values the carry out of the last instruction may have
    product     \* at most one [kind, eax, factor]: EDX:EAX is their product

vars == <<regs, EFLAGS, fault, exact, carry, product>>

Reg == {"eax", "edx"}
Flag == {"CF", "PF", "ZF", "SF", "OF"}
Kind == {"signed", "unsigned"}

H(size) == IF size = "wide" THEN Half ELSE NarrowHalf
Operand(h) == 0..(2 * h - 1)

TypeOK ==
    /\ regs \in [Reg -> Word]
    /\ EFLAGS \subseteq Flag
    /\ fault \in BOOLEAN
    /\ exact \subseteq [s : Int, h : {Half, NarrowHalf}]
    /\ carry \subseteq BOOLEAN
    /\ product \subseteq [kind : Kind, eax : Word, factor : Word]

Init ==
    /\ regs = [r \in Reg |-> 0]
    /\ EFLAGS = {}
    /\ fault = FALSE
    /\ exact = {}
    /\ carry = {FALSE}
    /\ product = {}

-----------------------------------------------------------------------------
(* The flag helpers.                                                       *)
On(f, b) == IF b THEN {f} ELSE {}

Sign(v, h) == v % (2 * h) >= h

Signed(v, h) == IF v >= h THEN v - 2 * h ELSE v

ResultFlags(r, h) == On("ZF", r = 0) \cup On("SF", Sign(r, h)) \cup On("PF", EvenParity(r))

setLogicFlagsN(r, h) == ResultFlags(r, h)

(* Mutant: the carry of a sum that equals its first operand.               *)
setAddFlagsOff(a, b, r) ==
    LET of == Sign(a, Half) = Sign(b, Half) /\ Sign(a, Half) # Sign(r, Half) IN
    ResultFlags(r, Half) \cup On("CF", r <= a) \cup On("OF", of)

setAddFlags(a, b, r) ==
    LET of == Sign(a, Half) = Sign(b, Half) /\ Sign(a, Half) # Sign(r, Half) IN
    ResultFlags(r, Half) \cup On("CF", r < a) \cup On("OF", of)

setADCFlagsN(a, b, c, h) ==
    LET r == (a + b + c) % (2 * h)
        of == Sign(a, h) = Sign(b, h) /\ Sign(a, h) # Sign(r, h)
    IN  ResultFlags(r, h) \cup On("CF", a + b + c > 2 * h - 1) \cup On("OF", of)

setAddFlagsN(a, b, h) == setADCFlagsN(a, b, 0, h)

(* Mutant: the overflow of a subtraction by the rule for additions.        *)
setSubFlagsAdd(a, b, r, h) ==
    LET of == Sign(a, h) = Sign(b, h) /\ Sign(a, h) # Sign(r, h) IN
    ResultFlags(r, h) \cup On("CF", a < b) \cup On("OF", of)

setSubFlagsN(a, b, r, h) ==
    LET of == Sign(a, h) # Sign(b, h) /\ Sign(a, h) # Sign(r, h) IN
    ResultFlags(r, h) \cup On("CF", a < b) \cup On("OF", of)

(* The subtrahend is b + borrow in 32 bits, whatever the operand size.     *)
setSBBFlagsN(a, b, borrow, r, h) == setSubFlagsN(a, (b + borrow) % (2 * Half), r, h)

condition(op) == Holds(op, EFLAGS)

-----------------------------------------------------------------------------
(* Registers by operand size: a narrow write leaves the upper bits alone.  *)
Value(r, size) == regs[r] % (2 * H(size))

Put(r, v, size) ==
    LET m == 2 * H(size) IN [regs EXCEPT ![r] = (@ - (@ % m)) + (v % m)]

Carry == IF "CF" \in EFLAGS THEN 1 ELSE 0

(* What the instruction established: the signed result and its carry.      *)
Tells(s, h, c) ==
    /\ exact' = {[s |-> s, h |-> h]}
    /\ carry' = {c}

(* The process has not ended, and the instruction does not end it.         *)
Runs == ~fault /\ fault' = FALSE

Add(r, b, size) ==
    LET h == H(size)  a == Value(r, size)  res == (a + b) % (2 * h) IN
    /\ Runs
    /\ regs' = Put(r, res, size)
    /\ EFLAGS' = IF size = "wide" THEN setAddFlags(a, b, res) ELSE setAddFlagsN(a, b, h)
    /\ Tells(Signed(a, h) + Signed(b, h), h, a + b >= 2 * h)
    /\ product' = {}

Adc(r, b, size) ==
    LET h == H(size)  a == Value(r, size) IN
    /\ Runs
    /\ regs' = Put(r, a + b + Carry, size)
    /\ EFLAGS' = setADCFlagsN(a, b, Carry, h)
    /\ Tells(Signed(a, h) + Signed(b, h) + Carry, h, a + b + Carry >= 2 * h)
    /\ product' = {}

(* SUB and CMP: CMP keeps the result to itself.                            *)
Sub(r, b, size) ==
    LET h == H(size)  a == Value(r, size)  res == (a - b) % (2 * h) IN
    /\ EFLAGS' = setSubFlagsN(a, b, res, h)
    /\ Tells(Signed(a, h) - Signed(b, h), h, a < b)
    /\ \/ Runs /\ regs' = Put(r, res, size) /\ product' = {}
       \/ Runs /\ UNCHANGED <<regs, product>>

(* SBB.  Excused: the subtrahend b + borrow is no longer the operand, when *)
(* it changes sign or wraps.                                               *)
Sbb(r, b, size) ==
    LET h == H(size)  a == Value(r, size)  res == (a - b - Carry) % (2 * h) IN
    /\ Runs
    /\ regs' = Put(r, res, size)
    /\ EFLAGS' = setSBBFlagsN(a, b, Carry, res, h)
    /\ exact' = IF "sbb" \in Excused /\ b + Carry \in {h, 2 * h} THEN {}
                ELSE {[s |-> Signed(a, h) - Signed(b, h) - Carry, h |-> h]}
    /\ carry' = {a < b + Carry} \cup (IF "sbb" \in Excused /\ b + Carry = 2 * Half THEN {FALSE} ELSE {})
    /\ product' = {}

Neg(r, size) ==
    LET h == H(size)  a == Value(r, size)  res == (0 - a) % (2 * h) IN
    /\ Runs
    /\ regs' = Put(r, res, size)
    /\ EFLAGS' = setSubFlagsN(0, a, res, h)
    /\ Tells(0 - Signed(a, h), h, a # 0)
    /\ product' = {}

(* AND, OR, XOR, and TEST, which keeps the result to itself.               *)
Logic(r, b, size) ==
    LET h == H(size)  a == Value(r, size) IN
    \E res \in {BitAnd(a, b), BitOr(a, b), BitXor(a, b)} :
        /\ EFLAGS' = setLogicFlagsN(res % (2 * h), h)
        /\ Tells(Signed(res % (2 * h), h), h, FALSE)
        /\ \/ Runs /\ regs' = Put(r, res, size) /\ product' = {}
           \/ Runs /\ res = BitAnd(a, b) /\ UNCHANGED <<regs, product>>

(* The eight operations that an opcode or its /reg field chooses from.     *)
AluGroup(r, b, size) ==
    Add(r, b, size) \/ Logic(r, b, size) \/ Adc(r, b, size) \/ Sbb(r, b, size) \/ Sub(r, b, size)

(* INC and DEC by the FE and FF groups save the carry and put it back.     *)
IncDec(r, d, size) ==
    LET h == H(size)  a == Value(r, size)  res == (a + d) % (2 * h)
        new == IF d = 1 THEN setAddFlagsN(a, 1, h) ELSE setSubFlagsN(a, 1, res, h)
    IN  /\ Runs
        /\ regs' = Put(r, res, size)
        /\ EFLAGS' = (new \ {"CF"}) \cup (EFLAGS \cap {"CF"})
        /\ exact' = {[s |-> Signed(a, h) + d, h |-> h]}
        /\ product' = {}
        /\ UNCHANGED carry

(* INC and DEC by the one-byte opcodes 40 to 4F.  Excused: the carry that  *)
(* they clear.                                                             *)
IncDecShort(r, d) ==
    LET a == regs[r]  res == (a + d) % (2 * Half)
        new == IF d = 1 THEN setAddFlags(a, 1, res) ELSE setSubFlagsN(a, 1, res, Half)
    IN  /\ Runs
        /\ regs' = [regs EXCEPT ![r] = res]
        /\ EFLAGS' = new \ {"CF"}
        /\ exact' = {[s |-> Signed(a, Half) + d, h |-> Half]}
        /\ product' = {}
        /\ carry' = IF "short" \in Excused THEN carry \cup {FALSE} ELSE carry

(* MOV, LEA, XCHG, NOT, POP...: a register changes and no flag does.       *)
Mov(r, v, size) ==
    /\ Runs
    /\ regs' = Put(r, v, size)
    /\ product' = {}
    /\ UNCHANGED <<EFLAGS, exact, carry>>

(* CMPXCHG r/m32: v is the register operand, r the destination.            *)
Cmpxchg(r, v) ==
    LET a == regs["eax"]  dest == regs[r] IN
    /\ Runs
    /\ EFLAGS' = LET f == setSubFlagsN(a, dest, (a - dest) % (2 * Half), Half)
                 IN  IF a = dest THEN f \cup {"ZF"} ELSE f \ {"ZF"}
    /\ regs' = IF a = dest THEN [regs EXCEPT ![r] = v] ELSE [regs EXCEPT !["eax"] = dest]
    /\ Tells(Signed(a, Half) - Signed(dest, Half), Half, a < dest)
    /\ product' = {}

-----------------------------------------------------------------------------
(* Mutant: the operands of the signed forms are not sign-extended.         *)
MeaningUnsigned(v, kind, h) == v

Meaning(v, kind, h) == IF kind = "signed" THEN Signed(v, h) ELSE v

(* Division as Go does it, towards zero.                                   *)
Abs(n) == IF n < 0 THEN 0 - n ELSE n
Quotient(n, d) == IF (n < 0) = (d < 0) THEN Abs(n) \div Abs(d) ELSE 0 - (Abs(n) \div Abs(d))
Remainder(n, d) == n - d * Quotient(n, d)

(* MUL and IMUL r/m32 fill EDX:EAX; no flag is set, so none is relied on.  *)
Mul(kind, v) ==
    LET p == (Meaning(regs["eax"], kind, Half) * Meaning(v, kind, Half)) % (4 * Half * Half) IN
    /\ Runs
    /\ regs' = [regs EXCEPT !["eax"] = p % (2 * Half), !["edx"] = p \div (2 * Half)]
    /\ product' = {[kind |-> kind, eax |-> regs["eax"], factor |-> v]}
    /\ exact' = {}
    /\ carry' = BOOLEAN
    /\ UNCHANGED EFLAGS

(* IMUL r32, r/m32 and its immediate forms take the flags of the result.   *)
Imul(r, v) ==
    LET res == (Signed(regs[r], Half) * Signed(v, Half)) % (2 * Half) IN
    /\ Runs
    /\ regs' = [regs EXCEPT ![r] = res]
    /\ EFLAGS' = setLogicFlagsN(res, Half)
    /\ exact' = {}
    /\ carry' = BOOLEAN
    /\ product' = {}

(* DIV and IDIV r/m32: an error on zero and on a quotient out of range.    *)
Div(kind, v) ==
    LET dividend == Meaning(2 * Half * regs["edx"] + regs["eax"], kind, 2 * Half * Half)
        divisor == Meaning(v, kind, Half)
        q == Quotient(dividend, divisor)
        low == IF kind = "signed" THEN 0 - Half ELSE 0
        ok == v # 0 /\ q \in low..(low + 2 * Half - 1)
    IN  /\ ~fault
        /\ fault' = ~ok
        /\ regs' = IF ok THEN [regs EXCEPT !["eax"] = q % (2 * Half),
                                           !["edx"] = Remainder(dividend, divisor) % (2 * Half)]
                   ELSE regs
        /\ exact' = {}
        /\ carry' = BOOLEAN
        /\ product' = {}
        /\ UNCHANGED EFLAGS

Next ==
    \/ \E r \in Reg, size \in Sizes :
         \/ \E b \in Operand(H(size)) : AluGroup(r, b, size) \/ Mov(r, b, size)
         \/ Neg(r, size)
         \/ \E d \in {-1, 1} : IncDec(r, d, size)
    \/ \E r \in Reg :
         \/ \E d \in {-1, 1} : IncDecShort(r, d)
         \/ \E v \in Word : Cmpxchg(r, v) \/ Imul(r, v)
    \/ \E kind \in Kind, v \in Word : Mul(kind, v) \/ Div(kind, v)

Spec == Init /\ [][Next]_vars

-----------------------------------------------------------------------------
(* Conditional jumps decide by the exact signed result of the instruction  *)
(* that set the flags, also after the result itself no longer fits: after  *)
(* CMP a,b the conditions L, GE, G, LE, E and NE order a and b, for both   *)
(* operand sizes, however many flag-neutral instructions come between.     *)
ConditionsTellResult ==
    \A e \in exact :
        /\ condition("E") <=> e.s % (2 * e.h) = 0
        /\ condition("O") <=> e.s \notin (0 - e.h)..(e.h - 1)
        /\ condition("L") <=> e.s < 0
        /\ condition("GE") <=> e.s >= 0
        /\ condition("G") <=> e.s >= 0 /\ e.s % (2 * e.h) # 0
        /\ condition("LE") <=> e.s < 0 \/ e.s % (2 * e.h) = 0

(* The carry flag is the carry or borrow out of the last instruction that  *)
(* produces one, so that a chain ADD, ADC (or SUB, SBB) over several words *)
(* adds them up although counters are stepped with INC and DEC in between  *)
(* (excused: by their one-byte forms).                                     *)
CarryIsKept == ("CF" \in EFLAGS) \in carry

(* Dividing the product that MUL (or IMUL) has just left in EDX:EAX by the *)
(* factor it was made with raises no error and gives back the other factor *)
(* and remainder zero; the same for the signed pair.                       *)
DivUndoesMul ==
    [][\A p \in product :
          p.factor # 0 /\ Div(p.kind, p.factor) =>
              ~fault' /\ regs' = [eax |-> p.eax, edx |-> 0]]_vars
=============================================================================
