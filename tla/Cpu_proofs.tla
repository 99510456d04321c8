----------------------------- MODULE Cpu_proofs -----------------------------
(***************************************************************************)
(* Proofs about the integer unit, modules Alu and Shifts.  The run of      *)
(* MCCpu checks registers of three bits; the theorems hold for 8, 16 and   *)
(* 32 bits alike, for every register content and every count.              *)
(***************************************************************************)
EXTENDS Shifts, WellFoundedInduction, TLAPS

(* The integer unit: what the flags of module Alu mean.                    *)

(* Reduction to a width, by the range the unreduced value lies in.         *)
LEMMA ModIn == ASSUME NEW m \in Nat \ {0}, NEW v \in 0..(m - 1) PROVE v % m = v
  OBVIOUS

(* A sum that exceeds the width once wraps to itself less the width.       *)
LEMMA ModOver == ASSUME NEW m \in Nat \ {0}, NEW v \in m..(2 * m - 1) PROVE v % m = v - m
  OBVIOUS

(* A difference below zero wraps to itself plus the width.                 *)
LEMMA ModUnder == ASSUME NEW m \in Nat \ {0}, NEW v \in (0 - m)..(-1) PROVE v % m = v + m
  OBVIOUS

(* Every reduced value lies in its width.                                  *)
LEMMA ModRange == ASSUME NEW m \in Nat \ {0}, NEW v \in Int PROVE v % m \in 0..(m - 1)
  OBVIOUS

(* The flag set F tells the signed result s at the width with half h.      *)
Agree(F, s, h) ==
    /\ ("ZF" \in F) <=> (s % (2 * h) = 0)
    /\ ("OF" \in F) <=> (s < 0 - h \/ s >= h)
    /\ (("SF" \in F) # ("OF" \in F)) <=> (s < 0)

(* Which of the flags a helper turns on, one by one.                       *)
LEMMA SubFlagsByName ==
    ASSUME NEW a, NEW b, NEW r, NEW h, NEW F, F = setSubFlagsN(a, b, r, h)
    PROVE  /\ "ZF" \in F <=> r = 0
           /\ "SF" \in F <=> Sign(r, h)
           /\ "CF" \in F <=> a < b
           /\ "OF" \in F <=> (Sign(a, h) # Sign(b, h) /\ Sign(a, h) # Sign(r, h))
  BY DEF setSubFlagsN, ResultFlags, On

(* The same for additions with a carry.                                    *)
LEMMA AdcFlagsByName ==
    ASSUME NEW a, NEW b, NEW c, NEW h, NEW r, r = (a + b + c) % (2 * h),
           NEW F, F = setADCFlagsN(a, b, c, h)
    PROVE  /\ "ZF" \in F <=> r = 0
           /\ "SF" \in F <=> Sign(r, h)
           /\ "CF" \in F <=> a + b + c > 2 * h - 1
           /\ "OF" \in F <=> (Sign(a, h) = Sign(b, h) /\ Sign(a, h) # Sign(r, h))
  BY DEF setADCFlagsN, ResultFlags, On

(* The same for the logical operations.                                    *)
LEMMA LogicFlagsByName ==
    ASSUME NEW r, NEW h, NEW F, F = setLogicFlagsN(r, h)
    PROVE  /\ "ZF" \in F <=> r = 0
           /\ "SF" \in F <=> Sign(r, h)
           /\ "CF" \notin F
           /\ "OF" \notin F
  BY DEF setLogicFlagsN, ResultFlags, On

(* The sign bit of an operand.                                             *)
LEMMA SignOf ==
    ASSUME NEW h \in Nat \ {0}, NEW v \in Operand(h)
    PROVE  Sign(v, h) = (v >= h)
  <1>1. v % (2 * h) = v
    BY ModIn, 2 * h \in Nat \ {0} DEF Operand
  <1> QED BY <1>1 DEF Sign

(* Subtraction: SUB, CMP, NEG, DEC and CMPXCHG.                            *)
LEMMA SubAgrees ==
    ASSUME NEW h \in Nat \ {0}, NEW a \in Operand(h), NEW b \in Operand(h)
    PROVE  /\ (a - b) % (2 * h) \in Operand(h)
           /\ Agree(setSubFlagsN(a, b, (a - b) % (2 * h), h), Signed(a, h) - Signed(b, h), h)
  <1> DEFINE r == (a - b) % (2 * h)
             F == setSubFlagsN(a, b, r, h)
             s == Signed(a, h) - Signed(b, h)
  <1>m. 2 * h \in Nat \ {0}
    OBVIOUS
  <1>1. r = IF a >= b THEN a - b ELSE a - b + 2 * h
    <2>1. CASE a >= b
      BY <2>1, <1>m, ModIn DEF Operand
    <2>2. CASE a < b
      BY <2>2, <1>m, ModUnder DEF Operand
    <2> QED BY <2>1, <2>2 DEF Operand
  <1>2. r \in Operand(h)
    BY <1>1 DEF Operand
  <1>3. s % (2 * h) = r
    <2>1. s \in (0 - 2 * h)..(2 * h - 1) /\ (s = r \/ s = r - 2 * h)
      BY <1>1 DEF Signed, Operand
    <2>2. r \in 0..(2 * h - 1)
      BY <1>2 DEF Operand
    <2> HIDE DEF s, r
    <2>3. CASE s >= 0
      <3>1. s \in 0..(2 * h - 1) /\ s = r
        BY <2>1, <2>2, <2>3
      <3> QED BY <1>m, <3>1, ModIn
    <2>4. CASE s < 0
      <3>1. s \in (0 - 2 * h)..(-1) /\ s + 2 * h = r
        BY <2>1, <2>2, <2>4
      <3> QED BY <1>m, <3>1, ModUnder
    <2> QED BY <2>1, <2>3, <2>4
  <1>4. Sign(a, h) = (a >= h) /\ Sign(b, h) = (b >= h) /\ Sign(r, h) = (r >= h)
    BY <1>2, SignOf
  <1>5. /\ "ZF" \in F <=> r = 0
        /\ "SF" \in F <=> r >= h
        /\ "OF" \in F <=> ((a >= h) # (b >= h) /\ (a >= h) # (r >= h))
    <2>1. /\ "ZF" \in F <=> r = 0
          /\ "SF" \in F <=> Sign(r, h)
          /\ "OF" \in F <=> (Sign(a, h) # Sign(b, h) /\ Sign(a, h) # Sign(r, h))
      BY SubFlagsByName
    <2> QED BY <2>1, <1>4, Zenon
  <1> HIDE DEF F
  <1>6. ("OF" \in F) <=> (s < 0 - h \/ s >= h)
    BY <1>5, <1>1 DEF Signed, Operand
  <1>7. (("SF" \in F) # ("OF" \in F)) <=> (s < 0)
    BY <1>5, <1>1 DEF Signed, Operand
  <1> QED BY <1>2, <1>3, <1>5, <1>6, <1>7 DEF Agree, F

(* Addition at any width: ADC, ADD and INC.                                *)
LEMMA AdcAgrees ==
    ASSUME NEW h \in Nat \ {0}, NEW a \in Operand(h), NEW b \in Operand(h), NEW c \in {0, 1}
    PROVE  /\ (a + b + c) % (2 * h) \in Operand(h)
           /\ Agree(setADCFlagsN(a, b, c, h), Signed(a, h) + Signed(b, h) + c, h)
           /\ (a + b + c) % (2 * h) = IF a + b + c < 2 * h THEN a + b + c ELSE a + b + c - 2 * h
  <1> DEFINE r == (a + b + c) % (2 * h)
             F == setADCFlagsN(a, b, c, h)
             s == Signed(a, h) + Signed(b, h) + c
  <1>m. 2 * h \in Nat \ {0}
    OBVIOUS
  <1>1. r = IF a + b + c < 2 * h THEN a + b + c ELSE a + b + c - 2 * h
    <2>1. CASE a + b + c < 2 * h
      BY <2>1, <1>m, ModIn DEF Operand
    <2>2. CASE a + b + c >= 2 * h
      BY <2>2, <1>m, ModOver DEF Operand
    <2> QED BY <2>1, <2>2 DEF Operand
  <1>2. r \in Operand(h)
    BY <1>1 DEF Operand
  <1>3. s % (2 * h) = r
    <2>1. s \in (0 - 2 * h)..(2 * h - 1) /\ (s = r \/ s = r - 2 * h)
      BY <1>1 DEF Signed, Operand
    <2>2. CASE s >= 0
      BY <2>1, <2>2, <1>2, <1>m, ModIn, SMTT(20), SMTT(30), Zenon DEF Operand
    <2>3. CASE s < 0
      BY <2>1, <2>3, <1>2, <1>m, ModUnder DEF Operand
    <2> QED BY <2>1, <2>2, <2>3
  <1>4. Sign(a, h) = (a >= h) /\ Sign(b, h) = (b >= h) /\ Sign(r, h) = (r >= h)
    BY <1>2, SignOf
  <1>5. /\ "ZF" \in F <=> r = 0
        /\ "SF" \in F <=> r >= h
        /\ "OF" \in F <=> ((a >= h) = (b >= h) /\ (a >= h) # (r >= h))
    <2>1. /\ "ZF" \in F <=> r = 0
          /\ "SF" \in F <=> Sign(r, h)
          /\ "OF" \in F <=> (Sign(a, h) = Sign(b, h) /\ Sign(a, h) # Sign(r, h))
      BY AdcFlagsByName
    <2> QED BY <2>1, <1>4, Zenon
  <1> HIDE DEF F
  <1>6. ("OF" \in F) <=> (s < 0 - h \/ s >= h)
    BY <1>5, <1>1 DEF Signed, Operand
  <1>7. (("SF" \in F) # ("OF" \in F)) <=> (s < 0)
    BY <1>5, <1>1 DEF Signed, Operand
  <1> QED BY <1>1, <1>2, <1>3, <1>5, <1>6, <1>7 DEF Agree, F

(* The 32-bit helper finds the carry by comparing the result with an       *)
(* operand; the flags are those of the helper for any width.               *)
LEMMA AddIsAdc ==
    ASSUME Half \in Nat \ {0, 1}, NEW a \in Word, NEW b \in Word
    PROVE  setAddFlags(a, b, (a + b) % (2 * Half)) = setADCFlagsN(a, b, 0, Half)
  <1> DEFINE r == (a + b) % (2 * Half)
  <1>1. r = IF a + b < 2 * Half THEN a + b ELSE a + b - 2 * Half
    <2>1. a \in Operand(Half) /\ b \in Operand(Half) /\ a + b + 0 = a + b
      BY DEF Word, Operand
    <2>2. (a + b + 0) % (2 * Half) = IF a + b + 0 < 2 * Half THEN a + b + 0 ELSE a + b + 0 - 2 * Half
      BY <2>1, AdcAgrees, Half \in Nat \ {0}, 0 \in {0, 1}, Zenon
    <2> QED BY <2>1, <2>2 DEF Word
  <1>2. (r < a) = (a + b + 0 > 2 * Half - 1)
    BY <1>1 DEF Word
  <1>3. (a + b + 0) % (2 * Half) = r
    BY DEF Word
  <1> QED BY <1>2, <1>3 DEF setAddFlags, setADCFlagsN

(* AND, OR, XOR and TEST.                                                  *)
LEMMA LogicAgrees ==
    ASSUME NEW h \in Nat \ {0}, NEW r \in Operand(h)
    PROVE  Agree(setLogicFlagsN(r, h), Signed(r, h), h)
  <1> DEFINE F == setLogicFlagsN(r, h)
  <1>1. ("ZF" \in F <=> r = 0) /\ ("SF" \in F <=> Sign(r, h)) /\ "OF" \notin F
    BY LogicFlagsByName
  <1>2. Sign(r, h) = (r >= h)
    BY SignOf
  <1>3. Signed(r, h) % (2 * h) = r
    <2>1. CASE r < h
      BY <2>1, ModIn, 2 * h \in Nat \ {0} DEF Operand, Signed
    <2>2. CASE r >= h
      BY <2>2, ModUnder, 2 * h \in Nat \ {0} DEF Operand, Signed
    <2> QED BY <2>1, <2>2 DEF Operand
  <1> HIDE DEF F
  <1>4. ~(Signed(r, h) < 0 - h \/ Signed(r, h) >= h) /\ (r >= h <=> Signed(r, h) < 0)
    BY DEF Signed, Operand
  <1>5. ("OF" \in F) <=> (Signed(r, h) < 0 - h \/ Signed(r, h) >= h)
    BY <1>1, <1>4
  <1>6. (("SF" \in F) # ("OF" \in F)) <=> (Signed(r, h) < 0)
    <2>1. ("SF" \in F) <=> (r >= h)
      BY <1>1, <1>2, Zenon
    <2> QED BY <2>1, <1>1, <1>4
  <1> QED BY <1>1, <1>3, <1>5, <1>6 DEF Agree, F

(* SBB, where b + borrow has the sign of b and does not wrap: the borrow   *)
(* can be counted to the subtrahend, as setSBBFlagsN does.                 *)
LEMMA SbbAgrees ==
    ASSUME NEW h \in Nat \ {0}, NEW a \in Operand(h), NEW b \in Operand(h), NEW c \in {0, 1},
           h <= Half, Half \in Nat, b + c # h, b + c # 2 * h
    PROVE  Agree(setSBBFlagsN(a, b, c, (a - b - c) % (2 * h), h), Signed(a, h) - Signed(b, h) - c, h)
  <1>1. b + c \in Operand(h) /\ a - b - c = a - (b + c)
    BY DEF Operand
  <1>2. (b + c) % (2 * Half) = b + c
    <2>1. b + c \in 0..(2 * Half - 1) /\ 2 * Half \in Nat \ {0}
      BY DEF Operand
    <2> QED BY <2>1, ModIn
  <1>3. Signed(a, h) - Signed(b, h) - c = Signed(a, h) - Signed(b + c, h)
    BY DEF Signed, Operand
  <1>4. Agree(setSubFlagsN(a, b + c, (a - (b + c)) % (2 * h), h), Signed(a, h) - Signed(b + c, h), h)
    BY <1>1, SubAgrees
  <1> QED BY <1>1, <1>2, <1>3, <1>4 DEF setSBBFlagsN

(* INC and DEC put the carry back, which Agree does not look at.           *)
LEMMA CarryIsApart ==
    ASSUME NEW F, NEW G, NEW s, NEW h, Agree(F, s, h), G \in SUBSET {"CF"}
    PROVE  Agree((F \ {"CF"}) \cup G, s, h)
  BY DEF Agree

(* Arithmetic facts for the next lemma, where the modulus is not a literal. *)
LEMMA DivMod ==
    ASSUME NEW m \in Nat \ {0}, NEW x \in Nat
    PROVE  x \div m \in Nat /\ x = m * (x \div m) + (x % m)
  OBVIOUS

(* Multiplication by a positive number keeps the order.                    *)
LEMMA TimesMonotone ==
    ASSUME NEW m \in Nat, NEW q \in Nat, NEW k \in Nat, q <= k
    PROVE  m * q \in Nat /\ m * q <= m * k
  OBVIOUS

(* A multiple and the next one.                                            *)
LEMMA TimesSucc ==
    ASSUME NEW m \in Nat, NEW q \in Nat
    PROVE  m * (q + 1) = m * q + m
  OBVIOUS

(* Twice a multiple is a multiple of twice.                                *)
LEMMA TwiceTimes ==
    ASSUME NEW k \in Nat, NEW n \in Nat
    PROVE  2 * (k * n) = (2 * n) * k
  OBVIOUS

(* A narrow write stays within the register.                               *)
LEMMA PutInWord ==
    ASSUME NEW x \in Word, NEW v \in Int, NEW size, NEW m, m = 2 * H(size)
    PROVE  (x - (x % m)) + (v % m) \in Word
  <1>1. m \in Nat \ {0} /\ Half \in Nat \ {0, 1} /\ NarrowHalf \in Nat \ {0, 1}
    BY AluAssumption DEF H
  <1>2. PICK k \in Nat : 2 * Half = m * k
    <2>1. CASE size = "wide"
      BY <2>1, <1>1, 2 * Half = m * 1 DEF H
    <2>2. CASE size # "wide"
      <3>1. PICK k \in Word : Half = k * NarrowHalf
        BY AluAssumption
      <3>2. k \in Nat
        BY <3>1, <1>1 DEF Word
      <3>3. 2 * Half = (2 * NarrowHalf) * k
        BY <3>1, <3>2, <1>1, TwiceTimes
      <3> QED BY <2>2, <3>2, <3>3 DEF H
    <2> QED BY <2>1, <2>2
  <1> DEFINE q == x \div m
             t == x % m
  <1>3. x \in Nat /\ x < 2 * Half
    BY <1>1 DEF Word
  <1>4. q \in Nat /\ x = m * q + t /\ t \in 0..(m - 1)
    <2>1. q \in Nat /\ x = m * q + t
      BY <1>1, <1>3, DivMod, Zenon
    <2>2. t \in 0..(m - 1)
      BY <1>1, <1>3, ModRange
    <2> QED BY <2>1, <2>2
  <1>5. v % m \in 0..(m - 1)
    BY <1>1, ModRange
  <1> HIDE DEF q, t
  <1>6. m * q \in Nat /\ m * q + m <= m * k
    <2>1. m * q \in Nat
      BY <1>1, <1>4, TimesMonotone
    <2>2. q < k
      <3>1. ASSUME k <= q PROVE FALSE
        <4>1. m * k <= m * q
          BY <3>1, <1>1, <1>2, <1>4, TimesMonotone
        <4> QED BY <4>1, <2>1, <1>1, <1>2, <1>3, <1>4
      <3> QED BY <3>1, <1>2, <1>4
    <2>3. m * (q + 1) <= m * k
      BY <2>2, <1>1, <1>2, <1>4, TimesMonotone
    <2> QED BY <2>1, <2>3, <1>1, <1>4, TimesSucc
  <1>7. x - t = m * q
    BY <1>4, <1>6, <1>1
  <1>8. (x - t) + (v % m) \in 0..(2 * Half - 1)
    BY <1>7, <1>6, <1>5, <1>2, <1>1
  <1> QED BY <1>8 DEF Word, t

-----------------------------------------------------------------------------
(* Types of the pieces the actions are made of.                            *)
LEMMA WidthTyped ==
    ASSUME NEW size
    PROVE  /\ H(size) \in {Half, NarrowHalf}
           /\ H(size) \in Nat \ {0, 1}
           /\ Half \in Nat \ {0, 1}
           /\ H("wide") = Half
           /\ Operand(Half) = Word
  BY AluAssumption DEF H, Operand, Word

(* A value of an operand size is a value of a register.                    *)
LEMMA OperandFits ==
    ASSUME NEW size
    PROVE  Operand(H(size)) \subseteq Word /\ H(size) <= Half
  <1>1. Half \in Nat \ {0, 1} /\ NarrowHalf \in Nat \ {0, 1}
    BY AluAssumption
  <1>2. PICK k \in Word : Half = k * NarrowHalf
    BY AluAssumption
  <1>3. k \in Nat /\ k # 0
    BY <1>1, <1>2 DEF Word
  <1>4. NarrowHalf * 1 <= NarrowHalf * k
    BY <1>1, <1>3, TimesMonotone
  <1>5. NarrowHalf <= Half
    BY <1>1, <1>2, <1>3, <1>4
  <1> QED BY <1>1, <1>5 DEF H, Operand, Word

(* What is read at an operand size is a value of that size.                *)
LEMMA ValueTyped ==
    ASSUME TypeOK, NEW r \in Reg, NEW size
    PROVE  Value(r, size) \in Operand(H(size))
  <1>1. 2 * H(size) \in Nat \ {0} /\ regs[r] \in Int
    BY WidthTyped DEF TypeOK, Word
  <1> QED BY <1>1, ModRange, Zenon DEF Value, Operand

(* What is written at an operand size leaves a register value.             *)
LEMMA PutTyped ==
    ASSUME TypeOK, NEW r \in Reg, NEW v \in Int, NEW size
    PROVE  Put(r, v, size) \in [Reg -> Word]
  <1> DEFINE m == 2 * H(size)
  <1>1. regs[r] \in Word
    BY DEF TypeOK
  <1>2. (regs[r] - (regs[r] % m)) + (v % m) \in Word
    BY <1>1, PutInWord
  <1> QED BY <1>2 DEF Put, TypeOK

(* The flag helpers turn on arithmetic flags only.                         *)
LEMMA FlagsTyped ==
    ASSUME NEW a, NEW b, NEW c, NEW r, NEW h
    PROVE  /\ setLogicFlagsN(r, h) \subseteq Flag
           /\ setAddFlags(a, b, r) \subseteq Flag
           /\ setADCFlagsN(a, b, c, h) \subseteq Flag
           /\ setAddFlagsN(a, b, h) \subseteq Flag
           /\ setSubFlagsN(a, b, r, h) \subseteq Flag
           /\ setSBBFlagsN(a, b, c, r, h) \subseteq Flag
  <1>1. \A x, y : ResultFlags(x, y) \subseteq Flag
    BY DEF ResultFlags, On, Flag
  <1>2. \A x : On("CF", x) \subseteq Flag /\ On("OF", x) \subseteq Flag
    BY DEF On, Flag
  <1>3. \A x, y, z, w : setSubFlagsN(x, y, z, w) \subseteq Flag
    BY <1>1, <1>2 DEF setSubFlagsN
  <1>4. \A x, y, z, w : setADCFlagsN(x, y, z, w) \subseteq Flag
    BY <1>1, <1>2 DEF setADCFlagsN
  <1>5. setAddFlags(a, b, r) \subseteq Flag
    BY <1>1, <1>2 DEF setAddFlags
  <1> QED BY <1>1, <1>3, <1>4, <1>5 DEF setLogicFlagsN, setAddFlagsN, setSBBFlagsN

(* The signed reading of an integer is an integer.                         *)
LEMMA SignedTyped ==
    ASSUME NEW h \in Nat, NEW v \in Int
    PROVE  Signed(v, h) \in Int
  BY DEF Signed

(* The two halves of a product are register values.                        *)
LEMMA HighHalf ==
    ASSUME NEW m \in Nat \ {0}, NEW p \in 0..(m * m - 1)
    PROVE  p \div m \in 0..(m - 1)
  <1> DEFINE q == p \div m
  <1>1. m * m \in Nat /\ p \in Nat /\ p < m * m
    OBVIOUS
  <1>2. q \in Nat /\ p = m * q + (p % m) /\ p % m \in 0..(m - 1)
    <2>1. q \in Nat /\ p = m * q + (p % m)
      BY <1>1, DivMod
    <2>2. p % m \in 0..(m - 1)
      BY <1>1, ModRange
    <2> QED BY <2>1, <2>2
  <1> HIDE DEF q
  <1>3. ASSUME m <= q PROVE FALSE
    <2>1. m * m <= m * q /\ m * q \in Nat
      BY <1>3, <1>2, TimesMonotone
    <2> QED BY <2>1, <1>1, <1>2
  <1>4. q \in 0..(m - 1)
    BY <1>2, <1>3
  <1> QED BY <1>4 DEF q

(* Every instruction keeps the registers, the flags and the history in     *)
(* their types.                                                            *)
LEMMA TypeStep == TypeOK /\ [Next]_vars => TypeOK'
  <1> SUFFICES ASSUME TypeOK, [Next]_vars PROVE TypeOK'
    OBVIOUS
  <1>c. Carry \in {0, 1}
    BY DEF Carry
  <1>t. ASSUME NEW s \in Int, NEW h \in {Half, NarrowHalf}, exact' = {[s |-> s, h |-> h]}
        PROVE  exact' \subseteq [s : Int, h : {Half, NarrowHalf}]
    BY <1>t
  <1>1. ASSUME NEW r \in Reg, NEW size \in Sizes, NEW b \in Operand(H(size)),
               Add(r, b, size) \/ Adc(r, b, size) \/ Sub(r, b, size) \/ Sbb(r, b, size)
                 \/ Logic(r, b, size) \/ Mov(r, b, size)
        PROVE  TypeOK'
    <2> DEFINE h == H(size)
               a == Value(r, size)
    <2>1. h \in Nat \ {0, 1} /\ h \in {Half, NarrowHalf} /\ a \in Int /\ b \in Int
      BY WidthTyped, ValueTyped DEF Operand
    <2>2. Signed(a, h) \in Int /\ Signed(b, h) \in Int
      BY <2>1, SignedTyped
    <2> HIDE DEF h, a
    <2>3. CASE Add(r, b, size)
      <3>1. regs' \in [Reg -> Word]
        <4>1. (a + b) % (2 * h) \in Int
          BY <2>1, ModRange
        <4> QED BY <4>1, <2>3, PutTyped DEF Add, a, h
      <3>2. EFLAGS' \subseteq Flag
        BY <2>3, FlagsTyped, Zenon DEF Add
      <3>3. Tells(Signed(a, h) + Signed(b, h), h, a + b >= 2 * h)
        BY <2>3 DEF Add, a, h
      <3>4. exact' \subseteq [s : Int, h : {Half, NarrowHalf}] /\ carry' \subseteq BOOLEAN
        <4>1. exact' \subseteq [s : Int, h : {Half, NarrowHalf}]
          BY <3>3, <2>1, <2>2, <1>t DEF Tells
        <4>2. carry' \subseteq BOOLEAN
          BY <3>3 DEF Tells
        <4> QED BY <4>1, <4>2
      <3> QED BY <3>1, <3>2, <3>4, <2>3, Zenon DEF Add, Runs, TypeOK
    <2>4. CASE Adc(r, b, size)
      <3>1. regs' \in [Reg -> Word]
        BY <2>4, <2>1, <1>c, PutTyped DEF Adc, a, h
      <3>2. EFLAGS' \subseteq Flag
        BY <2>4, FlagsTyped, Zenon DEF Adc
      <3>3. Tells(Signed(a, h) + Signed(b, h) + Carry, h, a + b + Carry >= 2 * h)
        BY <2>4 DEF Adc, a, h
      <3>4. exact' \subseteq [s : Int, h : {Half, NarrowHalf}] /\ carry' \subseteq BOOLEAN
        <4>1. exact' \subseteq [s : Int, h : {Half, NarrowHalf}]
          BY <3>3, <2>1, <2>2, <1>c, <1>t DEF Tells
        <4>2. carry' \subseteq BOOLEAN
          BY <3>3 DEF Tells
        <4> QED BY <4>1, <4>2
      <3> QED BY <3>1, <3>2, <3>4, <2>4, Zenon DEF Adc, Runs, TypeOK
    <2>5. CASE Sub(r, b, size)
      <3>1. regs' \in [Reg -> Word]
        <4>1. (a - b) % (2 * h) \in Int
          BY <2>1, ModRange
        <4> QED BY <4>1, <2>5, PutTyped DEF Sub, a, h, TypeOK
      <3>2. EFLAGS' \subseteq Flag
        BY <2>5, FlagsTyped, Zenon DEF Sub
      <3>3. Tells(Signed(a, h) - Signed(b, h), h, a < b)
        BY <2>5 DEF Sub, a, h
      <3>4. exact' \subseteq [s : Int, h : {Half, NarrowHalf}] /\ carry' \subseteq BOOLEAN
        <4>1. exact' \subseteq [s : Int, h : {Half, NarrowHalf}]
          BY <3>3, <2>1, <2>2, <1>t DEF Tells
        <4>2. carry' \subseteq BOOLEAN
          BY <3>3 DEF Tells
        <4> QED BY <4>1, <4>2
      <3> QED BY <3>1, <3>2, <3>4, <2>5, Zenon DEF Sub, Runs, TypeOK
    <2>6. CASE Sbb(r, b, size)
      <3>1. regs' \in [Reg -> Word]
        <4>1. (a - b - Carry) % (2 * h) \in Int
          BY <2>1, <1>c, ModRange
        <4> QED BY <4>1, <2>6, PutTyped DEF Sbb, a, h
      <3>2. EFLAGS' \subseteq Flag
        BY <2>6, FlagsTyped DEF Sbb
      <3>3. \/ exact' = {}
            \/ exact' = {[s |-> Signed(a, h) - Signed(b, h) - Carry, h |-> h]}
        BY <2>6 DEF Sbb, a, h
      <3>4. exact' \subseteq [s : Int, h : {Half, NarrowHalf}] /\ carry' \subseteq BOOLEAN
        <4>1. exact' \subseteq [s : Int, h : {Half, NarrowHalf}]
          BY <3>3, <2>1, <2>2, <1>c, <1>t
        <4>2. carry' \subseteq BOOLEAN
          <5> DEFINE c == a < b + Carry
          <5>1. carry' = {c} \/ carry' = {c} \cup {FALSE}
            BY <2>6, Zenon DEF Sbb, a, h
          <5>2. c \in BOOLEAN
            OBVIOUS
          <5>3. FALSE \in BOOLEAN
            OBVIOUS
          <5> HIDE DEF c
          <5>4. \A x \in carry' : x = c \/ x = FALSE
            <6>1. CASE carry' = {c}
              BY <6>1, Zenon
            <6>2. CASE carry' = {c} \cup {FALSE}
              BY <6>2, Zenon
            <6> QED BY <5>1, <6>1, <6>2, Zenon
          <5> QED BY <5>2, <5>3, <5>4, Zenon
        <4> QED BY <4>1, <4>2
      <3> QED BY <3>1, <3>2, <3>4, <2>6, Zenon DEF Sbb, Runs, TypeOK
    <2>7. CASE Logic(r, b, size)
      <3>1. a \in Word /\ b \in Word
        BY ValueTyped, OperandFits DEF a
      <3>2. PICK res \in {BitAnd(a, b), BitOr(a, b), BitXor(a, b)} :
              /\ EFLAGS' = setLogicFlagsN(res % (2 * h), h)
              /\ Tells(Signed(res % (2 * h), h), h, FALSE)
              /\ \/ Runs /\ regs' = Put(r, res, size) /\ product' = {}
                 \/ Runs /\ res = BitAnd(a, b) /\ UNCHANGED <<regs, product>>
        BY <2>7, Zenon DEF Logic, a, h
      <3>3. res \in Int
        <4>1. res \in Word
          BY <3>1, <3>2, AluAssumption
        <4> QED BY <4>1, WidthTyped DEF Word
      <3>4. res % (2 * h) \in Int
        BY <3>3, <2>1, ModRange
      <3>5. exact' \subseteq [s : Int, h : {Half, NarrowHalf}] /\ carry' \subseteq BOOLEAN
        <4>1. exact' \subseteq [s : Int, h : {Half, NarrowHalf}]
          BY <3>2, <3>4, <2>1, SignedTyped, <1>t DEF Tells
        <4>2. carry' \subseteq BOOLEAN
          BY <3>2 DEF Tells
        <4> QED BY <4>1, <4>2
      <3>6. EFLAGS' \subseteq Flag
        BY <3>2, FlagsTyped, Zenon
      <3>7. regs' \in [Reg -> Word]
        BY <3>2, <3>3, PutTyped DEF TypeOK
      <3> QED BY <3>2, <3>5, <3>6, <3>7, Zenon DEF Runs, TypeOK
    <2>8. CASE Mov(r, b, size)
      BY <2>8, <2>1, PutTyped, Zenon DEF Mov, Runs, TypeOK
    <2> QED BY <1>1, <2>3, <2>4, <2>5, <2>6, <2>7, <2>8
  <1>2. ASSUME NEW r \in Reg, NEW size \in Sizes, Neg(r, size)
        PROVE  TypeOK'
    <2> DEFINE h == H(size)
               a == Value(r, size)
    <2>1. h \in Nat \ {0, 1} /\ h \in {Half, NarrowHalf} /\ a \in Int
      BY WidthTyped, ValueTyped DEF Operand
    <2> HIDE DEF h, a
    <2>2. Signed(a, h) \in Int /\ (0 - a) % (2 * h) \in Int
      BY <2>1, SignedTyped, ModRange
    <2>3. regs' \in [Reg -> Word]
      BY <2>2, <1>2, PutTyped DEF Neg, a, h
    <2>4. EFLAGS' \subseteq Flag
      BY <1>2, FlagsTyped, Zenon DEF Neg
    <2>5. Tells(0 - Signed(a, h), h, a # 0)
      BY <1>2 DEF Neg, a, h
    <2>6. exact' \subseteq [s : Int, h : {Half, NarrowHalf}] /\ carry' \subseteq BOOLEAN
      <3>1. exact' \subseteq [s : Int, h : {Half, NarrowHalf}]
        BY <2>5, <2>1, <2>2, <1>t DEF Tells
      <3>2. carry' \subseteq BOOLEAN
        BY <2>5 DEF Tells
      <3> QED BY <3>1, <3>2
    <2> QED BY <2>3, <2>4, <2>6, <1>2, Zenon DEF Neg, Runs, TypeOK
  <1>3. ASSUME NEW r \in Reg, NEW size \in Sizes, NEW d \in {-1, 1}, IncDec(r, d, size)
        PROVE  TypeOK'
    <2> DEFINE h == H(size)
               a == Value(r, size)
    <2>1. h \in Nat \ {0, 1} /\ h \in {Half, NarrowHalf} /\ a \in Int
      BY WidthTyped, ValueTyped DEF Operand
    <2> HIDE DEF h, a
    <2>2. Signed(a, h) + d \in Int /\ (a + d) % (2 * h) \in Int
      BY <2>1, SignedTyped, ModRange
    <2>3. regs' \in [Reg -> Word]
      BY <2>2, <1>3, PutTyped DEF IncDec, a, h
    <2>4. EFLAGS' \subseteq Flag
      BY <1>3, FlagsTyped, Zenon DEF IncDec, TypeOK
    <2>5. exact' \subseteq [s : Int, h : {Half, NarrowHalf}]
      BY <2>1, <2>2, <1>3, <1>t DEF IncDec, a, h
    <2> QED BY <2>1, <2>2, <2>3, <2>4, <2>5, <1>3, Zenon DEF IncDec, Runs, TypeOK
  <1>4. ASSUME NEW r \in Reg, NEW d \in {-1, 1}, IncDecShort(r, d)
        PROVE  TypeOK'
    <2>1. Half \in Nat \ {0, 1} /\ regs[r] \in Int
      BY WidthTyped DEF TypeOK, Word
    <2>2. (regs[r] + d) % (2 * Half) \in Word
      BY <2>1, regs[r] + d \in Int, 2 * Half \in Nat \ {0}, ModRange, Zenon DEF Word
    <2>5. exact' \subseteq [s : Int, h : {Half, NarrowHalf}]
      <3>1. Signed(regs[r], Half) + d \in Int
        BY <2>1, SignedTyped
      <3> QED BY <3>1, <1>4, <1>t DEF IncDecShort
    <2>3. regs' \in [Reg -> Word]
      BY <2>2, <1>4 DEF IncDecShort, TypeOK
    <2>4. EFLAGS' \subseteq Flag
      BY <1>4, FlagsTyped, Zenon DEF IncDecShort
    <2> QED BY <2>3, <2>4, <2>5, <1>4, Zenon DEF IncDecShort, Runs, TypeOK
  <1>5. ASSUME NEW r \in Reg, NEW v \in Word, Cmpxchg(r, v)
        PROVE  TypeOK'
    <2> DEFINE a == regs["eax"]
               dest == regs[r]
    <2>1. Half \in Nat \ {0, 1} /\ a \in Word /\ dest \in Word /\ a \in Int /\ dest \in Int
      BY WidthTyped DEF TypeOK, Word, Reg
    <2>2. Signed(a, Half) - Signed(dest, Half) \in Int
      BY <2>1, SignedTyped
    <2>3. regs' \in [Reg -> Word]
      BY <2>1, <1>5, Zenon DEF Cmpxchg, TypeOK
    <2>4. EFLAGS' \subseteq Flag
      BY <1>5, FlagsTyped, Zenon DEF Cmpxchg, Flag
    <2>5. Tells(Signed(a, Half) - Signed(dest, Half), Half, a < dest)
      BY <1>5 DEF Cmpxchg
    <2>6. exact' \subseteq [s : Int, h : {Half, NarrowHalf}] /\ carry' \subseteq BOOLEAN
      <3>1. exact' \subseteq [s : Int, h : {Half, NarrowHalf}]
        BY <2>5, <2>1, <2>2, <1>t DEF Tells
      <3>2. carry' \subseteq BOOLEAN
        BY <2>5 DEF Tells
      <3> QED BY <3>1, <3>2
    <2> QED BY <2>3, <2>4, <2>6, <1>5, Zenon DEF Cmpxchg, Runs, TypeOK
  <1>w. /\ Half \in Nat \ {0, 1}
        /\ regs["eax"] \in Word /\ regs["edx"] \in Word
        /\ Word \subseteq Int
        /\ \A n \in Int : n % (2 * Half) \in Word
    <2>1. Half \in Nat \ {0, 1} /\ 2 * Half \in Nat \ {0}
      BY WidthTyped
    <2>2. ASSUME NEW n \in Int PROVE n % (2 * Half) \in Word
      BY <2>1, ModRange DEF Word
    <2> QED BY <2>1, <2>2 DEF TypeOK, Word, Reg
  <1>6. ASSUME NEW r \in Reg, NEW v \in Word, Imul(r, v)
        PROVE  TypeOK'
    <2>1. Signed(regs[r], Half) \in Int /\ Signed(v, Half) \in Int
      BY <1>w, SignedTyped, Zenon DEF TypeOK
    <2>2. Signed(regs[r], Half) * Signed(v, Half) \in Int
      BY <2>1
    <2>3. regs' \in [Reg -> Word]
      BY <2>2, <1>w, <1>6 DEF Imul, TypeOK
    <2>4. EFLAGS' \subseteq Flag
      BY <1>6, FlagsTyped, Zenon DEF Imul
    <2> QED BY <2>3, <2>4, <1>6, Zenon DEF Imul, Runs, TypeOK
  <1>7. ASSUME NEW kind \in Kind, NEW v \in Word, Mul(kind, v)
        PROVE  TypeOK'
    <2> DEFINE n == Meaning(regs["eax"], kind, Half) * Meaning(v, kind, Half)
               m == 2 * Half
               p == n % (4 * Half * Half)
    <2>1. m \in Nat \ {0} /\ 4 * Half * Half = m * m /\ m * m \in Nat \ {0}
      BY <1>w
    <2>2. n \in Int
      <3>1. Meaning(regs["eax"], kind, Half) \in Int /\ Meaning(v, kind, Half) \in Int
        BY <1>w, SignedTyped, Zenon DEF Meaning
      <3> QED BY <3>1
    <2>3. regs' = [regs EXCEPT !["eax"] = p % m, !["edx"] = p \div m]
      BY <1>7 DEF Mul
    <2> HIDE DEF n
    <2>4. p \in 0..(m * m - 1)
      BY <2>1, <2>2, ModRange, Zenon
    <2> HIDE DEF p
    <2>5. p \div m \in Word
      BY <2>1, <2>4, HighHalf DEF Word
    <2>6. p % m \in Word
      BY <2>1, <2>4, <1>w, SMTT(30)
    <2>7. regs' \in [Reg -> Word]
      BY <2>3, <2>5, <2>6, Zenon DEF TypeOK
    <2>8. product' \subseteq [kind : Kind, eax : Word, factor : Word]
      BY <1>7, <1>w DEF Mul
    <2>9. /\ exact' = {} /\ carry' = BOOLEAN /\ fault' = FALSE /\ EFLAGS' = EFLAGS
      BY <1>7, Zenon DEF Mul, Runs
    <2> QED BY <2>7, <2>8, <2>9, Zenon DEF TypeOK
  <1>8. ASSUME NEW kind \in Kind, NEW v \in Word, Div(kind, v)
        PROVE  TypeOK'
    <2> DEFINE dividend == Meaning(2 * Half * regs["edx"] + regs["eax"], kind, 2 * Half * Half)
               divisor == Meaning(v, kind, Half)
               q == Quotient(dividend, divisor)
               low == IF kind = "signed" THEN 0 - Half ELSE 0
               ok == v # 0 /\ q \in low..(low + 2 * Half - 1)
    <2>1. dividend \in Int /\ divisor \in Int
      <3>1. 2 * Half * regs["edx"] + regs["eax"] \in Int /\ 2 * Half * Half \in Nat
        <4>1. regs["edx"] \in Int /\ regs["eax"] \in Int /\ Half \in Nat
          BY <1>w, ZenonT(40)
        <4> QED BY <4>1
      <3> QED BY <3>1, <1>w, SignedTyped, Zenon DEF Meaning
    <2>2. /\ regs' = IF ok THEN [regs EXCEPT !["eax"] = q % (2 * Half),
                                !["edx"] = Remainder(dividend, divisor) % (2 * Half)] ELSE regs
          /\ fault' = ~ok
      BY <1>8 DEF Div
    <2>3. ok \in BOOLEAN /\ (ok => q \in Int)
      BY <1>w
    <2>4. ok => Remainder(dividend, divisor) \in Int
      <3> HIDE DEF dividend, divisor
      <3> QED BY <2>1, <2>3 DEF Remainder
    <2> HIDE DEF ok, q, dividend, divisor
    <2>5. regs' \in [Reg -> Word]
      BY <2>2, <2>3, <2>4, <1>w, Zenon DEF TypeOK
    <2> QED BY <2>2, <2>3, <2>5, <1>8 DEF Div, TypeOK
  <1>9. CASE UNCHANGED vars
    BY <1>9 DEF vars, TypeOK
  <1> QED BY <1>1, <1>2, <1>3, <1>4, <1>5, <1>6, <1>7, <1>8, <1>9 DEF Next, AluGroup

-----------------------------------------------------------------------------
(* Powers of two, and the arithmetic of shifting by several places.        *)

(* A set of naturals has a smallest member.                                *)
LEMMA LeastOf ==
    ASSUME NEW S \in SUBSET Nat, S # {}
    PROVE  \E n \in S : \A m \in S : n <= m
  <1>1. IsWellFoundedOn(OpToRel(<, Nat), Nat)
    BY NatLessThanWellFounded, Zenon
  <1>2. PICK n \in S : \A m \in S : ~(<<m, n>> \in OpToRel(<, Nat))
    BY <1>1, WFMin, Zenon
  <1>3. \A m \in S : ~(m < n)
    BY <1>2, Zenon DEF OpToRel
  <1> QED BY <1>3

(* The function whose last value Pow2 takes.                               *)
Doubles(f, n) == f = [i \in 0..n |-> IF i = 0 THEN 1 ELSE 2 * f[i - 1]]

(* There is one, by induction on its length ...                            *)
LEMMA DoublesExist ==
    ASSUME NEW n \in Nat
    PROVE  \E f : Doubles(f, n)
  <1> DEFINE Bad == {k \in Nat : ~\E f : Doubles(f, k)}
  <1> SUFFICES ASSUME Bad # {} PROVE FALSE
    OBVIOUS
  <1>1. PICK k \in Bad : \A j \in Bad : k <= j
    BY LeastOf, Zenon
  <1>2. \A j \in Nat : j < k => j \notin Bad
    BY <1>1
  <1>3. CASE k = 0
    <2> DEFINE g == [i \in 0..0 |-> 1]
    <2>1. g = [i \in 0..0 |-> IF i = 0 THEN 1 ELSE 2 * g[i - 1]]
      OBVIOUS
    <2> QED BY <1>1, <1>3, <2>1, Zenon DEF Doubles
  <1>4. CASE k # 0
    <2>1. PICK f : Doubles(f, k - 1)
      BY <1>1, <1>2, <1>4
    <2> DEFINE g == [i \in 0..k |-> IF i = k THEN 2 * f[k - 1] ELSE f[i]]
    <2>2. \A i \in 0..k : g[i] = IF i = 0 THEN 1 ELSE 2 * g[i - 1]
      <3> TAKE i \in 0..k
      <3>1. CASE i = k
        <4>1. k - 1 \in 0..k /\ k - 1 # k
          BY <1>1, <1>4
        <4> QED BY <3>1, <1>4, <4>1
      <3>2. CASE i # k
        <4>1. i \in 0..(k - 1)
          BY <1>1, <3>2
        <4>2. f[i] = IF i = 0 THEN 1 ELSE 2 * f[i - 1]
          BY <2>1, <4>1 DEF Doubles
        <4>3. i # 0 => i - 1 \in 0..k /\ i - 1 # k
          BY <4>1, <1>1
        <4> QED BY <3>2, <4>1, <4>2, <4>3
      <3> QED BY <3>1, <3>2
    <2>3. g = [i \in 0..k |-> IF i = 0 THEN 1 ELSE 2 * g[i - 1]]
      BY <2>2
    <2> QED BY <1>1, <2>3, Zenon DEF Doubles
  <1> QED BY <1>3, <1>4

(* ... and two of them agree as far as the shorter goes.                   *)
LEMMA DoublesAgree ==
    ASSUME NEW n \in Nat, NEW f, NEW g, Doubles(f, n), Doubles(g, n + 1)
    PROVE  f[n] = g[n]
  <1> DEFINE Bad == {k \in 0..n : f[k] # g[k]}
  <1> SUFFICES ASSUME Bad # {} PROVE FALSE
    OBVIOUS
  <1>1. PICK k \in Bad : \A j \in Bad : k <= j
    BY LeastOf, Bad \in SUBSET Nat, Zenon
  <1>2. f[k] = IF k = 0 THEN 1 ELSE 2 * f[k - 1]
    BY <1>1 DEF Doubles
  <1>3. g[k] = IF k = 0 THEN 1 ELSE 2 * g[k - 1]
    BY <1>1 DEF Doubles
  <1>4. k # 0 => k - 1 \in 0..n /\ ~(k <= k - 1)
    BY <1>1
  <1>5. k # 0 => f[k - 1] = g[k - 1]
    BY <1>1, <1>4
  <1> QED BY <1>1, <1>2, <1>3, <1>5

(* So Pow2 doubles with every step.                                        *)
LEMMA Pow2Unfold ==
    /\ Pow2(0) = 1
    /\ \A n \in Nat : Pow2(n + 1) = 2 * Pow2(n)
  <1> DEFINE F(n) == CHOOSE f : Doubles(f, n)
  <1>1. \A n \in Nat : Doubles(F(n), n) /\ Pow2(n) = F(n)[n]
    <2> TAKE n \in Nat
    <2>1. \E f : Doubles(f, n)
      BY DoublesExist
    <2>2. Pow2(n) = F(n)[n]
      BY Zenon DEF Pow2, Doubles
    <2> QED BY <2>1, <2>2, Zenon
  <1> HIDE DEF F
  <1>2. Pow2(0) = 1
    BY <1>1 DEF Doubles
  <1>3. ASSUME NEW n \in Nat PROVE Pow2(n + 1) = 2 * Pow2(n)
    <2>1. n + 1 \in Nat /\ n + 1 # 0 /\ (n + 1) - 1 = n /\ n + 1 \in 0..(n + 1)
      OBVIOUS
    <2>2. Doubles(F(n + 1), n + 1) /\ Pow2(n + 1) = F(n + 1)[n + 1]
      BY <1>1, <2>1
    <2>3. F(n + 1)[n + 1] = 2 * F(n + 1)[n]
      BY <2>1, <2>2 DEF Doubles
    <2>4. Doubles(F(n), n) /\ Pow2(n) = F(n)[n]
      BY <1>1
    <2>5. F(n)[n] = F(n + 1)[n]
      BY <2>2, <2>4, DoublesAgree
    <2> QED BY <2>2, <2>3, <2>4, <2>5
  <1> QED BY <1>2, <1>3

(* It is a positive number.                                                *)
LEMMA Pow2Positive == \A n \in Nat : Pow2(n) \in Nat \ {0}
  <1> DEFINE Bad == {k \in Nat : Pow2(k) \notin Nat \ {0}}
  <1> SUFFICES ASSUME Bad # {} PROVE FALSE
    OBVIOUS
  <1>1. PICK k \in Bad : \A j \in Bad : k <= j
    BY LeastOf, Bad \in SUBSET Nat, Zenon
  <1>2. k # 0
    BY <1>1, Pow2Unfold
  <1>3. k - 1 \in Nat /\ ~(k <= k - 1) /\ k = (k - 1) + 1
    BY <1>1, <1>2
  <1>4. Pow2(k - 1) \in Nat \ {0}
    BY <1>1, <1>3
  <1>5. Pow2(k) = 2 * Pow2(k - 1)
    BY <1>3, Pow2Unfold
  <1> QED BY <1>1, <1>4, <1>5

(* A sum of exponents.                                                     *)
LEMMA Pow2Sum == \A m, n \in Nat : Pow2(m + n) = Pow2(m) * Pow2(n)
  <1> SUFFICES ASSUME NEW m \in Nat, NEW n \in Nat PROVE Pow2(m + n) = Pow2(m) * Pow2(n)
    OBVIOUS
  <1> DEFINE Bad == {k \in Nat : Pow2(m + k) # Pow2(m) * Pow2(k)}
  <1> SUFFICES ASSUME Bad # {} PROVE FALSE
    OBVIOUS
  <1>1. PICK k \in Bad : \A j \in Bad : k <= j
    BY LeastOf, Bad \in SUBSET Nat, Zenon
  <1>2. k # 0
    <2>1. Pow2(m) \in Nat
      BY Pow2Positive
    <2> QED BY <1>1, <2>1, Pow2Unfold
  <1>3. k - 1 \in Nat /\ ~(k <= k - 1) /\ k = (k - 1) + 1 /\ m + k = (m + (k - 1)) + 1 /\ m + (k - 1) \in Nat
    BY <1>1, <1>2
  <1>4. Pow2(m + (k - 1)) = Pow2(m) * Pow2(k - 1)
    BY <1>1, <1>3
  <1>5. Pow2(k) = 2 * Pow2(k - 1) /\ Pow2(m + k) = 2 * Pow2(m + (k - 1))
    BY <1>3, Pow2Unfold
  <1>6. \A a, b \in Nat : a * (2 * b) = 2 * (a * b)
    OBVIOUS
  <1>7. Pow2(m) \in Nat /\ Pow2(k - 1) \in Nat
    BY <1>3, Pow2Positive
  <1>8. Pow2(m + k) = Pow2(m) * Pow2(k)
    BY <1>4, <1>5, <1>6, <1>7
  <1> QED BY <1>1, <1>8
-----------------------------------------------------------------------------
(* Quotient and remainder are determined by the division equation.         *)
LEMMA DivIs ==
    ASSUME NEW m \in Nat \ {0}, NEW q \in Int, NEW r \in 0..(m - 1), NEW v, v = m * q + r
    PROVE  v \div m = q /\ v % m = r
  <1> DEFINE d == v \div m
             e == v % m
  <1>1. v \in Int
    OBVIOUS
  <1>2. d \in Int /\ e \in 0..(m - 1) /\ v = m * d + e
    BY <1>1
  <1>3. m * d + e = m * q + r
    BY <1>2
  <1> HIDE DEF d, e
  <1>4. \A k \in Nat : k > 0 => m * k >= m
    OBVIOUS
  <1>5. m * d \in Int /\ m * q \in Int /\ m * (d - q) = m * d - m * q /\ m * (q - d) = m * q - m * d
    BY <1>2
  <1>6. ~(d < q)
    <2> SUFFICES ASSUME d < q PROVE FALSE
      OBVIOUS
    <2>1. q - d \in Nat /\ q - d > 0
      BY <1>2
    <2>2. m * (q - d) >= m
      BY <1>4, <2>1
    <2> QED BY <1>2, <1>3, <1>5, <2>2
  <1>7. ~(q < d)
    <2> SUFFICES ASSUME q < d PROVE FALSE
      OBVIOUS
    <2>1. d - q \in Nat /\ d - q > 0
      BY <1>2
    <2>2. m * (d - q) >= m
      BY <1>4, <2>1
    <2> QED BY <1>2, <1>3, <1>5, <2>2
  <1>8. d = q
    BY <1>2, <1>6, <1>7
  <1>9. e = r
    BY <1>2, <1>3, <1>5, <1>8
  <1> QED BY <1>8, <1>9 DEF d, e

(* The division equation.                                                  *)
LEMMA DivParts ==
    ASSUME NEW m \in Nat \ {0}, NEW x \in Int
    PROVE  x \div m \in Int /\ x % m \in 0..(m - 1) /\ x = m * (x \div m) + (x % m)
  OBVIOUS

(* A number divided by two.                                                *)
LEMMA HalfIs ==
    ASSUME NEW q \in Int, NEW u \in 0..1, NEW r, r = 2 * q + u
    PROVE  r \div 2 = q /\ r % 2 = u
  BY DivIs, 2 \in Nat \ {0}

(* The quotients next to zero.                                             *)
LEMMA QuotientNear ==
    ASSUME NEW m \in Nat \ {0}
    PROVE  /\ \A v \in m..(2 * m - 1) : v \div m = 1
           /\ \A v \in (0 - m)..(0 - 1) : v \div m = 0 - 1
  OBVIOUS

(* The products the lemmas below rearrange.                                *)
LEMMA Products ==
    ASSUME NEW a \in Nat \ {0}, NEW c \in Nat \ {0}, NEW t \in 0..(c - 1)
    PROVE  a * c \in Nat \ {0} /\ a * t \in 0..(a * c - a) /\ a * c >= a /\ c * a = a * c
  <1>1. a * c \in Nat /\ a * t \in Nat /\ c * a = a * c
    OBVIOUS
  <1>2. a * c = a * t + a * (c - t) /\ a * (c - t) >= a
    <2>1. \A k \in Nat : k > 0 => a * k >= a
      OBVIOUS
    <2>2. c - t \in Nat /\ c - t > 0
      OBVIOUS
    <2>3. a * (c - t) = a * c - a * t
      OBVIOUS
    <2> QED BY <1>1, <2>1, <2>2, <2>3
  <1> QED BY <1>1, <1>2

(* Halving a quotient, and the bit that the halving drops.                 *)
LEMMA Halves ==
    ASSUME NEW a \in Nat \ {0}, NEW x \in Int
    PROVE  /\ x \div (2 * a) = (x \div a) \div 2
           /\ x % (2 * a) = a * ((x \div a) % 2) + (x % a)
  <1> DEFINE q == x \div a
             t == x % a
             p == q \div 2
             u == q % 2
  <1>1. q \in Int /\ t \in 0..(a - 1) /\ x = a * q + t
    BY DivParts
  <1>2. p \in Int /\ u \in 0..1 /\ q = 2 * p + u
    BY <1>1
  <1> HIDE DEF q, t, p, u
  <1>3. x = (2 * a) * p + (a * u + t)
    BY <1>1, <1>2
  <1>4. a * u + t \in 0..(2 * a - 1)
    BY <1>1, <1>2
  <1>5. x \div (2 * a) = p /\ x % (2 * a) = a * u + t
    <2>1. 2 * a \in Nat \ {0}
      OBVIOUS
    <2> DEFINE M == 2 * a
               R == a * u + t
    <2>2. M \in Nat \ {0} /\ R \in 0..(M - 1) /\ x = M * p + R
      BY <1>3, <1>4, <2>1
    <2> HIDE DEF M, R
    <2>3. x \div M = p /\ x % M = R
      BY <1>2, <2>2, DivIs
    <2> QED BY <2>3 DEF M, R
  <1> QED BY <1>5 DEF p, u, q, t

(* A common factor of a number and of what it is divided by.               *)
LEMMA ScaleMod ==
    ASSUME NEW a \in Nat \ {0}, NEW c \in Nat \ {0}, NEW x \in Int
    PROVE  (x * a) % (a * c) = a * (x % c) /\ (x * a) \div (a * c) = x \div c
  <1> DEFINE q == x \div c
             t == x % c
  <1>1. q \in Int /\ t \in 0..(c - 1) /\ x = c * q + t
    BY DivParts
  <1> HIDE DEF q, t
  <1>2. a * c \in Nat \ {0} /\ a * t \in 0..(a * c - a)
    BY <1>1, Products
  <1>3. x * a = (a * c) * q + a * t
    BY <1>1
  <1>4. a * t \in 0..(a * c - 1)
    BY <1>2
  <1>5. (x * a) % (a * c) = a * t /\ (x * a) \div (a * c) = q
    <2> DEFINE M == a * c
               R == a * t
               V == (x * a)
    <2>2. M \in Nat \ {0} /\ R \in 0..(M - 1) /\ V = M * q + R /\ q \in Int
      BY <1>1, <1>2, <1>3, <1>4
    <2> HIDE DEF M, R, V
    <2>3. V \div M = q /\ V % M = R
      BY <2>2, DivIs
    <2> QED BY <2>3 DEF M, R, V
  <1> QED BY <1>5 DEF q, t

(* One more place to the left: the result, and the bit that falls out.     *)
LEMMA LeftOnce ==
    ASSUME NEW a \in Nat \ {0}, NEW c \in Nat \ {0}, NEW v \in Nat
    PROVE  /\ (((v * a) % (a * (2 * c))) * 2) % (a * (2 * c)) = (v * (2 * a)) % (a * (2 * c))
           /\ (((v * a) % (a * (2 * c))) \div (a * c)) % 2 = (v \div c) % 2
  <1> DEFINE r == (v * a) % (a * (2 * c))
             t == v % (2 * c)
             u == (v \div c) % 2
             w == v % c
  <1>0. v \in Int /\ v \div c \in Int
    BY DivParts
  <1>1. t = c * u + w /\ u \in 0..1 /\ w \in 0..(c - 1)
    <2>1. t = c * u + w
      BY <1>0, Halves, Zenon
    <2> QED BY <1>0, <2>1, DivParts
  <1>2. 2 * c \in Nat \ {0} /\ 2 * a \in Nat \ {0} /\ a * c \in Nat \ {0} /\ a * (2 * c) = (2 * a) * c
        /\ a * (2 * c) = 2 * (a * c)
    OBVIOUS
  <1>3. r = a * t
    BY <1>0, <1>2, ScaleMod, Zenon
  <1>4. (v * (2 * a)) % ((2 * a) * c) = (2 * a) * w
    BY <1>0, <1>2, ScaleMod, Zenon
  <1> HIDE DEF r, t, u, w
  <1>5. r = (a * c) * u + a * w
    BY <1>1, <1>3
  <1>6. a * w \in 0..(a * c - a)
    BY <1>1, Products
  <1>7. r \div (a * c) = u
    <2>1. a * w \in 0..(a * c - 1) /\ u \in Int
      BY <1>1, <1>6
    <2> DEFINE M == a * c
               R == a * w
    <2>2. M \in Nat \ {0} /\ R \in 0..(M - 1) /\ r = M * u + R /\ u \in Int
      BY <1>2, <1>5, <2>1
    <2> HIDE DEF M, R
    <2>3. r \div M = u
      BY <2>2, DivIs
    <2> QED BY <2>3 DEF M, R
  <1>8. r * 2 = (a * (2 * c)) * u + (2 * a) * w
    BY <1>1, <1>5
  <1>9. (2 * a) * w \in 0..(a * (2 * c) - 1)
    BY <1>1, <1>6
  <1>10. (r * 2) % (a * (2 * c)) = (2 * a) * w
    <2>1. a * (2 * c) \in Nat \ {0} /\ u \in Int
      BY <1>1
    <2> DEFINE M == a * (2 * c)
               R == (2 * a) * w
               V == (r * 2)
    <2>2. M \in Nat \ {0} /\ R \in 0..(M - 1) /\ V = M * u + R /\ u \in Int
      BY <1>8, <1>9, <2>1
    <2> HIDE DEF M, R, V
    <2>3. V % M = R
      BY <2>2, DivIs
    <2> QED BY <2>3 DEF M, R, V
  <1>11. u % 2 = u
    BY <1>1
  <1> QED BY <1>2, <1>4, <1>7, <1>10, <1>11 DEF r, u

(* One more place of a rotation to the left ...                            *)
LEMMA RotateLeftOnce ==
    ASSUME NEW a \in Nat \ {0}, NEW c \in Nat \ {0}, NEW v \in 0..(a * (2 * c) - 1)
    PROVE  /\ (a * (v % (2 * c)) + (v \div (2 * c))) \in 0..(a * (2 * c) - 1)
           /\ (((a * (v % (2 * c)) + (v \div (2 * c))) * 2) % (a * (2 * c))) + ((a * (v % (2 * c)) + (v \div (2 * c))) \div (a * c))
              = (2 * a) * (v % c) + (v \div c)
  <1> DEFINE r == (a * (v % (2 * c)) + (v \div (2 * c)))
             q == v \div (2 * c)
             t == v % (2 * c)
             u == (v \div c) % 2
             w == v % c
  <1>0. v \in Int /\ v \div c \in Int
    BY DivParts
  <1>1. t = c * u + w /\ u \in 0..1 /\ w \in 0..(c - 1)
    <2>1. t = c * u + w
      BY <1>0, Halves, Zenon
    <2> QED BY <1>0, <2>1, DivParts
  <1>2. 2 * c \in Nat \ {0} /\ a * c \in Nat \ {0} /\ a * (2 * c) = (2 * a) * c /\ a * (2 * c) = 2 * (a * c)
        /\ a * (2 * c) \in Nat \ {0}
    OBVIOUS
  <1>3. v \div c = 2 * q + u
    <2> DEFINE d == v \div c
    <2>1. q = d \div 2
      BY <1>0, Halves, Zenon
    <2>2. d \in Int
      BY <1>0
    <2> HIDE DEF d, q
    <2>3. d = 2 * q + (d % 2)
      BY <2>1, <2>2
    <2> QED BY <2>3 DEF d
  <1>4. q \in Int /\ t \in 0..(2 * c - 1) /\ v = (2 * c) * q + t
    BY <1>0, <1>2, DivParts, ZenonT(40)
  <1>5. r = a * t + q
    OBVIOUS
  <1> HIDE DEF r, q, t, u, w
  <1>6. q \in 0..(a - 1)
    <2>1. ~(q < 0)
      <3> SUFFICES ASSUME q < 0 PROVE FALSE
        OBVIOUS
      <3>1. (2 * c) * (0 - q) >= 2 * c
        BY <1>4
      <3> QED BY <3>1, <1>4
    <2>2. ~(q >= a)
      <3> SUFFICES ASSUME q >= a PROVE FALSE
        OBVIOUS
      <3>1. q - a \in Nat /\ (2 * c) * (q - a) \in Nat
        BY <1>4
      <3>2. (2 * c) * q = (2 * c) * (q - a) + a * (2 * c)
        BY <1>4
      <3> QED BY <3>1, <3>2, <1>4
    <2> QED BY <2>1, <2>2, <1>4
  <1>7. r = (a * c) * u + (a * w + q)
    BY <1>1, <1>4, <1>5
  <1>8. a * w \in 0..(a * c - a)
    BY <1>1, Products
  <1>9. a * w + q \in 0..(a * c - 1)
    BY <1>6, <1>8, <1>2
  <1>10. r \div (a * c) = u
    <2>1. u \in Int
      BY <1>1
    <2> DEFINE M == a * c
               R == a * w + q
    <2>2. M \in Nat \ {0} /\ R \in 0..(M - 1) /\ r = M * u + R /\ u \in Int
      BY <1>2, <1>7, <1>9, <2>1
    <2> HIDE DEF M, R
    <2>3. r \div M = u
      BY <2>2, DivIs
    <2> QED BY <2>3 DEF M, R
  <1>11. r * 2 = (a * (2 * c)) * u + 2 * (a * w + q)
    BY <1>1, <1>6, <1>7
  <1>12. 2 * (a * w + q) \in 0..(a * (2 * c) - 1)
    BY <1>2, <1>9
  <1>13. (r * 2) % (a * (2 * c)) = 2 * (a * w + q)
    <2>1. u \in Int
      BY <1>1
    <2> DEFINE M == a * (2 * c)
               R == 2 * (a * w + q)
               V == (r * 2)
    <2>2. M \in Nat \ {0} /\ R \in 0..(M - 1) /\ V = M * u + R /\ u \in Int
      BY <1>2, <1>11, <1>12, <2>1
    <2> HIDE DEF M, R, V
    <2>3. V % M = R
      BY <2>2, DivIs
    <2> QED BY <2>3 DEF M, R, V
  <1>14. (2 * a) * w = 2 * (a * w) /\ a * w \in Int
    BY <1>1
  <1>15. r \in 0..(a * (2 * c) - 1)
    <2>1. (a * c) * u \in 0..(a * c)
      BY <1>1, <1>2
    <2> QED BY <2>1, <1>7, <1>9, <1>2
  <1>16. ((r * 2) % (a * (2 * c))) + (r \div (a * c)) = (2 * a) * w + (v \div c)
    BY <1>1, <1>3, <1>6, <1>8, <1>10, <1>13, <1>14
  <1> QED BY <1>15, <1>16 DEF r, w

(* ... and to the right.                                                   *)
LEMMA RotateRightOnce ==
    ASSUME NEW a \in Nat \ {0}, NEW c \in Nat \ {0}, NEW v \in 0..(a * (2 * c) - 1),
           NEW r, r = (v \div a) + (2 * c) * (v % a)
    PROVE  /\ r \in 0..(a * (2 * c) - 1)
           /\ (r \div 2) + (a * c) * (r % 2) = (v \div (2 * a)) + c * (v % (2 * a))
  <1> DEFINE q == v \div a
             t == v % a
             p == q \div 2
             u == q % 2
  <1>0. v \in Int
    OBVIOUS
  <1>1. q \in Int /\ t \in 0..(a - 1) /\ v = a * q + t
    BY <1>0, DivParts, ZenonT(40)
  <1>2. p \in Int /\ u \in 0..1 /\ q = 2 * p + u
    <2> HIDE DEF q
    <2> QED BY <1>1 DEF p, u
  <1>3. v \div (2 * a) = p /\ v % (2 * a) = a * u + t
    BY <1>0, Halves, ZenonT(40)
  <1>4. r = q + (2 * c) * t
    OBVIOUS
  <1> HIDE DEF q, t, p, u
  <1>5. q \in 0..(2 * c - 1)
    <2>1. ~(q < 0)
      <3> SUFFICES ASSUME q < 0 PROVE FALSE
        OBVIOUS
      <3>1. a * (0 - q) >= a
        BY <1>1
      <3> QED BY <3>1, <1>1
    <2>2. ~(q >= 2 * c)
      <3> SUFFICES ASSUME q >= 2 * c PROVE FALSE
        OBVIOUS
      <3>1. q - 2 * c \in Nat /\ a * (q - 2 * c) \in Nat
        BY <1>1
      <3>2. a * q = a * (q - 2 * c) + a * (2 * c)
        BY <1>1
      <3> QED BY <3>1, <3>2, <1>1
    <2> QED BY <2>1, <2>2, <1>1
  <1>6. r = 2 * (p + c * t) + u /\ p + c * t \in Int
    BY <1>1, <1>2, <1>4
  <1>7. r \div 2 = p + c * t /\ r % 2 = u
    <2> DEFINE Q == p + c * t
    <2>1. Q \in Int /\ r = 2 * Q + u
      BY <1>6
    <2> HIDE DEF Q
    <2>2. r \div 2 = Q /\ r % 2 = u
      BY <1>2, <2>1, HalfIs, Zenon
    <2> QED BY <2>2 DEF Q
  <1>8. c * (a * u + t) = (a * c) * u + c * t
    BY <1>1, <1>2
  <1>9. (2 * c) * t \in 0..((2 * c) * a - 2 * c)
    BY <1>1, Products, 2 * c \in Nat \ {0}
  <1>10. r \in 0..(a * (2 * c) - 1)
    BY <1>4, <1>5, <1>9, (2 * c) * a = a * (2 * c)
  <1>11. c * t \in Int /\ (a * c) * u \in Int
    BY <1>1, <1>2
  <1>12. (r \div 2) + (a * c) * (r % 2) = (p + c * t) + (a * c) * u
    BY <1>7
  <1>13. (v \div (2 * a)) + c * (v % (2 * a)) = p + ((a * c) * u + c * t)
    BY <1>3, <1>8, ZenonT(40)
  <1> QED BY <1>2, <1>10, <1>11, <1>12, <1>13

-----------------------------------------------------------------------------
(* The powers a shift by k and the next one involve.                       *)
LEMMA Places ==
    ASSUME NEW b \in Nat \ {0, 1}, NEW k \in 0..(b - 1)
    PROVE  /\ Pow2(k) \in Nat \ {0} /\ Pow2(b - (k + 1)) \in Nat \ {0} /\ Pow2(b) \in Nat \ {0}
           /\ Pow2(b) = Pow2(k) * (2 * Pow2(b - (k + 1)))
           /\ Pow2(b) = 2 * Pow2(b - 1)
           /\ Pow2(b - 1) = Pow2(k) * Pow2(b - (k + 1))
           /\ Pow2(b - k) = 2 * Pow2(b - (k + 1))
           /\ Pow2(k + 1) = 2 * Pow2(k)
           /\ Pow2(1) = 2 /\ Pow2(0) = 1
  <1>1. k \in Nat /\ b \in Nat /\ b - 1 \in Nat /\ b - (k + 1) \in Nat /\ b - k \in Nat
        /\ b - k = (b - (k + 1)) + 1 /\ b - 1 = k + (b - (k + 1)) /\ b = k + (b - k) /\ 1 = 0 + 1 /\ b = (b - 1) + 1
    OBVIOUS
  <1>2. Pow2(b - k) = 2 * Pow2(b - (k + 1)) /\ Pow2(k + 1) = 2 * Pow2(k) /\ Pow2(0) = 1 /\ Pow2(b) = 2 * Pow2(b - 1)
    BY <1>1, Pow2Unfold
  <1>3. Pow2(1) = 2
    BY <1>1, Pow2Unfold
  <1>4. Pow2(b - 1) = Pow2(k) * Pow2(b - (k + 1)) /\ Pow2(b) = Pow2(k) * Pow2(b - k)
    BY <1>1, Pow2Sum
  <1> QED BY <1>1, <1>2, <1>3, <1>4, Pow2Positive

(* A shift to the left by k places, then by one.                           *)
LEMMA SHLAgain ==
    ASSUME NEW b \in Nat \ {0, 1}, NEW k \in Nat \ {0}, NEW v \in 0..(Pow2(b) - 1)
    PROVE  /\ SHL(v, k, b).r \in 0..(Pow2(b) - 1)
           /\ SHL(SHL(v, k, b).r, 1, b).r = SHL(v, k + 1, b).r
           /\ k + 1 < b => SHL(SHL(v, k, b).r, 1, b).cf = SHL(v, k + 1, b).cf
  <1> DEFINE M == Pow2(b)
             x == SHL(v, k, b).r
  <1>0. b - 1 \in Nat /\ 1 \in 0..(b - 1) /\ 1 < b /\ 0 \in 0..(b - 1)
    OBVIOUS
  <1>1. M \in Nat \ {0} /\ Pow2(1) = 2 /\ v \in Nat
    BY <1>0, Places
  <1>2. CASE k >= b
    <2>1. x = 0
      BY <1>2, SMTT(20), SMTT(30), Zenon DEF SHL
    <2>2. SHL(x, 1, b).r = (0 * 2) % M
      BY <1>0, <1>1, <2>1 DEF SHL, Left
    <2>3. SHL(v, k + 1, b).r = 0 /\ ~(k + 1 < b)
      BY <1>2 DEF SHL
    <2>4. (0 * 2) % M = 0 /\ 0 \in 0..(M - 1)
      BY <1>1
    <2> QED BY <2>1, <2>2, <2>3, <2>4
  <1>3. CASE k < b
    <2> DEFINE a == Pow2(k)
               c == Pow2(b - (k + 1))
    <2>0. k \in 0..(b - 1)
      BY <1>3
    <2>1. a \in Nat \ {0} /\ c \in Nat \ {0} /\ M = a * (2 * c) /\ Pow2(b - 1) = a * c /\ Pow2(k + 1) = 2 * a
      BY <2>0, Places, ZenonT(40)
    <2>2. x = (v * a) % M
      BY <1>3, SMTT(20), SMTT(30), Zenon DEF SHL, Left
    <2>3. SHL(x, 1, b).r = (x * 2) % M /\ SHL(x, 1, b).cf = ((x \div (a * c)) % 2 = 1)
      BY <1>0, <1>1, <2>1, SMTT(20), SMTT(30), Zenon DEF SHL, Left, Bit
    <2>4. k + 1 < b => SHL(v, k + 1, b).r = (v * (2 * a)) % M /\ SHL(v, k + 1, b).cf = ((v \div c) % 2 = 1)
      BY <2>1 DEF SHL, Left, Bit
    <2>5. ~(k + 1 < b) => SHL(v, k + 1, b).r = 0 /\ b - (k + 1) = 0
      BY <1>3 DEF SHL
    <2> HIDE DEF a, c, M, x
    <2>6. (x * 2) % M = (v * (2 * a)) % M /\ (x \div (a * c)) % 2 = (v \div c) % 2
      <3>1. x = (v * a) % (a * (2 * c))
        BY <2>1, <2>2
      <3>2. (((v * a) % (a * (2 * c))) * 2) % (a * (2 * c)) = (v * (2 * a)) % (a * (2 * c))
            /\ (((v * a) % (a * (2 * c))) \div (a * c)) % 2 = (v \div c) % 2
        <4>1. a \in Nat \ {0} /\ c \in Nat \ {0} /\ v \in Nat
          BY <1>1, <2>1
        <4> QED BY <4>1, LeftOnce, ZenonT(60)
      <3>3. M = a * (2 * c)
        BY <2>1
      <3> QED BY <3>1, <3>2, <3>3, Zenon
    <2>7. ~(k + 1 < b) => (v * (2 * a)) % M = 0
      <3> SUFFICES ASSUME ~(k + 1 < b) PROVE (v * (2 * a)) % M = 0
        OBVIOUS
      <3>1. c = 1
        BY <2>5, Pow2Unfold DEF c
      <3>2. M = 2 * a
        BY <2>1, <3>1
      <3> DEFINE V == v * (2 * a)
      <3>3. V = M * v + 0 /\ v \in Int /\ 0 \in 0..(M - 1)
        BY <1>1, <2>1, <3>2
      <3> HIDE DEF V
      <3>4. V % M = 0
        <4>1. M \in Nat \ {0} /\ M * v \in Int
          BY <1>1, <2>1, <3>2
        <4> HIDE DEF M
        <4> QED BY <3>3, <4>1, DivIs, ZenonT(60)
      <3> QED BY <3>4 DEF V
    <2>8. x \in 0..(M - 1)
      BY <1>1, <2>1, <2>2, DivParts, v * a \in Int, ZenonT(40)
    <2> QED BY <2>3, <2>4, <2>5, <2>6, <2>7, <2>8 DEF x, M
  <1> QED BY <1>2, <1>3

(* A shift to the right by k places, then by one.                          *)
LEMMA SHRAgain ==
    ASSUME NEW b \in Nat \ {0, 1}, NEW k \in Nat \ {0}, NEW v \in 0..(Pow2(b) - 1)
    PROVE  /\ SHR(v, k, b).r \in 0..(Pow2(b) - 1)
           /\ SHR(SHR(v, k, b).r, 1, b).r = SHR(v, k + 1, b).r
           /\ k + 1 < b => SHR(SHR(v, k, b).r, 1, b).cf = SHR(v, k + 1, b).cf
  <1> DEFINE M == Pow2(b)
             x == SHR(v, k, b).r
  <1>0. b - 1 \in Nat /\ 1 \in 0..(b - 1) /\ 1 < b /\ 0 \in 0..(b - 1)
    OBVIOUS
  <1>1. M \in Nat \ {0} /\ Pow2(1) = 2 /\ Pow2(0) = 1 /\ v \in Nat
    BY <1>0, Places
  <1>2. CASE k >= b
    <2>1. x = 0
      BY <1>2 DEF SHR
    <2>2. SHR(x, 1, b).r = 0 \div 2
      BY <1>0, <1>1, <2>1 DEF SHR, Right
    <2>3. SHR(v, k + 1, b).r = 0 /\ ~(k + 1 < b)
      BY <1>2 DEF SHR
    <2>4. 0 \div 2 = 0 /\ 0 \in 0..(M - 1)
      BY <1>1
    <2> QED BY <2>1, <2>2, <2>3, <2>4
  <1>3. CASE k < b
    <2> DEFINE a == Pow2(k)
    <2>0. k \in 0..(b - 1)
      BY <1>3
    <2>1. a \in Nat \ {0} /\ Pow2(k + 1) = 2 * a
      BY <2>0, Places, ZenonT(40)
    <2>2. x = v \div a
      BY <1>3, SMTT(20), SMTT(30), Zenon DEF SHR, Right
    <2>3. SHR(x, 1, b).r = x \div 2 /\ SHR(x, 1, b).cf = ((x \div 1) % 2 = 1)
      BY <1>0, <1>1, <2>1 DEF SHR, Right, Bit
    <2>4. k + 1 < b => SHR(v, k + 1, b).r = v \div (2 * a) /\ SHR(v, k + 1, b).cf = ((v \div a) % 2 = 1)
      BY <2>1, (k + 1) - 1 = k DEF SHR, Right, Bit
    <2>5. ~(k + 1 < b) => SHR(v, k + 1, b).r = 0 /\ M = 2 * a
      <3>1. ~(k + 1 < b) => b = k + 1
        BY <1>3
      <3> QED BY <2>1, <3>1 DEF SHR
    <2> HIDE DEF a, M, x
    <2>6. x \div 2 = v \div (2 * a)
      <3>1. v \in Int
        BY <1>1
      <3> QED BY <2>1, <2>2, <3>1, Halves, Zenon
    <2>7. ~(k + 1 < b) => v \div (2 * a) = 0
      BY <1>1, <2>1, <2>5 DEF M
    <2>8. x \in 0..(M - 1) /\ x \div 1 = x
      <3>1. v \in 0..(M - 1)
        BY DEF M
      <3>2. v \div a \in Nat /\ v \div a <= v
        BY <1>1, <2>1
      <3> QED BY <1>1, <2>2, <3>1, <3>2
    <2> QED BY <2>2, <2>3, <2>4, <2>5, <2>6, <2>7, <2>8 DEF x, M
  <1> QED BY <1>2, <1>3

(* A quotient by a power lies where the number does.                       *)
LEMMA QuotientBound ==
    ASSUME NEW a \in Nat \ {0}, NEW h \in Nat \ {0}, NEW s \in (0 - h)..(h - 1)
    PROVE  /\ s \div a \in (0 - h)..(h - 1)
           /\ 2 * h <= a => s \div a = IF s < 0 THEN 0 - 1 ELSE 0
  <1> DEFINE q == s \div a
             t == s % a
  <1>1. q \in Int /\ t \in 0..(a - 1) /\ s = a * q + t
    BY DivParts
  <1> HIDE DEF q, t
  <1>2. CASE s >= 0
    <2>1. q >= 0
      <3> SUFFICES ASSUME q < 0 PROVE FALSE
        BY <1>1
      <3>1. a * (0 - q) >= a
        BY <1>1
      <3> QED BY <3>1, <1>1, <1>2
    <2>2. a * q >= q
      BY <1>1, <2>1
    <2>3. q <= s
      BY <1>1, <2>2
    <2>4. 2 * h <= a => q = 0
      <3> SUFFICES ASSUME 2 * h <= a, q >= 1 PROVE FALSE
        BY <1>1, <2>1
      <3>1. a * q >= a
        BY <1>1
      <3> QED BY <3>1, <1>1
    <2> QED BY <1>1, <1>2, <2>1, <2>3, <2>4 DEF q
  <1>3. CASE s < 0
    <2>1. q < 0
      <3> SUFFICES ASSUME q >= 0 PROVE FALSE
        BY <1>1
      <3>1. a * q >= 0
        BY <1>1
      <3> QED BY <3>1, <1>1, <1>3
    <2>2. q >= s
      <3> SUFFICES ASSUME q <= s - 1 PROVE FALSE
        BY <1>1
      <3> DEFINE d == 0 - q
      <3>1. d \in Nat \ {0} /\ a * q = 0 - a * d /\ d >= 0 - s + 1
        BY <1>1, <2>1
      <3> HIDE DEF d
      <3>2. a * d = d + (a - 1) * d /\ (a - 1) * d >= a - 1 /\ a * d \in Int /\ (a - 1) * d \in Int
        BY <3>1
      <3> QED BY <1>1, <3>1, <3>2
    <2>3. 2 * h <= a => q = 0 - 1
      <3> SUFFICES ASSUME 2 * h <= a, q <= 0 - 2 PROVE FALSE
        BY <1>1, <2>1
      <3>1. a * (0 - q) >= 2 * a
        BY <1>1
      <3> QED BY <3>1, <1>1
    <2> QED BY <1>1, <1>3, <2>1, <2>2, <2>3 DEF q
  <1> QED BY <1>2, <1>3

(* An arithmetic shift by k places, then by one.                           *)
LEMMA SARAgain ==
    ASSUME NEW b \in Nat \ {0, 1}, NEW k \in Nat \ {0}, NEW v \in 0..(Pow2(b) - 1)
    PROVE  /\ SAR(v, k, b).r \in 0..(Pow2(b) - 1)
           /\ SAR(SAR(v, k, b).r, 1, b).r = SAR(v, k + 1, b).r
           /\ SAR(SAR(v, k, b).r, 1, b).cf = SAR(v, k + 1, b).cf
  <1> DEFINE h == Pow2(b - 1)
             s == Signed(v, h)
             a == Pow2(k)
             q == s \div a
             x == SAR(v, k, b).r
  <1>0. b - 1 \in Nat /\ 0 \in 0..(b - 1) /\ 1 \in 0..(b - 1) /\ k \in Nat /\ k + 1 \in Nat /\ 1 - 1 = 0 /\ 1 < b
    OBVIOUS
  <1>1. h \in Nat \ {0} /\ Pow2(b) = 2 * h /\ Pow2(1) = 2 /\ Pow2(0) = 1 /\ a \in Nat \ {0} /\ Pow2(k + 1) = 2 * a
    BY <1>0, Places, Pow2Positive, Pow2Unfold, ZenonT(40)
  <1>2. v \in 0..(2 * h - 1)
    BY <1>1
  <1>3. x = q % (2 * h)
    BY <1>1, SMTT(20), SMTT(30), Zenon DEF SAR, SignedRight
  <1>4. SAR(x, 1, b).r = (Signed(x, h) \div 2) % (2 * h) /\ SAR(x, 1, b).cf = ((x \div 1) % 2 = 1)
    BY <1>0, <1>1 DEF SAR, SignedRight, Bit
  <1>5. SAR(v, k + 1, b).r = (s \div (2 * a)) % (2 * h)
    BY <1>1 DEF SAR, SignedRight
  <1>6. SAR(v, k + 1, b).cf = ((v \div (IF k + 1 < b THEN a ELSE h)) % 2 = 1)
    BY <1>0, (k + 1) - 1 = k DEF SAR, Bit
  <1>7. s \in (0 - h)..(h - 1) /\ (v < h => s = v) /\ (v >= h => s = v - 2 * h) /\ s \in Int
    BY <1>1, <1>2 DEF Signed
  <1>8. k + 1 < b => \E c \in Nat : 2 * h = a * (2 * c)
    <2> SUFFICES ASSUME k + 1 < b PROVE \E c \in Nat : 2 * h = a * (2 * c)
      OBVIOUS
    <2>1. k \in 0..(b - 1)
      OBVIOUS
    <2>2. Pow2(b) = Pow2(k) * (2 * Pow2(b - (k + 1))) /\ Pow2(b - (k + 1)) \in Nat
      BY <2>1, Places, ZenonT(40)
    <2> QED BY <1>1, <2>2
  <1>9. k + 1 >= b => h <= a /\ (k + 1 = b => h = a) /\ (k + 1 # b => 2 * h <= a)
    <2> SUFFICES ASSUME k + 1 >= b PROVE h <= a /\ (k + 1 = b => h = a) /\ (k + 1 # b => 2 * h <= a)
      OBVIOUS
    <2>1. k = (b - 1) + (k - (b - 1)) /\ k - (b - 1) \in Nat
      BY <1>0
    <2>2. a = h * Pow2(k - (b - 1)) /\ Pow2(k - (b - 1)) \in Nat \ {0}
      BY <1>0, <2>1, Pow2Sum, Pow2Positive, ZenonT(40)
    <2>3. k + 1 = b => k = b - 1
      BY <1>0
    <2>4. ASSUME k + 1 # b PROVE 2 * h <= a
      <3>1. k - b \in Nat /\ k - (b - 1) = (k - b) + 1
        BY <2>4, <1>0
      <3>2. Pow2(k - (b - 1)) = 2 * Pow2(k - b) /\ Pow2(k - b) \in Nat \ {0}
        BY <3>1, Pow2Unfold, Pow2Positive
      <3> HIDE DEF h, a
      <3>3. h * (2 * Pow2(k - b)) >= 2 * h
        BY <1>1, <3>2
      <3> QED BY <2>2, <3>2, <3>3
    <2>5. h * Pow2(k - (b - 1)) >= h
      BY <1>1, <2>2
    <2> QED BY <2>2, <2>3, <2>4, <2>5
  <1> HIDE DEF h, s, a, x
  <1>10. q \in (0 - h)..(h - 1) /\ (2 * h <= a => q = IF s < 0 THEN 0 - 1 ELSE 0)
    BY <1>1, <1>7, QuotientBound, ZenonT(40)
  <1>11. q \div 2 = s \div (2 * a)
    BY <1>1, <1>7, Halves, Zenon
  <1> HIDE DEF q
  <1>12. x \in 0..(2 * h - 1) /\ (q >= 0 => x = q) /\ (q < 0 => x = q + 2 * h)
    BY <1>1, <1>3, <1>10
  <1>13. Signed(x, h) = q
    BY <1>1, <1>10, <1>12 DEF Signed
  <1>14. SAR(x, 1, b).r = SAR(v, k + 1, b).r
    BY <1>4, <1>5, <1>11, <1>13
  <1>15. (x \div 1) % 2 = q % 2
    BY <1>1, <1>10, <1>12
  <1>16. (v \div (IF k + 1 < b THEN a ELSE h)) % 2 = q % 2
    <2>1. CASE k + 1 < b
      <3>1. PICK c \in Nat : 2 * h = a * (2 * c)
        BY <1>8, <2>1
      <3>2. v \div a = q \/ v \div a = q + 2 * c
        <4> DEFINE t == s % a
        <4>1. t \in 0..(a - 1) /\ s = a * q + t
          BY <1>1, <1>7, DivParts, ZenonT(40) DEF q
        <4> HIDE DEF t
        <4>2. CASE v < h
          BY <4>2, <1>7 DEF q
        <4>3. CASE v >= h
          <5>1. v = a * (q + 2 * c) + t
            <6>1. v = (a * q + t) + a * (2 * c)
              BY <1>1, <1>2, <1>7, <3>1, <4>1, <4>3
            <6>2. a * (q + 2 * c) = a * q + a * (2 * c)
              BY <1>1, <1>10
            <6> QED BY <6>1, <6>2, <1>1, <1>10, <4>1
          <5> DEFINE Q == q + 2 * c
          <5>2. Q \in Int /\ v = a * Q + t
            BY <5>1, <1>10
          <5> HIDE DEF Q
          <5>3. v \div a = Q
            BY <5>2, <1>1, <4>1, DivIs, ZenonT(40)
          <5> QED BY <5>3 DEF Q
        <4> QED BY <4>2, <4>3, <1>1, <1>2
      <3> QED BY <2>1, <3>2, <1>10
    <2>2. CASE k + 1 = b
      <3>1. h = a
        BY <1>9, <2>2
      <3>2. v < h => v \div h = 0 /\ q = 0
        BY <1>1, <1>2, <1>7, <3>1 DEF q
      <3>3. v >= h => v \div h = 1 /\ q = 0 - 1
        <4> SUFFICES ASSUME v >= h PROVE v \div h = 1 /\ q = 0 - 1
          OBVIOUS
        <4>1. v \in h..(2 * h - 1) /\ s \in (0 - h)..(0 - 1)
          BY <1>1, <1>2, <1>7
        <4> QED BY <1>1, <4>1, <3>1, QuotientNear DEF q
      <3> QED BY <2>2, <3>2, <3>3, <1>2, <1>1
    <2>3. CASE k + 1 > b
      <3>1. q = IF s < 0 THEN 0 - 1 ELSE 0
        BY <1>9, <1>10, <2>3
      <3>2. v < h => v \div h = 0 /\ q = 0
        BY <1>1, <1>2, <1>7, <3>1
      <3>3. v >= h => v \div h = 1 /\ q = 0 - 1
        <4> SUFFICES ASSUME v >= h PROVE v \div h = 1 /\ q = 0 - 1
          OBVIOUS
        <4>1. v \in h..(2 * h - 1) /\ s < 0
          BY <1>1, <1>2, <1>7
        <4> QED BY <1>1, <4>1, <3>1, QuotientNear, SMTT(20), SMTT(30), Zenon
      <3> QED BY <2>3, <3>2, <3>3, <1>2, <1>1
    <2> QED BY <2>1, <2>2, <2>3
  <1> QED BY <1>1, <1>4, <1>6, <1>12, <1>14, <1>15, <1>16 DEF x

(* The rotations, by a count that the operand's size has not yet reduced.  *)
LEMMA RotationIs ==
    ASSUME NEW b \in Nat \ {0, 1}, NEW k \in Nat, NEW v \in 0..(Pow2(b) - 1)
    PROVE  /\ ROL(v, k, b).r = Pow2(k % b) * (v % Pow2(b - (k % b))) + (v \div Pow2(b - (k % b)))
           /\ ROL(v, k, b).r \in 0..(Pow2(b) - 1)
           /\ ROR(v, k, b).r = (v \div Pow2(k % b)) + Pow2(b - (k % b)) * (v % Pow2(k % b))
           /\ ROR(v, k, b).r \in 0..(Pow2(b) - 1)
  <1> DEFINE j == k % b
             M == Pow2(b)
             a == Pow2(j)
             c == Pow2(b - (j + 1))
             d == Pow2(b - j)
             l == a * (v % d) + (v \div d)
             r == (v \div a) + d * (v % a)
  <1>0. j \in 0..(b - 1)
    OBVIOUS
  <1>1. a \in Nat \ {0} /\ c \in Nat \ {0} /\ M = a * (2 * c) /\ d = 2 * c
    <2> HIDE DEF j
    <2> QED BY <1>0, Places, ZenonT(40)
  <1>2. (v * a) % M = a * (v % d) /\ (v * d) % M = d * (v % a)
    <2> HIDE DEF a, c, d, M
    <2>1. a \in Nat \ {0} /\ d \in Nat \ {0} /\ v \in Int /\ M = a * d /\ M = d * a
      BY <1>1 DEF M
    <2>2. (v * a) % (a * d) = a * (v % d) /\ (v * d) % (d * a) = d * (v % a)
      <3>1. a \in Nat \ {0} /\ d \in Nat \ {0} /\ v \in Int
        BY <2>1
      <3> QED BY <3>1, ScaleMod, Zenon
    <2> QED BY <2>1, <2>2
  <1>3. v \in 0..(a * (2 * c) - 1)
    BY <1>1
  <1>4. ROL(v, k, b).r = l % M
    BY <1>2 DEF ROL, Left, Right
  <1>5. ROR(v, k, b).r = r % M
    BY <1>2 DEF ROR, Left, Right
  <1>6. l \in 0..(M - 1) /\ r \in 0..(M - 1)
    <2> HIDE DEF a, c, d, M
    <2>1. l = a * (v % (2 * c)) + (v \div (2 * c)) /\ r = (v \div a) + (2 * c) * (v % a)
      BY <1>1
    <2> HIDE DEF l, r
    <2>2. (a * (v % (2 * c)) + (v \div (2 * c))) \in 0..(a * (2 * c) - 1)
      BY <1>1, <1>3, RotateLeftOnce, Zenon
    <2> QED BY <1>1, <1>3, <2>1, <2>2, RotateRightOnce, ZenonT(40)
  <1> HIDE DEF l, r
  <1>7. l % M = l /\ r % M = r
    <2> HIDE DEF M, a, c, d
    <2> QED BY <1>1, <1>6, SMTT(20), SMTT(30), Zenon
  <1> QED BY <1>4, <1>5, <1>6, <1>7 DEF l, r

(* A rotation by k places, then by one.                                    *)
LEMMA RotateAgain ==
    ASSUME NEW b \in Nat \ {0, 1}, NEW k \in Nat \ {0}, NEW v \in 0..(Pow2(b) - 1)
    PROVE  /\ ROL(v, k, b).r \in 0..(Pow2(b) - 1) /\ ROR(v, k, b).r \in 0..(Pow2(b) - 1)
           /\ ROL(ROL(v, k, b).r, 1, b).r = ROL(v, k + 1, b).r
           /\ ROR(ROR(v, k, b).r, 1, b).r = ROR(v, k + 1, b).r
  <1> DEFINE j == k % b
             M == Pow2(b)
             a == Pow2(j)
             c == Pow2(b - (j + 1))
             x == ROL(v, k, b).r
             y == ROR(v, k, b).r
  <1>0. k \in Nat /\ k + 1 \in Nat /\ 1 \in Nat /\ 1 \in 0..(b - 1) /\ 0 \in 0..(b - 1) /\ j \in 0..(b - 1)
    OBVIOUS
  <1>1. 1 % b = 1
    OBVIOUS
  <1>2. (j + 1 < b => (k + 1) % b = j + 1) /\ (j + 1 = b => (k + 1) % b = 0)
    <2> DEFINE q == k \div b
    <2>1. q \in Int /\ k = b * q + j
      BY DivParts
    <2> HIDE DEF q, j
    <2>2. ASSUME j + 1 < b PROVE (k + 1) % b = j + 1
      <3>1. k + 1 = b * q + (j + 1) /\ j + 1 \in 0..(b - 1) /\ b \in Nat \ {0}
        BY <1>0, <2>1, <2>2
      <3> DEFINE V == k + 1
                 w == j + 1
      <3>2. V = b * q + w /\ w \in 0..(b - 1) /\ b \in Nat \ {0} /\ q \in Int
        BY <2>1, <3>1
      <3> HIDE DEF V, w
      <3>3. V % b = w
        BY <3>2, DivIs, ZenonT(40)
      <3> QED BY <3>3 DEF V, w
    <2>3. ASSUME j + 1 = b PROVE (k + 1) % b = 0
      <3> DEFINE p == q + 1
      <3>1. k + 1 = b * p + 0 /\ 0 \in 0..(b - 1) /\ b \in Nat \ {0} /\ p \in Int
        BY <1>0, <2>1, <2>3
      <3> DEFINE V == k + 1
      <3> HIDE DEF p, V
      <3>2. V = b * p + 0
        BY <3>1 DEF V
      <3>3. V % b = 0
        BY <3>1, <3>2, DivIs, ZenonT(40)
      <3> QED BY <3>3 DEF V
    <2> QED BY <2>2, <2>3
  <1> HIDE DEF j
  <1>3. a \in Nat \ {0} /\ c \in Nat \ {0} /\ M = a * (2 * c) /\ Pow2(b - j) = 2 * c /\ Pow2(b - 1) = a * c
        /\ Pow2(j + 1) = 2 * a /\ Pow2(1) = 2 /\ Pow2(0) = 1
    BY <1>0, Places, ZenonT(40)
  <1>4. x = a * (v % (2 * c)) + (v \div (2 * c)) /\ y = (v \div a) + (2 * c) * (v % a) /\ x \in 0..(M - 1) /\ y \in 0..(M - 1)
    <2>1. /\ x = Pow2(j) * (v % Pow2(b - j)) + (v \div Pow2(b - j)) /\ x \in 0..(M - 1)
          /\ y = (v \div Pow2(j)) + Pow2(b - j) * (v % Pow2(j)) /\ y \in 0..(M - 1)
      BY <1>0, RotationIs, Zenon DEF j
    <2> QED BY <1>3, <2>1
  <1>5. ROL(x, 1, b).r = 2 * (x % (a * c)) + (x \div (a * c)) /\ ROR(y, 1, b).r = (y \div 2) + (a * c) * (y % 2)
    <2> HIDE DEF x, y
    <2>1. /\ ROL(x, 1, b).r = Pow2(1 % b) * (x % Pow2(b - (1 % b))) + (x \div Pow2(b - (1 % b)))
          /\ ROR(y, 1, b).r = (y \div Pow2(1 % b)) + Pow2(b - (1 % b)) * (y % Pow2(1 % b))
      BY <1>0, <1>4, RotationIs, Zenon
    <2> QED BY <1>1, <1>3, <2>1
  <1>13. /\ ROL(v, k + 1, b).r = Pow2((k + 1) % b) * (v % Pow2(b - ((k + 1) % b))) + (v \div Pow2(b - ((k + 1) % b)))
         /\ ROR(v, k + 1, b).r = (v \div Pow2((k + 1) % b)) + Pow2(b - ((k + 1) % b)) * (v % Pow2((k + 1) % b))
    BY <1>0, RotationIs, Zenon
  <1>6. j + 1 < b => /\ ROL(v, k + 1, b).r = (2 * a) * (v % c) + (v \div c)
                     /\ ROR(v, k + 1, b).r = (v \div (2 * a)) + c * (v % (2 * a))
    <2> SUFFICES ASSUME j + 1 < b PROVE /\ ROL(v, k + 1, b).r = (2 * a) * (v % c) + (v \div c)
                                        /\ ROR(v, k + 1, b).r = (v \div (2 * a)) + c * (v % (2 * a))
      OBVIOUS
    <2>1. j + 1 \in 0..(b - 1) /\ (k + 1) % b = j + 1
      BY <1>0, <1>2
    <2> QED BY <1>3, <1>13, <2>1
  <1>7. j + 1 = b => /\ ROL(v, k + 1, b).r = 1 * (v % M) + (v \div M)
                     /\ ROR(v, k + 1, b).r = (v \div 1) + M * (v % 1)
                     /\ c = 1
    <2> SUFFICES ASSUME j + 1 = b PROVE /\ ROL(v, k + 1, b).r = 1 * (v % M) + (v \div M)
                                        /\ ROR(v, k + 1, b).r = (v \div 1) + M * (v % 1)
                                        /\ c = 1
      OBVIOUS
    <2>1. (k + 1) % b = 0 /\ b - 0 = b /\ b - (j + 1) = 0
      BY <1>0, <1>2
    <2> QED BY <1>3, <1>13, <2>1, ZenonT(40)
  <1>8. v \in 0..(M - 1)
    OBVIOUS
  <1>9. ROL(v, k + 1, b).r = (2 * a) * (v % c) + (v \div c) /\ ROR(v, k + 1, b).r = (v \div (2 * a)) + c * (v % (2 * a))
    <2>1. CASE j + 1 < b
      BY <2>1, <1>6
    <2>2. CASE j + 1 = b
      <3> HIDE DEF M, a, c
      <3>1. v % M = v /\ v \div M = 0 /\ v % 1 = 0 /\ v \div 1 = v /\ M \in Nat /\ v \in Nat
        BY <1>3, <1>8
      <3>2. c = 1 /\ 2 * a = M
        BY <1>3, <1>7, <2>2
      <3>3. (2 * a) * (v % c) + (v \div c) = v /\ (v \div (2 * a)) + c * (v % (2 * a)) = v
        BY <3>1, <3>2
      <3>4. 1 * (v % M) + (v \div M) = v /\ (v \div 1) + M * (v % 1) = v
        BY <3>1
      <3> QED BY <1>7, <2>2, <3>3, <3>4
    <2> QED BY <1>0, <2>1, <2>2
  <1> HIDE DEF M, a, c, x, y
  <1>10. ((x * 2) % (a * (2 * c))) + (x \div (a * c)) = (2 * a) * (v % c) + (v \div c)
    <2>1. a \in Nat \ {0} /\ c \in Nat \ {0} /\ v \in 0..(a * (2 * c) - 1) /\ x = a * (v % (2 * c)) + (v \div (2 * c))
      BY <1>3, <1>4, <1>8
    <2>2. (((a * (v % (2 * c)) + (v \div (2 * c))) * 2) % (a * (2 * c))) + ((a * (v % (2 * c)) + (v \div (2 * c))) \div (a * c))
          = (2 * a) * (v % c) + (v \div c)
      <3>1. a \in Nat \ {0} /\ c \in Nat \ {0} /\ v \in 0..(a * (2 * c) - 1)
        BY <2>1
      <3> QED BY <3>1, RotateLeftOnce, Zenon
    <2> QED BY <2>1, <2>2, Zenon
  <1>11. (y \div 2) + (a * c) * (y % 2) = (v \div (2 * a)) + c * (v % (2 * a))
    <2>1. a \in Nat \ {0} /\ c \in Nat \ {0} /\ v \in 0..(a * (2 * c) - 1) /\ y = (v \div a) + (2 * c) * (v % a)
      BY <1>3, <1>4, <1>8
    <2> QED BY <2>1, RotateRightOnce, ZenonT(60)
  <1>12. (x * 2) % (a * (2 * c)) = 2 * (x % (a * c))
    <2>1. 2 \in Nat \ {0} /\ a * c \in Nat \ {0} /\ x \in Int /\ a * (2 * c) = 2 * (a * c)
      BY <1>3, <1>4
    <2>2. (x * 2) % (2 * (a * c)) = 2 * (x % (a * c))
      <3>1. 2 \in Nat \ {0} /\ a * c \in Nat \ {0} /\ x \in Int
        BY <2>1
      <3> QED BY <3>1, ScaleMod, Zenon
    <2> QED BY <2>1, <2>2
  <1> QED BY <1>4, <1>5, <1>9, <1>10, <1>11, <1>12 DEF x, y, M

(* The carry the processor defines.                                        *)
CarryDefined(op, n, b) == n < b \/ op \notin {"SHL", "SHR"}

(* Any shift or rotate by k places, then by one.                           *)
LEMMA Again ==
    ASSUME NEW op \in Op, NEW b \in Nat \ {0, 1}, NEW k \in Nat \ {0}, NEW v \in 0..(Pow2(b) - 1)
    PROVE  /\ Apply(op, v, k, b).r \in 0..(Pow2(b) - 1)
           /\ Apply(op, Apply(op, v, k, b).r, 1, b).r = Apply(op, v, k + 1, b).r
           /\ CarryDefined(op, k + 1, b) =>
                Apply(op, Apply(op, v, k, b).r, 1, b).cf = Apply(op, v, k + 1, b).cf
  <1>1. CASE op = "SHL"
    <2>1. \A w, n : Apply(op, w, n, b) = SHL(w, n, b)
      BY <1>1 DEF Apply
    <2>2. /\ SHL(v, k, b).r \in 0..(Pow2(b) - 1) /\ SHL(SHL(v, k, b).r, 1, b).r = SHL(v, k + 1, b).r
          /\ k + 1 < b => SHL(SHL(v, k, b).r, 1, b).cf = SHL(v, k + 1, b).cf
      BY SHLAgain
    <2>3. CarryDefined(op, k + 1, b) => k + 1 < b
      BY <1>1 DEF CarryDefined
    <2> QED BY <2>1, <2>2, <2>3
  <1>2. CASE op = "SHR"
    <2>1. \A w, n : Apply(op, w, n, b) = SHR(w, n, b)
      BY <1>2 DEF Apply
    <2>2. /\ SHR(v, k, b).r \in 0..(Pow2(b) - 1) /\ SHR(SHR(v, k, b).r, 1, b).r = SHR(v, k + 1, b).r
          /\ k + 1 < b => SHR(SHR(v, k, b).r, 1, b).cf = SHR(v, k + 1, b).cf
      BY SHRAgain
    <2>3. CarryDefined(op, k + 1, b) => k + 1 < b
      BY <1>2 DEF CarryDefined
    <2> QED BY <2>1, <2>2, <2>3
  <1>3. CASE op = "SAR"
    <2>1. \A w, n : Apply(op, w, n, b) = SAR(w, n, b)
      BY <1>3 DEF Apply
    <2>2. /\ SAR(v, k, b).r \in 0..(Pow2(b) - 1) /\ SAR(SAR(v, k, b).r, 1, b).r = SAR(v, k + 1, b).r
          /\ SAR(SAR(v, k, b).r, 1, b).cf = SAR(v, k + 1, b).cf
      BY SARAgain
    <2> QED BY <2>1, <2>2
  <1>4. CASE op = "ROL"
    <2>1. \A w, n : Apply(op, w, n, b) = ROL(w, n, b)
      BY <1>4 DEF Apply
    <2>2. ROL(v, k, b).r \in 0..(Pow2(b) - 1) /\ ROL(ROL(v, k, b).r, 1, b).r = ROL(v, k + 1, b).r
      BY RotateAgain, Zenon
    <2>3. \A w, n : ROL(w, n, b).cf = Bit(ROL(w, n, b).r, 0)
      BY DEF ROL
    <2> QED BY <2>1, <2>2, <2>3
  <1>5. CASE op = "ROR"
    <2>1. \A w, n : Apply(op, w, n, b) = ROR(w, n, b)
      BY <1>5 DEF Apply
    <2>2. ROR(v, k, b).r \in 0..(Pow2(b) - 1) /\ ROR(ROR(v, k, b).r, 1, b).r = ROR(v, k + 1, b).r
      BY RotateAgain, Zenon
    <2>3. \A w, n : ROR(w, n, b).cf = Bit(ROR(w, n, b).r, b - 1)
      BY DEF ROR
    <2> QED BY <2>1, <2>2, <2>3
  <1> QED BY <1>1, <1>2, <1>3, <1>4, <1>5 DEF Op

(* The function whose last value Repeat takes.                             *)
Shifting(f, op, v, n, b) == f = [k \in 1..n |-> Apply(op, IF k = 1 THEN v ELSE f[k - 1].r, 1, b)]

(* There is one, by induction on its length.                               *)
LEMMA ShiftingExists ==
    ASSUME NEW op, NEW v, NEW b, NEW n \in Nat
    PROVE  \E f : Shifting(f, op, v, n, b)
  <1> DEFINE G(s) == Apply(op, s.r, 1, b)
             S1 == Apply(op, v, 1, b)
             Bad == {k \in Nat : ~\E f : Shifting(f, op, v, k, b)}
  <1>0. \A f, k : Shifting(f, op, v, k, b) <=> f = [i \in 1..k |-> IF i = 1 THEN S1 ELSE G(f[i - 1])]
    BY DEF Shifting
  <1> HIDE DEF G, S1
  <1> SUFFICES ASSUME Bad # {} PROVE FALSE
    OBVIOUS
  <1>1. PICK k \in Bad : \A j \in Bad : k <= j
    BY LeastOf, Zenon
  <1>2. \A j \in Nat : j < k => j \notin Bad
    BY <1>1
  <1>3. CASE k = 0
    <2> DEFINE g == [i \in 1..0 |-> S1]
    <2>1. g = [i \in 1..0 |-> IF i = 1 THEN S1 ELSE G(g[i - 1])]
      OBVIOUS
    <2> QED BY <1>0, <1>1, <1>3, <2>1, Zenon
  <1>4. CASE k # 0
    <2>1. PICK f : Shifting(f, op, v, k - 1, b)
      BY <1>1, <1>2, <1>4
    <2> DEFINE g == [i \in 1..k |-> IF i = k THEN (IF k = 1 THEN S1 ELSE G(f[k - 1])) ELSE f[i]]
    <2>2. \A i \in 1..k : g[i] = IF i = 1 THEN S1 ELSE G(g[i - 1])
      <3> TAKE i \in 1..k
      <3>1. CASE i = k
        <4>1. k # 1 => k - 1 \in 1..k /\ k - 1 # k
          BY <1>1, <1>4
        <4> QED BY <3>1, <4>1
      <3>2. CASE i # k
        <4>1. i \in 1..(k - 1)
          BY <1>1, <3>2
        <4>2. f[i] = IF i = 1 THEN S1 ELSE G(f[i - 1])
          BY <1>0, <2>1, <4>1
        <4>3. i # 1 => i - 1 \in 1..k /\ i - 1 # k
          BY <4>1, <1>1
        <4> QED BY <3>2, <4>1, <4>2, <4>3
      <3> QED BY <3>1, <3>2
    <2>3. g = [i \in 1..k |-> IF i = 1 THEN S1 ELSE G(g[i - 1])]
      BY <2>2, SMTT(20), SMTT(30), Zenon
    <2> QED BY <1>0, <1>1, <2>3, Zenon
  <1> QED BY <1>3, <1>4

(* n shifts by one do what a shift by n does.                              *)
LEMMA RepeatIsApply ==
    ASSUME NEW op \in Op, NEW b \in Nat \ {0, 1}, NEW n \in Nat \ {0}, NEW v \in 0..(Pow2(b) - 1)
    PROVE  /\ Repeat(op, v, n, b).r = Apply(op, v, n, b).r
           /\ CarryDefined(op, n, b) => Repeat(op, v, n, b).cf = Apply(op, v, n, b).cf
  <1> DEFINE f == CHOOSE g : Shifting(g, op, v, n, b)
             Bad == {k \in 1..n : ~(/\ f[k].r = Apply(op, v, k, b).r
                                    /\ CarryDefined(op, k, b) => f[k].cf = Apply(op, v, k, b).cf)}
  <1>1. Shifting(f, op, v, n, b)
    BY ShiftingExists, Zenon
  <1>2. Repeat(op, v, n, b) = f[n]
    BY Zenon DEF Repeat, Shifting
  <1> HIDE DEF f
  <1>3. \A k \in 1..n : f[k] = Apply(op, IF k = 1 THEN v ELSE f[k - 1].r, 1, b)
    BY <1>1, SMTT(20), SMTT(30), Zenon DEF Shifting
  <1>4. Bad = {}
    <2> SUFFICES ASSUME Bad # {} PROVE FALSE
      OBVIOUS
    <2>1. PICK k \in Bad : \A j \in Bad : k <= j
      BY LeastOf, Bad \in SUBSET Nat, Zenon
    <2>2. k # 1
      BY <1>3, <2>1, SMTT(20), SMTT(30), Zenon
    <2>3. k - 1 \in 1..n /\ ~(k <= k - 1) /\ k - 1 \in Nat \ {0} /\ (k - 1) + 1 = k
      BY <2>1, <2>2, SMTT(20), SMTT(30), Zenon
    <2>4. f[k - 1].r = Apply(op, v, k - 1, b).r
      BY <2>1, <2>3, SMTT(20), SMTT(30), Zenon
    <2>5. f[k] = Apply(op, Apply(op, v, k - 1, b).r, 1, b)
      BY <1>3, <2>1, <2>2, <2>4, SMTT(20), SMTT(30), Zenon
    <2>6. /\ Apply(op, Apply(op, v, k - 1, b).r, 1, b).r = Apply(op, v, k, b).r
          /\ CarryDefined(op, k, b) => Apply(op, Apply(op, v, k - 1, b).r, 1, b).cf = Apply(op, v, k, b).cf
      BY <2>3, Again
    <2> QED BY <2>1, <2>5, <2>6, SMTT(20), SMTT(30), Zenon
  <1> QED BY <1>2, <1>4

(* The quotient of a number below a product lies below the other factor.   *)
LEMMA QuotientFits ==
    ASSUME NEW x \in Nat \ {0}, NEW y \in Nat \ {0}, NEW q \in Int, NEW t \in 0..(y - 1),
           NEW w \in 0..(x * y - 1), w = y * q + t
    PROVE  q \in 0..(x - 1)
  <1>1. ~(q < 0)
    <2> SUFFICES ASSUME q < 0 PROVE FALSE
      OBVIOUS
    <2>1. y * (0 - q) >= y
      OBVIOUS
    <2> QED BY <2>1
  <1>2. ~(q >= x)
    <2> SUFFICES ASSUME q >= x PROVE FALSE
      OBVIOUS
    <2>1. q - x \in Nat /\ y * (q - x) \in Nat
      OBVIOUS
    <2>2. y * q = y * (q - x) + x * y
      BY SMTT(20), SMTT(30), Zenon
    <2> QED BY <2>1, <2>2
  <1> QED BY <1>1, <1>2

(* SHLD and SHRD shift the two operands as one number.                     *)
LEMMA DoubleIsJoined ==
    ASSUME NEW b \in Nat \ {0, 1}, NEW n \in 1..(b - 1), NEW v \in 0..(Pow2(b) - 1), NEW src \in 0..(Pow2(b) - 1)
    PROVE  /\ Left(v, n, b) + Right(src, b - n) = (((v * Pow2(b) + src) * Pow2(n)) \div Pow2(b)) % Pow2(b)
           /\ Left(v, n, b) + Right(src, b - n) \in 0..(Pow2(b) - 1)
           /\ Right(v, n) + Left(src, b - n, b) = ((src * Pow2(b) + v) \div Pow2(n)) % Pow2(b)
           /\ Right(v, n) + Left(src, b - n, b) \in 0..(Pow2(b) - 1)
  <1> DEFINE M == Pow2(b)
             a == Pow2(n)
             d == Pow2(b - n)
             ql == src \div d
             qr == v \div a
             L == a * (v % d) + ql
             R == qr + d * (src % a)
  <1>1. a \in Nat \ {0} /\ d \in Nat \ {0} /\ M = a * d /\ M \in Nat \ {0}
    <2>1. n \in Nat /\ b - n \in Nat /\ b = n + (b - n) /\ b \in Nat
      OBVIOUS
    <2> QED BY <2>1, Pow2Sum, Pow2Positive, ZenonT(40)
  <1>2. v \in 0..(M - 1) /\ src \in 0..(M - 1) /\ v \in Int /\ src \in Int
    BY <1>1
  <1>3. Left(v, n, b) = (v * a) % M /\ Right(src, b - n) = ql /\ Right(v, n) = qr /\ Left(src, b - n, b) = (src * d) % M
    BY DEF Left, Right
  <1> HIDE DEF M, a, d
  <1>4. (v * a) % (a * d) = a * (v % d) /\ (src * a) \div (a * d) = ql /\ (src * a) % (a * d) = a * (src % d)
        /\ (src * d) % (d * a) = d * (src % a)
    <2>1. a \in Nat \ {0} /\ d \in Nat \ {0}
      BY <1>1
    <2> QED BY <1>2, <2>1, ScaleMod, ZenonT(60)
  <1>5. (v * a) % M = a * (v % d) /\ (src * d) % M = d * (src % a)
    <2>1. d * a = M
      BY <1>1
    <2> QED BY <1>1, <1>4, <2>1
  <1>6. ql \in Int /\ (src % d) \in 0..(d - 1) /\ src = d * ql + (src % d) /\ (v % d) \in 0..(d - 1) /\ v \div d \in Int
        /\ v = d * (v \div d) + (v % d)
    BY <1>1, <1>2, DivParts, ZenonT(40)
  <1>7. qr \in Int /\ (v % a) \in 0..(a - 1) /\ v = a * qr + (v % a) /\ (src % a) \in 0..(a - 1) /\ src \div a \in Int
        /\ src = a * (src \div a) + (src % a)
    BY <1>1, <1>2, DivParts, ZenonT(40)
  <1>8. ql \in 0..(a - 1) /\ qr \in 0..(d - 1)
    <2> HIDE DEF ql, qr
    <2>1. src \in 0..(a * d - 1) /\ v \in 0..(d * a - 1)
      <3>1. d * a = a * d
        BY <1>1
      <3> QED BY <3>1, <1>1, <1>2
    <2>2. ql \in 0..(a - 1)
      BY <1>1, <1>6, <2>1, QuotientFits
    <2>3. qr \in 0..(d - 1)
      BY <1>1, <1>7, <2>1, QuotientFits
    <2> QED BY <2>2, <2>3
  <1>9. L \in 0..(M - 1)
    <2>1. a * (v % d) \in 0..(a * d - a)
      BY <1>1, <1>6, Products
    <2> QED BY <2>1, <1>1, <1>8
  <1>10. R \in 0..(M - 1)
    <2>1. d * (src % a) \in 0..(d * a - d) /\ d * a = a * d
      BY <1>1, <1>7, Products
    <2> QED BY <2>1, <1>1, <1>8
  <1>11. (((v * M + src) * a) \div M) % M = L
    <2> DEFINE Q == v * a + ql
               E == a * (src % d)
               V == (v * M + src) * a
               p == v \div d
    <2>1. Q \in Int /\ E \in 0..(M - 1) /\ V = M * Q + E
      <3> DEFINE t == src % d
      <3>1. E \in 0..(a * d - a)
        BY <1>1, <1>6, Products
      <3> HIDE DEF t, ql
      <3>2. src = d * ql + t /\ t \in Int /\ ql \in Int
        BY <1>6 DEF t
      <3>3. src * a = M * ql + a * t
        BY <3>2, <1>1
      <3>4. V = M * (v * a) + src * a
        BY <1>1, <1>2
      <3>5. M * (v * a + ql) = M * (v * a) + M * ql
        BY <1>1, <1>2, <3>2
      <3>6. E = a * t /\ Q \in Int /\ M * (v * a) \in Int /\ M * ql \in Int /\ a * t \in Int
        BY <1>1, <1>2, <3>2 DEF t
      <3> QED BY <3>1, <3>3, <3>4, <3>5, <3>6, <1>1, SMTT(20), SMTT(30), Zenon
    <2>2. Q = M * p + L
      <3> DEFINE t == v % d
      <3>1. v = d * p + t /\ p \in Int /\ t \in Int /\ ql \in Int /\ L = a * t + ql
        BY <1>6
      <3> HIDE DEF t, p, ql
      <3>2. v * a = M * p + a * t
        BY <3>1, <1>1
      <3>3. M * p \in Int /\ a * t \in Int
        BY <3>1, <1>1
      <3> QED BY <3>1, <3>2, <3>3
    <2>3. p \in Int
      BY <1>6
    <2> HIDE DEF Q, E, V, p, L
    <2>6. M \in Nat \ {0}
      BY <1>1
    <2>4. V \div M = Q
      BY <2>1, <2>6, DivIs, ZenonT(40)
    <2>5. Q % M = L
      BY <1>9, <2>2, <2>3, <2>6, DivIs, ZenonT(40)
    <2> QED BY <2>4, <2>5 DEF V
  <1>12. ((src * M + v) \div a) % M = R
    <2> DEFINE Q == src * d + qr
               V == src * M + v
               p == src \div a
    <2>1. Q \in Int /\ V = a * Q + (v % a)
      <3> DEFINE t == v % a
      <3> HIDE DEF t, qr
      <3>1. v = a * qr + t /\ t \in Int /\ qr \in Int
        BY <1>7 DEF t
      <3>2. src * M = a * (src * d)
        BY <1>1, <1>2
      <3>3. a * (src * d + qr) = a * (src * d) + a * qr
        BY <1>1, <1>2, <3>1
      <3>4. Q \in Int /\ a * (src * d) \in Int /\ a * qr \in Int
        BY <1>1, <1>2, <3>1
      <3>5. V = a * Q + t
        BY <3>1, <3>2, <3>3, <3>4
      <3> QED BY <3>4, <3>5 DEF t
    <2>2. Q = M * p + R
      <3> DEFINE t == src % a
      <3>1. src = a * p + t /\ p \in Int /\ t \in Int /\ qr \in Int /\ R = qr + d * t
        BY <1>7
      <3> HIDE DEF t, p, qr
      <3>2. src * d = M * p + d * t
        BY <3>1, <1>1
      <3>3. M * p \in Int /\ d * t \in Int
        BY <3>1, <1>1
      <3> QED BY <3>1, <3>2, <3>3
    <2>3. p \in Int
      BY <1>7
    <2> HIDE DEF Q, V, p, R
    <2>6. M \in Nat \ {0} /\ a \in Nat \ {0} /\ v % a \in 0..(a - 1)
      BY <1>1, <1>7
    <2>4. V \div a = Q
      BY <2>1, <2>6, DivIs, ZenonT(40)
    <2>5. Q % M = R
      BY <1>10, <2>2, <2>3, <2>6, DivIs, ZenonT(40)
    <2> QED BY <2>4, <2>5 DEF V
  <1> QED BY <1>3, <1>5, <1>9, <1>10, <1>11, <1>12 DEF M, a

-----------------------------------------------------------------------------
(* The shifts and the bit instructions among those of module Alu.          *)

ShiftStep ==
    \/ ShiftGroup
    \/ \E r, s \in Reg, imm \in Immediates :
          (\E op \in {"SHLD", "SHRD"} : DoubleShift(op, r, regs[s], imm)) \/ BitTest(r, imm) \/ BitScan(r, regs[s])

(* The powers behind the operand sizes.                                    *)
LEMMA ShiftSizes ==
    /\ \A size : Bits(size) \in Nat \ {0, 1} /\ Pow2(Bits(size)) = 2 * H(Width(size))
    /\ NarrowBits \in Nat \ {0, 1} /\ WideBits \in Nat \ {0, 1}
    /\ Pow2(WideBits) = 2 * Half /\ H("wide") = Half
    /\ Word = 0..(Pow2(WideBits) - 1)
  <1>1. \A b \in Nat \ {0, 1} : Pow2(b) = 2 * Pow2(b - 1)
    <2> TAKE b \in Nat \ {0, 1}
    <2>1. 0 \in 0..(b - 1)
      OBVIOUS
    <2> QED BY <2>1, Places
  <1>2. Pow2(NarrowBits) = 2 * NarrowHalf /\ Pow2(WideBits) = 2 * Half
    BY <1>1, ShiftsAssumption
  <1> QED BY <1>2, ShiftsAssumption DEF Bits, Width, H, Word

(* A bit number is smaller than its power.                                 *)
LEMMA Pow2Exceeds == \A n \in Nat : n < Pow2(n)
  <1> DEFINE Bad == {k \in Nat : ~(k < Pow2(k))}
  <1> SUFFICES ASSUME Bad # {} PROVE FALSE
    OBVIOUS
  <1>1. PICK k \in Bad : \A j \in Bad : k <= j
    BY LeastOf, Bad \in SUBSET Nat, Zenon
  <1>2. k # 0
    BY <1>1, Pow2Unfold
  <1>3. k - 1 \in Nat /\ ~(k <= k - 1) /\ k = (k - 1) + 1
    BY <1>1, <1>2
  <1>4. k - 1 < Pow2(k - 1) /\ Pow2(k - 1) \in Nat
    BY <1>1, <1>3, Pow2Positive
  <1>5. Pow2(k) = 2 * Pow2(k - 1)
    BY <1>3, Pow2Unfold
  <1> QED BY <1>1, <1>3, <1>4, <1>5

(* Switching a bit on or off stays within the register.                    *)
LEMMA BitSwitched ==
    ASSUME NEW b \in Nat \ {0, 1}, NEW i \in 0..(b - 1), NEW v \in 0..(Pow2(b) - 1)
    PROVE  /\ Bit(v, i) => v - Pow2(i) \in 0..(Pow2(b) - 1)
           /\ ~Bit(v, i) => v + Pow2(i) \in 0..(Pow2(b) - 1)
  <1> DEFINE a == Pow2(i)
             c == Pow2(b - (i + 1))
             q == v \div a
             t == v % a
  <1>1. a \in Nat \ {0} /\ c \in Nat \ {0} /\ Pow2(b) = a * (2 * c)
    BY Places, ZenonT(40)
  <1>2. v \in Int /\ q \in Int /\ t \in 0..(a - 1) /\ v = a * q + t
    <2>1. v \in Int
      BY Places
    <2> HIDE DEF a
    <2> QED BY <1>1, <2>1, DivParts, ZenonT(40)
  <1>3. Bit(v, i) <=> q % 2 = 1
    BY DEF Bit
  <1>4. v \in 0..((2 * c) * a - 1) /\ v \in 0..(a * (2 * c) - 1)
    <2> HIDE DEF a, c
    <2>1. (2 * c) * a = a * (2 * c)
      BY <1>1
    <2> QED BY <1>1, <2>1
  <1> HIDE DEF a, c, q, t
  <1>5. q \in 0..((2 * c) - 1)
    BY <1>1, <1>2, <1>4, QuotientFits, 2 * c \in Nat \ {0}
  <1>6. ASSUME q % 2 = 1 PROVE v - a \in 0..(a * (2 * c) - 1)
    <2>1. q >= 1
      BY <1>5, <1>6
    <2>2. a * q >= a
      BY <1>1, <1>5, <2>1
    <2> QED BY <1>1, <1>2, <1>4, <2>2
  <1>7. ASSUME q % 2 # 1 PROVE v + a \in 0..(a * (2 * c) - 1)
    <2>1. q + 1 \in 0..((2 * c) - 1)
      BY <1>1, <1>5, <1>7
    <2>2. a * (q + 1) \in 0..(a * (2 * c) - a)
      BY <1>1, <2>1, Products, 2 * c \in Nat \ {0}
    <2>3. a * (q + 1) = a * q + a /\ a * q \in Int
      BY <1>1, <1>5
    <2> QED BY <1>1, <1>2, <2>2, <2>3
  <1> QED BY <1>1, <1>3, <1>6, <1>7 DEF a

(* Carry and overflow of a shift are truth values, the flags it sets are   *)
(* arithmetic flags, and the carry flag is its carry.                      *)
LEMMA ShiftFlags ==
    /\ \A op \in Op : \A v, n, b : Apply(op, v, n, b).cf \in BOOLEAN
    /\ \A v, src, n : SHLD(v, src, n).cf \in BOOLEAN /\ SHRD(v, src, n).cf \in BOOLEAN
    /\ \A x, h : setShiftFlagsN(x, h) \subseteq Flag /\ ("CF" \in setShiftFlagsN(x, h) <=> x.cf)
  <1>1. \A op \in Op : \A v, n, b : Apply(op, v, n, b).cf \in BOOLEAN
    <2>1. \A v, n, b : /\ SHL(v, n, b).cf \in BOOLEAN /\ SHR(v, n, b).cf \in BOOLEAN /\ SAR(v, n, b).cf \in BOOLEAN
                       /\ ROL(v, n, b).cf \in BOOLEAN /\ ROR(v, n, b).cf \in BOOLEAN
      BY DEF SHL, SHR, SAR, ROL, ROR, Bit
    <2> QED BY <2>1, SMTT(20), SMTT(30), Zenon DEF Apply, Op
  <1>2. \A v, src, n : SHLD(v, src, n).cf \in BOOLEAN /\ SHRD(v, src, n).cf \in BOOLEAN
    BY DEF SHLD, SHRD, Bit
  <1>3. \A x, h : setShiftFlagsN(x, h) \subseteq Flag /\ ("CF" \in setShiftFlagsN(x, h) <=> x.cf)
    BY DEF setShiftFlagsN, ResultFlags, On, Flag
  <1> QED BY <1>1, <1>2, <1>3

(* What a shift of register r by a count that is not masked to zero       *)
(* writes.                                                                 *)
ShiftWritten(op, r, count, size) ==
    LET n == Masked(count, size)
        m == Pow2(Bits(size))
        old == regs[r] % m
        x == Apply(op, old, n, Bits(size))
    IN  /\ n \in Nat \ {0} /\ old \in 0..(m - 1) /\ x.r \in 0..(m - 1) /\ x.cf \in BOOLEAN
        /\ regs' = Put(r, x.r, Width(size))
        /\ regs' = [regs EXCEPT ![r] = (@ - old) + x.r]
        /\ EFLAGS' = setShiftFlagsN(x, H(Width(size)))
        /\ exact' = {} /\ carry' = BOOLEAN /\ product' = {} /\ fault' = FALSE
        /\ shifted' = {[op |-> op, r |-> r, n |-> n, size |-> size, src |-> 0, from |-> regs]}

(* A shift writes just that.                                               *)
LEMMA ShiftWrites ==
    ASSUME TypeOK, NEW op \in Op, NEW r \in Reg, NEW count \in Immediates, NEW size \in ShiftSize,
           Shift(op, r, count, size), Masked(count, size) # 0
    PROVE  ShiftWritten(op, r, count, size)
  <1> DEFINE n == Masked(count, size)
             m == Pow2(Bits(size))
             old == regs[r] % m
             x == Apply(op, old, n, Bits(size))
  <1>0. n = Masked(count, size) /\ n # 0 /\ m = Pow2(Bits(size)) /\ old = regs[r] % m /\ x = Apply(op, old, n, Bits(size))
    OBVIOUS
  <1> HIDE DEF n, m, old, x
  <1>1. Bits(size) \in Nat \ {0, 1} /\ m = 2 * H(Width(size)) /\ H(Width(size)) \in Nat \ {0, 1}
    BY <1>0, ShiftSizes, WidthTyped
  <1>2. n \in Nat \ {0}
    <2>1. count \in Nat
      BY ShiftsAssumption
    <2> QED BY <1>0, <2>1, ShiftSizes DEF Masked
  <1>3. regs[r] \in Int /\ old \in 0..(m - 1)
    BY <1>0, <1>1 DEF TypeOK, Word
  <1>4. x.r \in 0..(m - 1)
    BY <1>0, <1>1, <1>2, <1>3, Again, ZenonT(40)
  <1>5. x.cf \in BOOLEAN
    BY <1>0, ShiftFlags
  <1>6. Value(r, Width(size)) = old
    BY <1>0, <1>1 DEF Value
  <1>7. /\ regs' = Put(r, x.r, Width(size))
        /\ EFLAGS' = setShiftFlagsN(x, H(Width(size)))
        /\ exact' = {} /\ carry' = BOOLEAN /\ product' = {} /\ fault' = FALSE
        /\ shifted' = {[op |-> op, r |-> r, n |-> n, size |-> size, src |-> 0, from |-> regs]}
    BY <1>0, <1>6, Zenon DEF Shift, Runs
  <1>8. x.r % m = x.r
    BY <1>1, <1>4
  <1>9. regs' = [regs EXCEPT ![r] = (@ - old) + x.r]
    BY <1>0, <1>1, <1>7, <1>8, Zenon DEF Put
  <1> QED BY <1>2, <1>3, <1>4, <1>5, <1>7, <1>9, Zenon DEF ShiftWritten, n, m, old, x

(* What SHLD or SHRD by a count that is not masked to zero writes.         *)
DoubleWritten(op, r, src, count) ==
    LET n == Masked(count, "dword")
        x == IF op = "SHLD" THEN SHLD(regs[r], src, n) ELSE SHRD(regs[r], src, n)
    IN  /\ x.cf \in BOOLEAN
        /\ regs' = Put(r, x.r, "wide") /\ x.r \in Word
        /\ regs' = [regs EXCEPT ![r] = x.r]
        /\ x.r = Joined(op, regs[r], src, n).r /\ x.cf = Joined(op, regs[r], src, n).cf
        /\ EFLAGS' = setShiftFlagsN(x, Half)
        /\ exact' = {} /\ carry' = BOOLEAN /\ product' = {} /\ fault' = FALSE
        /\ shifted' = {[op |-> op, r |-> r, n |-> n, size |-> "dword", src |-> src, from |-> regs]}

(* A double shift writes just that.                                        *)
LEMMA DoubleWrites ==
    ASSUME TypeOK, NEW op \in {"SHLD", "SHRD"}, NEW r \in Reg, NEW src \in Word, NEW count \in Immediates,
           DoubleShift(op, r, src, count), Masked(count, "dword") # 0
    PROVE  DoubleWritten(op, r, src, count)
  <1> DEFINE n == Masked(count, "dword")
             x == IF op = "SHLD" THEN SHLD(regs[r], src, n) ELSE SHRD(regs[r], src, n)
  <1>0. /\ n = Masked(count, "dword") /\ n # 0
        /\ x = IF op = "SHLD" THEN SHLD(regs[r], src, n) ELSE SHRD(regs[r], src, n)
    OBVIOUS
  <1> HIDE DEF n, x
  <1>1. WideBits \in Nat \ {0, 1} /\ Pow2(WideBits) = 2 * Half /\ Word = 0..(Pow2(WideBits) - 1) /\ Half \in Nat \ {0, 1}
        /\ H("wide") = Half
    BY ShiftSizes, WidthTyped
  <1>2. n \in 1..(WideBits - 1)
    <2>1. count \in Nat
      BY ShiftsAssumption
    <2> QED BY <1>0, <2>1, <1>1 DEF Masked
  <1>3. regs[r] \in Word
    BY DEF TypeOK
  <1>4. /\ regs' = Put(r, x.r, "wide") /\ EFLAGS' = setShiftFlagsN(x, Half)
        /\ exact' = {} /\ carry' = BOOLEAN /\ product' = {} /\ fault' = FALSE
        /\ shifted' = {[op |-> op, r |-> r, n |-> n, size |-> "dword", src |-> src, from |-> regs]}
    BY <1>0, Zenon DEF DoubleShift, Runs
  <1>5. x.cf \in BOOLEAN
    BY <1>0, ShiftFlags, SMTT(20), SMTT(30), Zenon
  <1>6. x.r \in Word /\ x.r = Joined(op, regs[r], src, n).r /\ x.cf = Joined(op, regs[r], src, n).cf
    <2> DEFINE v == regs[r]
    <2>1. v \in 0..(Pow2(WideBits) - 1) /\ src \in 0..(Pow2(WideBits) - 1)
      BY <1>1, <1>3
    <2> HIDE DEF v
    <2>2. /\ Left(v, n, WideBits) + Right(src, WideBits - n)
             = (((v * Pow2(WideBits) + src) * Pow2(n)) \div Pow2(WideBits)) % Pow2(WideBits)
          /\ Left(v, n, WideBits) + Right(src, WideBits - n) \in 0..(Pow2(WideBits) - 1)
          /\ Right(v, n) + Left(src, WideBits - n, WideBits)
             = ((src * Pow2(WideBits) + v) \div Pow2(n)) % Pow2(WideBits)
          /\ Right(v, n) + Left(src, WideBits - n, WideBits) \in 0..(Pow2(WideBits) - 1)
      BY <1>1, <1>2, <2>1, DoubleIsJoined, ZenonT(60)
    <2>3. CASE op = "SHLD"
      <3>1. /\ x.r = Left(v, n, WideBits) + Right(src, WideBits - n) /\ x.cf = Bit(v, WideBits - n)
            /\ Joined(op, v, src, n).cf = Bit(v, WideBits - n)
            /\ Joined(op, v, src, n).r = (((v * Pow2(WideBits) + src) * Pow2(n)) \div Pow2(WideBits)) % Pow2(WideBits)
        BY <1>0, <2>3, SMTT(20), SMTT(30), Zenon DEF SHLD, Joined, v
      <3> QED BY <3>1, <2>2, <1>1, SMTT(20), SMTT(30), Zenon DEF v
    <2>4. CASE op = "SHRD"
      <3>1. /\ x.r = Right(v, n) + Left(src, WideBits - n, WideBits) /\ x.cf = Bit(v, n - 1)
            /\ Joined(op, v, src, n).cf = Bit(v, n - 1)
            /\ Joined(op, v, src, n).r = ((src * Pow2(WideBits) + v) \div Pow2(n)) % Pow2(WideBits)
        BY <1>0, <2>4 DEF SHRD, Joined, v
      <3> QED BY <3>1, <2>2, <1>1, SMTT(20), SMTT(30), Zenon DEF v
    <2> QED BY <2>3, <2>4
  <1>7. regs' = [regs EXCEPT ![r] = x.r]
    <2> DEFINE old == regs[r]
               y == x.r
    <2>1. old % (2 * Half) = old /\ y % (2 * Half) = y /\ (old - old) + y = y
      <3> HIDE DEF old, y
      <3>1. old \in 0..(2 * Half - 1) /\ y \in 0..(2 * Half - 1)
        BY <1>1, <1>3, <1>6 DEF old, y
      <3> QED BY <1>1, <3>1, SMTT(20), SMTT(30), Zenon
    <2>2. regs' = [regs EXCEPT ![r] = (old - (old % (2 * Half))) + (y % (2 * Half))]
      BY <1>1, <1>4, Zenon DEF Put
    <2> QED BY <2>1, <2>2, Zenon
  <1> QED BY <1>4, <1>5, <1>6, <1>7, Zenon DEF DoubleWritten, n, x

(* A shift or bit instruction keeps the types; it tells of no result, or   *)
(* leaves every flag but the carry as it is; and it makes no claim about   *)
(* the carry, or keeps the one it makes.                                   *)
LEMMA ShiftKeeps ==
    ASSUME TypeOK, ShiftStep
    PROVE  /\ TypeOK'
           /\ exact' = {} \/ (exact' = exact /\ \A f : f # "CF" => (f \in EFLAGS' <=> f \in EFLAGS))
           /\ \/ carry' = BOOLEAN
              \/ \E c \in BOOLEAN : carry' = {c} /\ ("CF" \in EFLAGS' <=> c)
              \/ carry' = carry /\ ("CF" \in EFLAGS' <=> "CF" \in EFLAGS)
           /\ product' = {} \/ UNCHANGED <<regs, product>>
  <1>1. ASSUME UNCHANGED <<regs, EFLAGS, exact, carry, product>>, fault' = FALSE
        PROVE  /\ TypeOK' /\ exact' = exact /\ EFLAGS' = EFLAGS /\ carry' = carry /\ UNCHANGED <<regs, product>>
    BY <1>1, ZenonT(40) DEF TypeOK
  <1>2. ASSUME regs' \in [Reg -> Word], EFLAGS' \in SUBSET Flag, exact' \in SUBSET exact, carry' \in SUBSET BOOLEAN,
               product' = {}, fault' = FALSE
        PROVE  TypeOK'
    BY <1>2, ZenonT(40) DEF TypeOK
  <1>3. ASSUME NEW op \in Op, NEW r \in Reg, NEW count \in Immediates, NEW size \in ShiftSize, Shift(op, r, count, size)
        PROVE  \/ UNCHANGED <<regs, EFLAGS, exact, carry, product>> /\ fault' = FALSE
               \/ TypeOK' /\ exact' = {} /\ carry' = BOOLEAN /\ product' = {}
    <2> DEFINE n == Masked(count, size)
               m == Pow2(Bits(size))
               old == regs[r] % m
               x == Apply(op, old, n, Bits(size))
    <2>0. n = Masked(count, size) /\ m = Pow2(Bits(size)) /\ old = regs[r] % m /\ x = Apply(op, old, n, Bits(size))
      OBVIOUS
    <2>1. CASE n = 0
      BY <1>3, <2>1, Zenon DEF Shift, Runs
    <2>2. CASE n # 0
      <3>1. /\ x.r \in 0..(m - 1)
            /\ regs' = Put(r, x.r, Width(size)) /\ EFLAGS' = setShiftFlagsN(x, H(Width(size)))
            /\ exact' = {} /\ carry' = BOOLEAN /\ product' = {} /\ fault' = FALSE
        <4>1. ShiftWritten(op, r, count, size)
          BY <1>3, <2>2, ShiftWrites
        <4> QED BY <4>1, Zenon DEF ShiftWritten
      <3> HIDE DEF n, m, old, x
      <3>2. x.r \in Int
        BY <3>1
      <3>3. regs' \in [Reg -> Word]
        BY <3>1, <3>2, PutTyped, SMTT(20), SMTT(30), Zenon
      <3>4. EFLAGS' \in SUBSET Flag
        BY <3>1, ShiftFlags
      <3> QED BY <1>2, <3>1, <3>3, <3>4, ZenonT(40)
    <2> QED BY <2>1, <2>2, Zenon
  <1>4. ASSUME NEW op \in {"SHLD", "SHRD"}, NEW r \in Reg, NEW s \in Reg, NEW count \in Immediates,
               DoubleShift(op, r, regs[s], count)
        PROVE  \/ UNCHANGED <<regs, EFLAGS, exact, carry, product>> /\ fault' = FALSE
               \/ TypeOK' /\ exact' = {} /\ carry' = BOOLEAN /\ product' = {}
    <2> DEFINE n == Masked(count, "dword")
               x == IF op = "SHLD" THEN SHLD(regs[r], regs[s], n) ELSE SHRD(regs[r], regs[s], n)
    <2>0. /\ n = Masked(count, "dword")
          /\ x = IF op = "SHLD" THEN SHLD(regs[r], regs[s], n) ELSE SHRD(regs[r], regs[s], n)
      OBVIOUS
    <2>1. CASE n = 0
      BY <1>4, <2>1, Zenon DEF DoubleShift, Runs
    <2>2. CASE n # 0
      <3>0. regs[s] \in Word
        BY DEF TypeOK
      <3>1. /\ x.r \in Word /\ regs' = Put(r, x.r, "wide") /\ EFLAGS' = setShiftFlagsN(x, Half)
            /\ exact' = {} /\ carry' = BOOLEAN /\ product' = {} /\ fault' = FALSE
        <4>1. DoubleWritten(op, r, regs[s], count)
          BY <1>4, <2>2, <3>0, DoubleWrites
        <4> QED BY <4>1, Zenon DEF DoubleWritten
      <3> HIDE DEF n, x
      <3>2. x.r \in Int
        BY <3>1 DEF Word
      <3>3. regs' \in [Reg -> Word]
        BY <3>1, <3>2, PutTyped, SMTT(20), SMTT(30), Zenon
      <3>4. EFLAGS' \in SUBSET Flag
        BY <3>1, ShiftFlags
      <3> QED BY <1>2, <3>1, <3>3, <3>4, ZenonT(40)
    <2> QED BY <2>1, <2>2, Zenon
  <1>5. ASSUME NEW r \in Reg, NEW imm \in Immediates, BitTest(r, imm)
        PROVE  /\ TypeOK' /\ exact' = exact /\ (\A f : f # "CF" => (f \in EFLAGS' <=> f \in EFLAGS)) /\ product' = {}
               /\ \E c \in BOOLEAN : carry' = {c} /\ ("CF" \in EFLAGS' <=> c)
    <2> DEFINE i == imm % WideBits
               b == Bit(regs[r], i)
    <2>0. WideBits \in Nat \ {0, 1} /\ Word = 0..(Pow2(WideBits) - 1) /\ imm \in Nat
      BY ShiftSizes, ShiftsAssumption
    <2>1. i \in 0..(WideBits - 1) /\ regs[r] \in Word /\ b \in BOOLEAN
      BY <2>0 DEF TypeOK, Bit
    <2>2. /\ EFLAGS' = (EFLAGS \ {"CF"}) \cup On("CF", b) /\ carry' = {b}
          /\ regs' \in {regs, [regs EXCEPT ![r] = IF b THEN regs[r] ELSE regs[r] + Pow2(i)],
                        [regs EXCEPT ![r] = IF b THEN regs[r] - Pow2(i) ELSE regs[r]],
                        [regs EXCEPT ![r] = IF b THEN regs[r] - Pow2(i) ELSE regs[r] + Pow2(i)]}
          /\ product' = {} /\ exact' = exact /\ fault' = FALSE
      BY <1>5, Zenon DEF BitTest, Runs
    <2>3. (b => regs[r] - Pow2(i) \in Word) /\ (~b => regs[r] + Pow2(i) \in Word)
      <3> HIDE DEF i
      <3> QED BY <2>0, <2>1, BitSwitched, SMTT(20), SMTT(30), Zenon
    <2> HIDE DEF b, i
    <2>4. regs' \in [Reg -> Word]
      <3>1. regs \in [Reg -> Word]
        BY SMTT(20), SMTT(30), Zenon DEF TypeOK
      <3> QED BY <2>1, <2>2, <2>3, <3>1
    <2>5. /\ EFLAGS' \in SUBSET Flag /\ ("CF" \in EFLAGS' <=> b)
          /\ \A f : f # "CF" => (f \in EFLAGS' <=> f \in EFLAGS)
      BY <2>1, <2>2 DEF TypeOK, On, Flag
    <2> QED BY <1>2, <2>1, <2>2, <2>4, <2>5, ZenonT(40)
  <1>6. ASSUME NEW r \in Reg, NEW s \in Reg, BitScan(r, regs[s])
        PROVE  TypeOK' /\ exact' = {} /\ product' = {} /\ carry' = carry /\ ("CF" \in EFLAGS' <=> "CF" \in EFLAGS)
    <2> DEFINE found == {i \in 0..(WideBits - 1) : Bit(regs[s], i)}
    <2>1. /\ EFLAGS' = IF found = {} THEN EFLAGS \cup {"ZF"} ELSE EFLAGS \ {"ZF"}
          /\ regs' = regs \/ \E i \in found : regs' = [regs EXCEPT ![r] = i]
          /\ exact' = {} /\ product' = {} /\ carry' = carry /\ fault' = FALSE
      BY <1>6 DEF BitScan, Runs
    <2>2. \A i \in found : i \in Word
      <3>1. WideBits \in Nat /\ WideBits < Pow2(WideBits) /\ Word = 0..(Pow2(WideBits) - 1) /\ Pow2(WideBits) \in Nat
        BY ShiftSizes, Pow2Exceeds, Pow2Positive
      <3> QED BY <3>1
    <2> HIDE DEF found
    <2>3. regs' \in [Reg -> Word] /\ EFLAGS' \in SUBSET Flag /\ ("CF" \in EFLAGS' <=> "CF" \in EFLAGS)
      BY <2>1, <2>2 DEF TypeOK, Flag
    <2>4. carry' \in SUBSET BOOLEAN /\ exact' \in SUBSET exact
      BY <2>1 DEF TypeOK
    <2> QED BY <1>2, <2>1, <2>3, <2>4, ZenonT(40)
  <1> QED BY <1>1, <1>3, <1>4, <1>5, <1>6, Zenon DEF ShiftStep, ShiftGroup

(* The invariant that a shift leaves behind, kept by every instruction.    *)
LEMMA ShiftRepeats ==
    ASSUME TypeOK, ShiftIsRepeated, [CpuNext]_<<vars, shifted>>
    PROVE  ShiftIsRepeated'
  <1>1. ASSUME shifted' = {} PROVE ShiftIsRepeated'
    BY <1>1, SMTT(20), SMTT(30), Zenon DEF ShiftIsRepeated
  <1>2. ASSUME UNCHANGED <<regs, EFLAGS, shifted>> PROVE ShiftIsRepeated'
    BY <1>2, SMTT(20), SMTT(30), Zenon DEF ShiftIsRepeated
  <1>3. ASSUME NEW op \in Op, NEW r \in Reg, NEW count \in Immediates, NEW size \in ShiftSize, Shift(op, r, count, size)
        PROVE  ShiftIsRepeated'
    <2> DEFINE n == Masked(count, size)
               b == Bits(size)
               m == Pow2(b)
               old == regs[r] % m
               x == Apply(op, old, n, b)
               y == Repeat(op, old, n, b)
    <2>0. n = Masked(count, size) /\ m = Pow2(Bits(size)) /\ old = regs[r] % m /\ x = Apply(op, old, n, Bits(size))
      OBVIOUS
    <2>1. CASE n = 0
      BY <1>2, <1>3, <2>1, Zenon DEF Shift
    <2>2. CASE n # 0
      <3>1. /\ n \in Nat \ {0} /\ old \in 0..(m - 1) /\ x.cf \in BOOLEAN
            /\ regs' = [regs EXCEPT ![r] = (@ - old) + x.r] /\ EFLAGS' = setShiftFlagsN(x, H(Width(size)))
            /\ shifted' = {[op |-> op, r |-> r, n |-> n, size |-> size, src |-> 0, from |-> regs]}
        <4>1. ShiftWritten(op, r, count, size)
          BY <1>3, <2>2, ShiftWrites, SMTT(20), SMTT(30), Zenon
        <4> QED BY <4>1, Zenon DEF ShiftWritten
      <3> HIDE DEF n, m, x, y, old
      <3>2. b \in Nat \ {0, 1} /\ old \in 0..(Pow2(b) - 1)
        BY <3>1, ShiftSizes, SMTT(20), SMTT(30), Zenon DEF m
      <3> HIDE DEF b
      <3>3. y.r = x.r /\ (CarryDefined(op, n, b) => y.cf = x.cf)
        BY <3>1, <3>2, RepeatIsApply, SMTT(20), SMTT(30), Zenon DEF x, y
      <3>4. "CF" \in EFLAGS' <=> x.cf
        BY <3>1, ShiftFlags
      <3>5. regs' = [regs EXCEPT ![r] = (@ - old) + y.r]
        BY <3>1, <3>3, SMTT(20), SMTT(30), Zenon
      <3>6. n < b \/ op \notin {"SHL", "SHR"} => (("CF" \in EFLAGS') = y.cf)
        BY <3>1, <3>3, <3>4 DEF CarryDefined
      <3>7. SUFFICES ASSUME NEW z \in shifted'
                     PROVE  LET bits == Bits(z.size)
                                o == z.from[z.r] % Pow2(bits)
                                w == IF z.op \in Op THEN Repeat(z.op, o, z.n, bits) ELSE Joined(z.op, o, z.src, z.n)
                            IN  /\ regs' = [z.from EXCEPT ![z.r] = (@ - o) + w.r]
                                /\ z.n < bits \/ z.op \notin {"SHL", "SHR"} => (("CF" \in EFLAGS') = w.cf)
        BY ZenonT(40) DEF ShiftIsRepeated
      <3>8. z.op = op /\ z.r = r /\ z.n = n /\ z.size = size /\ z.from = regs
        BY <3>1
      <3> QED BY <3>5, <3>6, <3>8, Zenon DEF y, old, m, b
    <2> QED BY <2>1, <2>2, Zenon
  <1>4. ASSUME NEW op \in {"SHLD", "SHRD"}, NEW r \in Reg, NEW s \in Reg, NEW count \in Immediates,
               DoubleShift(op, r, regs[s], count)
        PROVE  ShiftIsRepeated'
    <2> DEFINE n == Masked(count, "dword")
               x == IF op = "SHLD" THEN SHLD(regs[r], regs[s], n) ELSE SHRD(regs[r], regs[s], n)
               old == regs[r] % Pow2(WideBits)
               y == Joined(op, old, regs[s], n)
    <2>0. /\ n = Masked(count, "dword")
          /\ x = IF op = "SHLD" THEN SHLD(regs[r], regs[s], n) ELSE SHRD(regs[r], regs[s], n)
      OBVIOUS
    <2>1. CASE n = 0
      BY <1>2, <1>4, <2>1, Zenon DEF DoubleShift
    <2>2. CASE n # 0
      <3>0. regs[s] \in Word /\ regs[r] \in Word /\ Word = 0..(Pow2(WideBits) - 1) /\ Pow2(WideBits) \in Nat \ {0}
        BY ShiftSizes, Pow2Positive DEF TypeOK
      <3>1. /\ x.cf \in BOOLEAN /\ x.r \in Word
            /\ regs' = [regs EXCEPT ![r] = x.r] /\ EFLAGS' = setShiftFlagsN(x, Half)
            /\ x.r = Joined(op, regs[r], regs[s], n).r /\ x.cf = Joined(op, regs[r], regs[s], n).cf
            /\ shifted' = {[op |-> op, r |-> r, n |-> n, size |-> "dword", src |-> regs[s], from |-> regs]}
        <4>1. DoubleWritten(op, r, regs[s], count)
          BY <1>4, <2>2, <3>0, DoubleWrites
        <4> QED BY <4>1, Zenon DEF DoubleWritten
      <3> HIDE DEF n, x
      <3>2. old = regs[r]
        BY <3>0, SMTT(20), SMTT(30), Zenon
      <3>3. y.r = x.r /\ y.cf = x.cf
        BY <3>1, <3>2
      <3> HIDE DEF y, old
      <3>4. "CF" \in EFLAGS' <=> x.cf
        BY <3>1, ShiftFlags, ZenonT(40)
      <3>5. regs' = [regs EXCEPT ![r] = (@ - old) + y.r]
        <4>1. (regs[r] - old) + y.r = x.r
          <5>1. x.r \in Word /\ y.r = x.r
            BY <3>1, <3>3, Zenon
          <5> QED BY <3>0, <3>2, <5>1
        <4> QED BY <3>1, <4>1, Zenon
      <3>6. ("CF" \in EFLAGS') = y.cf
        <4>1. x.cf \in BOOLEAN /\ y.cf = x.cf
          BY <3>1, <3>3, Zenon
        <4> QED BY <3>4, <4>1
      <3>7. SUFFICES ASSUME NEW z \in shifted'
                     PROVE  LET bits == Bits(z.size)
                                o == z.from[z.r] % Pow2(bits)
                                w == IF z.op \in Op THEN Repeat(z.op, o, z.n, bits) ELSE Joined(z.op, o, z.src, z.n)
                            IN  /\ regs' = [z.from EXCEPT ![z.r] = (@ - o) + w.r]
                                /\ z.n < bits \/ z.op \notin {"SHL", "SHR"} => (("CF" \in EFLAGS') = w.cf)
        BY ZenonT(40) DEF ShiftIsRepeated
      <3>8. z.op = op /\ z.r = r /\ z.n = n /\ z.size = "dword" /\ z.from = regs /\ z.src = regs[s]
        BY <3>1, SMTT(20), SMTT(30), Zenon
      <3>9. op \notin Op /\ Bits("dword") = WideBits
        BY DEF Op, Bits
      <3> QED BY <3>5, <3>6, <3>8, <3>9, Zenon DEF y, old
    <2> QED BY <2>1, <2>2, Zenon
  <1>5. ASSUME NEW r \in Reg, NEW imm, BitTest(r, imm) PROVE ShiftIsRepeated'
    BY <1>1, <1>5, Zenon DEF BitTest
  <1>6. ASSUME NEW r \in Reg, NEW v, BitScan(r, v) PROVE ShiftIsRepeated'
    BY <1>1, <1>6, Zenon DEF BitScan
  <1>7. CASE UNCHANGED <<vars, shifted>>
    BY <1>2, <1>7, Zenon DEF vars
  <1> QED BY <1>1, <1>3, <1>4, <1>5, <1>6, <1>7, ZenonT(60) DEF CpuNext, ShiftGroup

-----------------------------------------------------------------------------
(* Every step of the integer unit is one of module Alu's or a shift or bit *)
(* instruction.                                                            *)
LEMMA CpuStep == [CpuNext]_<<vars, shifted>> => [Next]_vars \/ ShiftStep
  BY Zenon DEF CpuNext, ShiftStep

(* Every step keeps the types.                                             *)
LEMMA CpuTypeStep == TypeOK /\ [CpuNext]_<<vars, shifted>> => TypeOK'
  BY CpuStep, TypeStep, ShiftKeeps, Zenon

(* TypeOK of module Alu holds in every reachable state, at every width.    *)
THEOREM AluTypes == CpuSpec => []TypeOK
  <1>1. CpuInit => TypeOK
    <2>1. 0 \in Word
      BY AluAssumption DEF Word
    <2> QED BY <2>1, Zenon DEF CpuInit, Init, TypeOK
  <1> QED BY <1>1, CpuTypeStep, PTL DEF CpuSpec

(* ShiftIsRepeated of module Shifts, at every width, for every value in    *)
(* the registers and every count: a shift or rotate by n leaves the result *)
(* and the defined carry of n instructions by one, SHLD and SHRD shift     *)
(* their operands as one number, and nothing else is written.              *)
THEOREM ShiftsRepeat == CpuSpec => []ShiftIsRepeated
  <1>1. CpuInit => ShiftIsRepeated
    BY DEF CpuInit, ShiftIsRepeated
  <1>2. TypeOK /\ ShiftIsRepeated /\ [CpuNext]_<<vars, shifted>> => ShiftIsRepeated'
    BY ShiftRepeats, Zenon
  <1> QED BY <1>1, <1>2, AluTypes, PTL DEF CpuSpec

-----------------------------------------------------------------------------
(* The inductive invariant behind ConditionsTellResult: the flags agree    *)
(* with the exact result, flag by flag.                                    *)
ExactAgrees == \A e \in exact : Agree(EFLAGS, e.s, e.h)

(* Every instruction leaves flags that agree with what it established.     *)
LEMMA AgreeStep ==
    ASSUME "sbb" \in Excused
    PROVE  TypeOK /\ ExactAgrees /\ [Next]_vars => ExactAgrees'
  <1> SUFFICES ASSUME TypeOK, ExactAgrees, [Next]_vars PROVE ExactAgrees'
    OBVIOUS
  <1>c. Carry \in {0, 1}
    BY DEF Carry
  <1>t. ASSUME NEW s, NEW h, exact' = {[s |-> s, h |-> h]}, Agree(EFLAGS', s, h)
        PROVE  ExactAgrees'
    BY <1>t DEF ExactAgrees
  <1>1. ASSUME NEW r \in Reg, NEW size \in Sizes, NEW b \in Operand(H(size)),
               Add(r, b, size) \/ Adc(r, b, size) \/ Sub(r, b, size) \/ Sbb(r, b, size)
                 \/ Logic(r, b, size) \/ Mov(r, b, size)
        PROVE  ExactAgrees'
    <2> DEFINE h == H(size)
               a == Value(r, size)
    <2>1. h \in Nat \ {0} /\ a \in Operand(h) /\ b \in Operand(h)
      BY WidthTyped, ValueTyped
    <2>i. a \in Int /\ b \in Int /\ a + b + 0 = a + b
      BY <2>1 DEF Operand
    <2>s. Signed(a, h) + Signed(b, h) + 0 = Signed(a, h) + Signed(b, h)
      BY <2>i, <2>1, SignedTyped
    <2>2. CASE Add(r, b, size)
      <3>1. EFLAGS' = setADCFlagsN(a, b, 0, h)
        <4>1. CASE size = "wide"
          BY <4>1, <2>2, <2>1, AddIsAdc, WidthTyped, SMTT(20), SMTT(30), Zenon DEF Add
        <4>2. CASE size # "wide"
          BY <4>2, <2>2 DEF Add, setAddFlagsN
        <4> QED BY <4>1, <4>2, SMTT(20), SMTT(30), Zenon
      <3>2. exact' = {[s |-> Signed(a, h) + Signed(b, h), h |-> h]}
        BY <2>2 DEF Add, Tells
      <3> HIDE DEF h, a
      <3>3. Agree(EFLAGS', Signed(a, h) + Signed(b, h), h)
        BY <3>1, <2>1, <2>s, AdcAgrees, 0 \in {0, 1}
      <3> QED BY <3>2, <3>3, <1>t
    <2>3. CASE Adc(r, b, size)
      <3>1. /\ EFLAGS' = setADCFlagsN(a, b, Carry, h)
            /\ exact' = {[s |-> Signed(a, h) + Signed(b, h) + Carry, h |-> h]}
        BY <2>3 DEF Adc, Tells
      <3> HIDE DEF h, a
      <3>2. Agree(EFLAGS', Signed(a, h) + Signed(b, h) + Carry, h)
        BY <3>1, <2>1, <1>c, AdcAgrees, Zenon
      <3> QED BY <3>1, <3>2, <1>t, SMTT(20), SMTT(30), Zenon
    <2>4. CASE Sub(r, b, size)
      <3>1. /\ EFLAGS' = setSubFlagsN(a, b, (a - b) % (2 * h), h)
            /\ exact' = {[s |-> Signed(a, h) - Signed(b, h), h |-> h]}
        BY <2>4, SMTT(20), SMTT(30), Zenon DEF Sub, Tells
      <3> HIDE DEF h, a
      <3>2. Agree(EFLAGS', Signed(a, h) - Signed(b, h), h)
        BY <3>1, <2>1, SubAgrees
      <3> QED BY <3>1, <3>2, <1>t, SMTT(20), SMTT(30), Zenon
    <2>5. CASE Sbb(r, b, size)
      <3>1. /\ EFLAGS' = setSBBFlagsN(a, b, Carry, (a - b - Carry) % (2 * h), h)
            /\ exact' = IF b + Carry \in {h, 2 * h} THEN {}
                        ELSE {[s |-> Signed(a, h) - Signed(b, h) - Carry, h |-> h]}
        BY <2>5 DEF Sbb
      <3>2. h <= Half /\ Half \in Nat
        BY OperandFits, WidthTyped
      <3> HIDE DEF h, a
      <3>3. CASE b + Carry \in {h, 2 * h}
        BY <3>1, <3>3, SMTT(20), SMTT(30), Zenon DEF ExactAgrees
      <3>4. CASE b + Carry \notin {h, 2 * h}
        <4>1. Agree(EFLAGS', Signed(a, h) - Signed(b, h) - Carry, h)
          BY <3>1, <3>2, <3>4, <2>1, <1>c, SbbAgrees, SMTT(20), SMTT(30), Zenon
        <4> QED BY <3>1, <3>4, <4>1, <1>t, SMTT(20), SMTT(30), Zenon
      <3> QED BY <3>3, <3>4, SMTT(20), SMTT(30), Zenon
    <2>6. CASE Logic(r, b, size)
      <3>1. PICK res \in {BitAnd(a, b), BitOr(a, b), BitXor(a, b)} :
              /\ EFLAGS' = setLogicFlagsN(res % (2 * h), h)
              /\ exact' = {[s |-> Signed(res % (2 * h), h), h |-> h]}
        BY <2>6 DEF Logic, Tells
      <3>2. a \in Word /\ b \in Word
        BY <2>1, OperandFits
      <3> HIDE DEF h, a
      <3>3. res \in Int
        <4>1. res \in Word
          BY <3>1, <3>2, AluAssumption
        <4> QED BY <4>1, WidthTyped, SMTT(20), SMTT(30), Zenon DEF Word
      <3>4. res % (2 * h) \in Operand(h)
        BY <3>3, <2>1, ModRange, 2 * h \in Nat \ {0} DEF Operand
      <3>5. Agree(EFLAGS', Signed(res % (2 * h), h), h)
        BY <3>1, <3>4, <2>1, LogicAgrees
      <3> QED BY <3>1, <3>5, <1>t, SMTT(20), SMTT(30), Zenon
    <2>7. CASE Mov(r, b, size)
      BY <2>7 DEF Mov, ExactAgrees
    <2> QED BY <1>1, <2>2, <2>3, <2>4, <2>5, <2>6, <2>7, SMTT(20), SMTT(30), Zenon
  <1>2. ASSUME NEW r \in Reg, NEW size \in Sizes, Neg(r, size)
        PROVE  ExactAgrees'
    <2> DEFINE h == H(size)
               a == Value(r, size)
    <2>1. h \in Nat \ {0} /\ a \in Operand(h) /\ 0 \in Operand(h)
      BY WidthTyped, ValueTyped, SMTT(20), SMTT(30), Zenon DEF Operand
    <2>2. /\ EFLAGS' = setSubFlagsN(0, a, (0 - a) % (2 * h), h)
          /\ exact' = {[s |-> 0 - Signed(a, h), h |-> h]}
      BY <1>2 DEF Neg, Tells
    <2> HIDE DEF h, a
    <2>3. Signed(0, h) = 0
      BY <2>1, SMTT(20), SMTT(30), Zenon DEF Signed
    <2>4. Agree(EFLAGS', 0 - Signed(a, h), h)
      BY <2>1, <2>2, <2>3, SubAgrees, SMTT(20), SMTT(30), Zenon
    <2> QED BY <2>2, <2>4, <1>t
  <1>s. ASSUME NEW h \in Nat \ {0, 1}, NEW a \in Operand(h), NEW d \in {-1, 1}, NEW new,
               new = IF d = 1 THEN setADCFlagsN(a, 1, 0, h)
                     ELSE setSubFlagsN(a, 1, (a + d) % (2 * h), h)
        PROVE  Agree(new, Signed(a, h) + d, h)
    <2>1. 1 \in Operand(h) /\ Signed(1, h) = 1 /\ h \in Nat \ {0} /\ a \in Int
      BY DEF Operand, Signed
    <2>2. Signed(a, h) \in Int
      BY <2>1, SignedTyped, SMTT(20), SMTT(30), Zenon
    <2>3. CASE d = 1
      <3>1. Agree(setADCFlagsN(a, 1, 0, h), Signed(a, h) + 1 + 0, h)
        BY <2>1, AdcAgrees, 0 \in {0, 1}
      <3> QED BY <3>1, <2>2, <2>3, <1>s, SMTT(20), SMTT(30), Zenon
    <2>4. CASE d = -1
      <3>1. a + d = a - 1 /\ Signed(a, h) + d = Signed(a, h) - 1
        BY <2>1, <2>2, <2>4
      <3>2. Agree(setSubFlagsN(a, 1, (a - 1) % (2 * h), h), Signed(a, h) - 1, h)
        BY <2>1, SubAgrees
      <3> QED BY <3>1, <3>2, <2>4, <1>s
    <2> QED BY <2>3, <2>4
  <1>3. ASSUME NEW r \in Reg, NEW size \in Sizes, NEW d \in {-1, 1}, IncDec(r, d, size)
        PROVE  ExactAgrees'
    <2> DEFINE h == H(size)
               a == Value(r, size)
               new == IF d = 1 THEN setADCFlagsN(a, 1, 0, h)
                      ELSE setSubFlagsN(a, 1, (a + d) % (2 * h), h)
    <2>1. h \in Nat \ {0, 1} /\ a \in Operand(h)
      BY WidthTyped, ValueTyped, SMTT(20), SMTT(30), Zenon
    <2>2. /\ EFLAGS' = (new \ {"CF"}) \cup (EFLAGS \cap {"CF"})
          /\ exact' = {[s |-> Signed(a, h) + d, h |-> h]}
      BY <1>3 DEF IncDec, setAddFlagsN
    <2> HIDE DEF h, a
    <2>3. Agree(new, Signed(a, h) + d, h)
      BY <2>1, <1>s, Zenon
    <2> HIDE DEF new
    <2>4. Agree(EFLAGS', Signed(a, h) + d, h)
      BY <2>2, <2>3, CarryIsApart, EFLAGS \cap {"CF"} \in SUBSET {"CF"}, Zenon
    <2> QED BY <2>2, <2>4, <1>t
  <1>4. ASSUME NEW r \in Reg, NEW d \in {-1, 1}, IncDecShort(r, d)
        PROVE  ExactAgrees'
    <2> DEFINE a == regs[r]
               new == IF d = 1 THEN setADCFlagsN(a, 1, 0, Half)
                      ELSE setSubFlagsN(a, 1, (a + d) % (2 * Half), Half)
    <2>1. Half \in Nat \ {0, 1} /\ a \in Word /\ a \in Operand(Half) /\ 1 \in Word
      BY WidthTyped, SMTT(20), SMTT(30), Zenon DEF TypeOK, Word
    <2>2. /\ EFLAGS' = (new \ {"CF"}) \cup {}
          /\ exact' = {[s |-> Signed(a, Half) + d, h |-> Half]}
      <3>1. setAddFlags(a, 1, (a + 1) % (2 * Half)) = setADCFlagsN(a, 1, 0, Half)
        BY <2>1, AddIsAdc
      <3> QED BY <3>1, <1>4, SMTT(20), SMTT(30), Zenon DEF IncDecShort
    <2> HIDE DEF a
    <2>3. Agree(new, Signed(a, Half) + d, Half)
      BY <2>1, <1>s, Zenon
    <2> HIDE DEF new
    <2>4. Agree(EFLAGS', Signed(a, Half) + d, Half)
      BY <2>2, <2>3, CarryIsApart, Zenon
    <2> QED BY <2>2, <2>4, <1>t, SMTT(20), SMTT(30), Zenon
  <1>5. ASSUME NEW r \in Reg, NEW v \in Word, Cmpxchg(r, v)
        PROVE  ExactAgrees'
    <2> DEFINE a == regs["eax"]
               dest == regs[r]
               f == setSubFlagsN(a, dest, (a - dest) % (2 * Half), Half)
    <2>1. Half \in Nat \ {0} /\ a \in Operand(Half) /\ dest \in Operand(Half)
      BY WidthTyped, SMTT(20), SMTT(30), Zenon DEF TypeOK, Reg
    <2>2. /\ EFLAGS' = IF a = dest THEN f \cup {"ZF"} ELSE f \ {"ZF"}
          /\ exact' = {[s |-> Signed(a, Half) - Signed(dest, Half), h |-> Half]}
      BY <1>5 DEF Cmpxchg, Tells
    <2> HIDE DEF a, dest
    <2>3. ("ZF" \in f) <=> (a = dest)
      <3>1. ("ZF" \in f) <=> ((a - dest) % (2 * Half) = 0)
        BY SubFlagsByName, SMTT(20), SMTT(30), Zenon
      <3>2. CASE a >= dest
        BY <3>1, <3>2, <2>1, ModIn, 2 * Half \in Nat \ {0}, SMTT(20), SMTT(30), Zenon DEF Operand
      <3>3. CASE a < dest
        BY <3>1, <3>3, <2>1, ModUnder, 2 * Half \in Nat \ {0}, SMTT(20), SMTT(30), Zenon DEF Operand
      <3> QED BY <3>2, <3>3, <2>1, SMTT(20), SMTT(30), Zenon DEF Operand
    <2>4. Agree(f, Signed(a, Half) - Signed(dest, Half), Half)
      BY <2>1, SubAgrees, SMTT(20), SMTT(30), Zenon
    <2> HIDE DEF f
    <2>5. EFLAGS' = f
      BY <2>2, <2>3, SMTT(20), SMTT(30), Zenon
    <2> QED BY <2>2, <2>4, <2>5, <1>t, SMTT(20), SMTT(30), Zenon
  <1>6. ASSUME exact' = {} PROVE ExactAgrees'
    BY <1>6 DEF ExactAgrees
  <1>7. CASE UNCHANGED vars
    BY <1>7 DEF vars, ExactAgrees
  <1> QED BY <1>1, <1>2, <1>3, <1>4, <1>5, <1>6, <1>7, Zenon DEF Next, AluGroup, Imul, Mul, Div

(* ConditionsTellResult of module Alu, at every width and for every        *)
(* sequence of its instructions; after SBB unless b + borrow reaches the   *)
(* sign bit or wraps.                                                      *)
THEOREM JumpsDecideByResult ==
    ASSUME "sbb" \in Excused
    PROVE  CpuSpec => []ConditionsTellResult
  <1>1. CpuInit => ExactAgrees
    BY SMTT(20), SMTT(30), Zenon DEF CpuInit, Init, ExactAgrees
  <1>2. TypeOK /\ ExactAgrees => ConditionsTellResult
    <2> SUFFICES ASSUME TypeOK, ExactAgrees, NEW e \in exact
                 PROVE  /\ condition("E") <=> e.s % (2 * e.h) = 0
                        /\ condition("O") <=> e.s \notin (0 - e.h)..(e.h - 1)
                        /\ condition("L") <=> e.s < 0
                        /\ condition("GE") <=> e.s >= 0
                        /\ condition("G") <=> e.s >= 0 /\ e.s % (2 * e.h) # 0
                        /\ condition("LE") <=> e.s < 0 \/ e.s % (2 * e.h) = 0
      BY DEF ConditionsTellResult
    <2>1. e.s \in Int /\ e.h \in Int
      BY AluAssumption DEF TypeOK
    <2>2. /\ ("ZF" \in EFLAGS) <=> (e.s % (2 * e.h) = 0)
          /\ ("OF" \in EFLAGS) <=> (e.s < 0 - e.h \/ e.s >= e.h)
          /\ (("SF" \in EFLAGS) # ("OF" \in EFLAGS)) <=> (e.s < 0)
      BY DEF ExactAgrees, Agree
    <2>3. /\ condition("E") <=> "ZF" \in EFLAGS
          /\ condition("O") <=> "OF" \in EFLAGS
          /\ condition("L") <=> ("SF" \in EFLAGS) # ("OF" \in EFLAGS)
          /\ condition("GE") <=> ("SF" \in EFLAGS) = ("OF" \in EFLAGS)
          /\ condition("G") <=> "ZF" \notin EFLAGS /\ ("SF" \in EFLAGS) = ("OF" \in EFLAGS)
          /\ condition("LE") <=> "ZF" \in EFLAGS \/ ("SF" \in EFLAGS) # ("OF" \in EFLAGS)
      BY DEF condition, Holds
    <2>4. (e.s \notin (0 - e.h)..(e.h - 1)) <=> (e.s < 0 - e.h \/ e.s >= e.h)
      BY <2>1
    <2>5. (e.s >= 0) <=> ~(e.s < 0)
      BY <2>1
    <2> QED BY <2>2, <2>3, <2>4, <2>5, SMTT(20), SMTT(30), Zenon
  <1>3. ASSUME TypeOK, ExactAgrees, ShiftStep PROVE ExactAgrees'
    <2>1. exact' = {} \/ (exact' = exact /\ \A f : f # "CF" => (f \in EFLAGS' <=> f \in EFLAGS))
      BY <1>3, ShiftKeeps, Zenon
    <2>2. CASE exact' = {}
      BY <2>2 DEF ExactAgrees
    <2>3. CASE exact' = exact /\ \A f : f # "CF" => (f \in EFLAGS' <=> f \in EFLAGS)
      <3> SUFFICES ASSUME NEW e \in exact PROVE Agree(EFLAGS', e.s, e.h)
        BY <2>3, Zenon DEF ExactAgrees
      <3>1. Agree(EFLAGS, e.s, e.h)
        BY <1>3 DEF ExactAgrees
      <3>2. /\ "ZF" \in EFLAGS' <=> "ZF" \in EFLAGS
            /\ "SF" \in EFLAGS' <=> "SF" \in EFLAGS
            /\ "OF" \in EFLAGS' <=> "OF" \in EFLAGS
        BY <2>3
      <3> QED BY <3>1, <3>2 DEF Agree
    <2> QED BY <2>1, <2>2, <2>3
  <1>4. TypeOK /\ ExactAgrees /\ [CpuNext]_<<vars, shifted>> => ExactAgrees'
    BY <1>3, CpuStep, AgreeStep, Zenon
  <1> QED BY <1>1, <1>2, <1>4, AluTypes, PTL DEF CpuSpec

-----------------------------------------------------------------------------
(* CarryIsKept of module Alu, at every width: the carry of an ADD or SUB   *)
(* reaches the ADC or SBB that continues it, across any number of INC, DEC *)
(* and MOV.  Excused are only an SBB whose subtrahend wraps, which loses   *)
(* the borrow, and the one-byte INC and DEC, which clear the carry.        *)
THEOREM CarryReachesAdc ==
    ASSUME "sbb" \in Excused, "short" \in Excused
    PROVE  CpuSpec => []CarryIsKept
  <1>1. CpuInit => CarryIsKept
    <2> SUFFICES ASSUME CpuInit PROVE CarryIsKept
      OBVIOUS
    <2>1. ("CF" \in EFLAGS) = FALSE /\ carry = {FALSE}
      BY DEF CpuInit, Init
    <2> QED BY <2>1, Zenon DEF CarryIsKept
  <1>2. TypeOK /\ CarryIsKept /\ [Next]_vars => CarryIsKept'
    <2> SUFFICES ASSUME TypeOK, CarryIsKept, [Next]_vars PROVE CarryIsKept'
      OBVIOUS
    <2>c. Carry \in {0, 1}
      BY DEF Carry
    <2>t. ASSUME NEW c \in BOOLEAN, carry' = {c}, ("CF" \in EFLAGS') <=> c
          PROVE  CarryIsKept'
      BY <2>t DEF CarryIsKept
    <2>f. ASSUME FALSE \in carry', "CF" \notin EFLAGS' PROVE CarryIsKept'
      <3>1. ("CF" \in EFLAGS') = FALSE
        BY <2>f
      <3> QED BY <2>f, <3>1, Zenon DEF CarryIsKept
    <2>b. ASSUME carry' = BOOLEAN PROVE CarryIsKept'
      BY <2>b DEF CarryIsKept
    <2>u. ASSUME carry' = carry, ("CF" \in EFLAGS') <=> ("CF" \in EFLAGS)
          PROVE  CarryIsKept'
      BY <2>u, SMTT(20), SMTT(30), Zenon DEF CarryIsKept
    <2>1. ASSUME NEW r \in Reg, NEW size \in Sizes, NEW b \in Operand(H(size)),
                 Add(r, b, size) \/ Adc(r, b, size) \/ Sub(r, b, size) \/ Sbb(r, b, size)
                   \/ Logic(r, b, size) \/ Mov(r, b, size)
          PROVE  CarryIsKept'
      <3> DEFINE h == H(size)
                 a == Value(r, size)
      <3>1. h \in Nat \ {0} /\ a \in Operand(h) /\ b \in Operand(h) /\ a \in Int /\ b \in Int
        BY WidthTyped, ValueTyped DEF Operand
      <3>2. CASE Add(r, b, size)
        <4>1. EFLAGS' = setADCFlagsN(a, b, 0, h)
          <5>1. CASE size = "wide"
            BY <5>1, <3>2, <3>1, AddIsAdc, WidthTyped, SMTT(20), SMTT(30), Zenon DEF Add
          <5>2. CASE size # "wide"
            BY <5>2, <3>2, SMTT(20), SMTT(30), Zenon DEF Add, setAddFlagsN
          <5> QED BY <5>1, <5>2, SMTT(20), SMTT(30), Zenon
        <4>2. carry' = {a + b >= 2 * h}
          BY <3>2 DEF Add, Tells
        <4> HIDE DEF h, a
        <4>3. ("CF" \in EFLAGS') <=> (a + b + 0 > 2 * h - 1)
          BY <4>1, AdcFlagsByName
        <4>4. (a + b + 0 > 2 * h - 1) <=> (a + b >= 2 * h)
          BY <3>1
        <4> DEFINE c == a + b >= 2 * h
        <4>8. c \in BOOLEAN
          OBVIOUS
        <4>9. carry' = {c} /\ (("CF" \in EFLAGS') <=> c)
          BY <4>2, <4>3, <4>4, SMTT(20), SMTT(30), Zenon
        <4> HIDE DEF c
        <4> QED BY <4>8, <4>9, <2>t
      <3>3. CASE Adc(r, b, size)
        <4>1. EFLAGS' = setADCFlagsN(a, b, Carry, h) /\ carry' = {a + b + Carry >= 2 * h}
          BY <3>3 DEF Adc, Tells
        <4> HIDE DEF h, a
        <4>2. ("CF" \in EFLAGS') <=> (a + b + Carry > 2 * h - 1)
          BY <4>1, AdcFlagsByName
        <4>3. (a + b + Carry > 2 * h - 1) <=> (a + b + Carry >= 2 * h)
          BY <3>1, <2>c
        <4> DEFINE c == a + b + Carry >= 2 * h
        <4>8. c \in BOOLEAN
          OBVIOUS
        <4>9. carry' = {c} /\ (("CF" \in EFLAGS') <=> c)
          BY <4>1, <4>2, <4>3, SMTT(20), SMTT(30), Zenon
        <4> HIDE DEF c
        <4> QED BY <4>8, <4>9, <2>t
      <3>4. CASE Sub(r, b, size)
        <4>1. EFLAGS' = setSubFlagsN(a, b, (a - b) % (2 * h), h) /\ carry' = {a < b}
          BY <3>4 DEF Sub, Tells
        <4> HIDE DEF h, a
        <4>2. ("CF" \in EFLAGS') <=> (a < b)
          BY <4>1, SubFlagsByName
        <4> DEFINE c == a < b
        <4>8. c \in BOOLEAN
          OBVIOUS
        <4>9. carry' = {c} /\ (("CF" \in EFLAGS') <=> c)
          BY <4>1, <4>2
        <4> HIDE DEF c
        <4> QED BY <4>8, <4>9, <2>t
      <3>5. CASE Sbb(r, b, size)
        <4>1. /\ EFLAGS' = setSubFlagsN(a, (b + Carry) % (2 * Half), (a - b - Carry) % (2 * h), h)
              /\ carry' = {a < b + Carry} \cup (IF b + Carry = 2 * Half THEN {FALSE} ELSE {})
          BY <3>5 DEF Sbb, setSBBFlagsN
        <4>2. h <= Half /\ Half \in Nat \ {0}
          BY OperandFits, WidthTyped, SMTT(20), SMTT(30), Zenon
        <4> HIDE DEF h, a
        <4>3. ("CF" \in EFLAGS') <=> (a < (b + Carry) % (2 * Half))
          BY <4>1, SubFlagsByName
        <4>4. CASE b + Carry = 2 * Half
          <5>1. (2 * Half) % (2 * Half) = 0
            BY <4>2, ModOver, 2 * Half \in Nat \ {0}
          <5>2. "CF" \notin EFLAGS'
            BY <4>3, <4>4, <5>1, <3>1 DEF Operand
          <5>3. FALSE \in carry'
            BY <4>1, <4>4
          <5> QED BY <5>2, <5>3, <2>f
        <4>5. CASE b + Carry # 2 * Half
          <5>1. (b + Carry) % (2 * Half) = b + Carry
            <6>1. b + Carry \in 0..(2 * Half - 1) /\ 2 * Half \in Nat \ {0}
              BY <4>5, <4>2, <3>1, <2>c DEF Operand
            <6> QED BY <6>1, ModIn
          <5> DEFINE c == a < b + Carry
          <5>8. c \in BOOLEAN
            OBVIOUS
          <5>9. carry' = {c} /\ (("CF" \in EFLAGS') <=> c)
            BY <4>1, <4>3, <4>5, <5>1
          <5> HIDE DEF c
          <5> QED BY <5>8, <5>9, <2>t
        <4> QED BY <4>4, <4>5, SMTT(20), SMTT(30), Zenon
      <3>6. CASE Logic(r, b, size)
        <4>1. PICK res : EFLAGS' = setLogicFlagsN(res % (2 * h), h) /\ carry' = {FALSE}
          BY <3>6 DEF Logic, Tells
        <4>2. "CF" \notin EFLAGS'
          BY <4>1, LogicFlagsByName
        <4> QED BY <4>1, <4>2, <2>t, Zenon
      <3>7. CASE Mov(r, b, size)
        BY <3>7, <2>u DEF Mov
      <3> QED BY <2>1, <3>2, <3>3, <3>4, <3>5, <3>6, <3>7, SMTT(20), SMTT(30), Zenon
    <2>2. ASSUME NEW r \in Reg, NEW size \in Sizes, Neg(r, size)
          PROVE  CarryIsKept'
      <3> DEFINE h == H(size)
                 a == Value(r, size)
      <3>1. a \in Nat
        BY WidthTyped, ValueTyped, SMTT(20), SMTT(30), Zenon DEF Operand
      <3>2. EFLAGS' = setSubFlagsN(0, a, (0 - a) % (2 * h), h) /\ carry' = {a # 0}
        BY <2>2 DEF Neg, Tells
      <3> HIDE DEF h, a
      <3>3. ("CF" \in EFLAGS') <=> (0 < a)
        BY <3>2, SubFlagsByName
      <3>4. (0 < a) <=> (a # 0)
        BY <3>1, SMTT(20), SMTT(30), Zenon
      <3> QED BY <3>2, <3>3, <3>4, <2>t, Zenon
    <2>3. ASSUME NEW r \in Reg, NEW size \in Sizes, NEW d \in {-1, 1}, IncDec(r, d, size)
          PROVE  CarryIsKept'
      BY <2>3, <2>u DEF IncDec
    <2>4. ASSUME NEW r \in Reg, NEW d \in {-1, 1}, IncDecShort(r, d)
          PROVE  CarryIsKept'
      <3>1. "CF" \notin EFLAGS' /\ FALSE \in carry'
        BY <2>4 DEF IncDecShort
      <3> QED BY <3>1, <2>f
    <2>5. ASSUME NEW r \in Reg, NEW v \in Word, Cmpxchg(r, v)
          PROVE  CarryIsKept'
      <3> DEFINE f == setSubFlagsN(regs["eax"], regs[r], (regs["eax"] - regs[r]) % (2 * Half), Half)
      <3>1. /\ EFLAGS' = IF regs["eax"] = regs[r] THEN f \cup {"ZF"} ELSE f \ {"ZF"}
            /\ carry' = {regs["eax"] < regs[r]}
        BY <2>5 DEF Cmpxchg, Tells
      <3>2. ("CF" \in f) <=> (regs["eax"] < regs[r])
        BY SubFlagsByName
      <3> HIDE DEF f
      <3>3. ("CF" \in EFLAGS') <=> (regs["eax"] < regs[r])
        BY <3>1, <3>2
      <3> DEFINE c == regs["eax"] < regs[r]
      <3>8. c \in BOOLEAN
        OBVIOUS
      <3>9. carry' = {c} /\ (("CF" \in EFLAGS') <=> c)
        BY <3>1, <3>3
      <3> HIDE DEF c
      <3> QED BY <3>8, <3>9, <2>t, SMTT(20), SMTT(30), Zenon
    <2>6. CASE UNCHANGED vars
      BY <2>6, <2>u DEF vars
    <2> QED BY <2>1, <2>2, <2>3, <2>4, <2>5, <2>6, <2>b, ZenonT(60) DEF Next, AluGroup, Imul, Mul, Div
  <1>3. ASSUME TypeOK, CarryIsKept, ShiftStep PROVE CarryIsKept'
    <2>1. \/ carry' = BOOLEAN
          \/ \E c \in BOOLEAN : carry' = {c} /\ ("CF" \in EFLAGS' <=> c)
          \/ carry' = carry /\ ("CF" \in EFLAGS' <=> "CF" \in EFLAGS)
      BY <1>3, ShiftKeeps, Zenon
    <2>2. ASSUME carry' = BOOLEAN PROVE CarryIsKept'
      BY <2>2 DEF CarryIsKept
    <2>3. ASSUME NEW c \in BOOLEAN, carry' = {c}, "CF" \in EFLAGS' <=> c PROVE CarryIsKept'
      BY <2>3 DEF CarryIsKept
    <2>4. ASSUME carry' = carry, "CF" \in EFLAGS' <=> "CF" \in EFLAGS PROVE CarryIsKept'
      BY <1>3, <2>4 DEF CarryIsKept
    <2> QED BY <2>1, <2>2, <2>3, <2>4, Zenon
  <1>4. TypeOK /\ CarryIsKept /\ [CpuNext]_<<vars, shifted>> => CarryIsKept'
    BY <1>2, <1>3, CpuStep, Zenon
  <1> QED BY <1>1, <1>4, AluTypes, PTL DEF CpuSpec

-----------------------------------------------------------------------------
(* The product that MUL leaves in EDX:EAX.                                 *)
Product(p) == (Meaning(p.eax, p.kind, Half) * Meaning(p.factor, p.kind, Half)) % (4 * Half * Half)

HoldsProduct(p) == regs["eax"] = Product(p) % (2 * Half) /\ regs["edx"] = Product(p) \div (2 * Half)

(* The inductive invariant behind DivUndoesMul: as long as product says so *)
(* EDX:EAX holds the product of the two factors.                           *)
ProductHeld == \A p \in product : HoldsProduct(p)

(* Only MUL establishes a product; CMP and TEST keep it, and any other     *)
(* instruction gives it up.                                                *)
LEMMA ProductStep == TypeOK /\ ProductHeld /\ [Next]_vars => ProductHeld'
  <1> SUFFICES ASSUME TypeOK, ProductHeld, [Next]_vars PROVE ProductHeld'
    OBVIOUS
  <1>1. CASE product' = {}
    BY <1>1 DEF ProductHeld
  <1>2. CASE UNCHANGED <<regs, product>>
    BY <1>2 DEF ProductHeld, HoldsProduct
  <1>3. ASSUME NEW kind \in Kind, NEW v \in Word, Mul(kind, v)
        PROVE  ProductHeld'
    <2>0. PICK p : p = [kind |-> kind, eax |-> regs["eax"], factor |-> v]
      BY Zenon
    <2>1. product' = {p} /\ p.kind = kind /\ p.eax = regs["eax"] /\ p.factor = v
      BY <1>3, <2>0 DEF Mul
    <2>2. regs' = [regs EXCEPT !["eax"] = Product(p) % (2 * Half), !["edx"] = Product(p) \div (2 * Half)]
      BY <1>3, <2>1 DEF Mul, Product
    <2>3. HoldsProduct(p)'
      <3>1. Product(p)' = Product(p)
        BY DEF Product
      <3>2. regs'["eax"] = Product(p) % (2 * Half) /\ regs'["edx"] = Product(p) \div (2 * Half)
        BY <2>2 DEF TypeOK, Reg
      <3> QED BY <3>1, <3>2 DEF HoldsProduct
    <2> QED BY <2>1, <2>3 DEF ProductHeld
  <1>4. product' = {} \/ UNCHANGED <<regs, product>> \/ \E kind \in Kind, v \in Word : Mul(kind, v)
    <2>1. ASSUME NEW r, NEW b, NEW size, AluGroup(r, b, size) \/ Mov(r, b, size)
          PROVE  product' = {} \/ UNCHANGED <<regs, product>>
      BY <2>1, Zenon DEF AluGroup, Add, Logic, Adc, Sbb, Sub, Mov
    <2>2. ASSUME NEW r, NEW size, Neg(r, size) \/ (\E d \in {-1, 1} : IncDec(r, d, size)) PROVE product' = {}
      BY <2>2, Zenon DEF Neg, IncDec
    <2>3. ASSUME NEW r, (\E d \in {-1, 1} : IncDecShort(r, d)) \/ (\E v \in Word : Cmpxchg(r, v) \/ Imul(r, v))
          PROVE  product' = {}
      BY <2>3, Zenon DEF IncDecShort, Cmpxchg, Imul
    <2>4. ASSUME NEW kind, NEW v, Div(kind, v) PROVE product' = {}
      BY <2>4, Zenon DEF Div
    <2>5. CASE Next
      BY <2>1, <2>2, <2>3, <2>4, <2>5, Zenon DEF Next
    <2>6. CASE UNCHANGED vars
      BY <2>6, Zenon DEF vars
    <2> QED BY <2>5, <2>6
  <1> QED BY <1>1, <1>2, <1>3, <1>4, Zenon

(* The product of two integers whose size is at most k is at most k * k.   *)
LEMMA ProductBound ==
    ASSUME NEW k \in Nat, NEW x \in (0 - k)..k, NEW y \in (0 - k)..k
    PROVE  x * y \in Int /\ 0 - k * k <= x * y /\ x * y <= k * k
  <1>1. CASE x >= 0 /\ y >= 0
    <2>1. x * y <= k * y /\ k * y <= k * k /\ x * y >= 0
      BY <1>1
    <2> QED BY <2>1
  <1>2. CASE x >= 0 /\ y < 0
    <2>1. x * (0 - y) <= k * (0 - y) /\ k * (0 - y) <= k * k /\ x * (0 - y) >= 0
      BY <1>2
    <2> QED BY <2>1
  <1>3. CASE x < 0 /\ y >= 0
    <2>1. (0 - x) * y <= k * y /\ k * y <= k * k /\ (0 - x) * y >= 0
      BY <1>3
    <2> QED BY <2>1
  <1>4. CASE x < 0 /\ y < 0
    <2>1. (0 - x) * (0 - y) <= k * (0 - y) /\ k * (0 - y) <= k * k /\ (0 - x) * (0 - y) >= 0
      BY <1>4, SMTT(20), SMTT(30), Zenon
    <2> QED BY <2>1
  <1> QED BY <1>1, <1>2, <1>3, <1>4

(* What a register value means, and back.                                  *)
LEMMA MeaningRange ==
    ASSUME NEW kind \in Kind, NEW v \in Word
    PROVE  LET x == Meaning(v, kind, Half)
               low == IF kind = "signed" THEN 0 - Half ELSE 0
           IN  /\ x \in low..(low + 2 * Half - 1)
               /\ x % (2 * Half) = v
               /\ x = 0 <=> v = 0
  <1>1. Half \in Nat \ {0, 1} /\ 2 * Half \in Nat \ {0}
    BY AluAssumption, SMTT(20), SMTT(30), Zenon
  <1>2. CASE kind = "signed" /\ v >= Half
    <2>1. v - 2 * Half \in (0 - 2 * Half)..(-1)
      BY <1>1, <1>2 DEF Word
    <2>2. (v - 2 * Half) % (2 * Half) = v - 2 * Half + 2 * Half
      BY <1>1, <2>1, ModUnder, SMTT(20), SMTT(30), Zenon
    <2> QED BY <1>1, <1>2, <2>2 DEF Meaning, Signed, Word
  <1>3. CASE ~(kind = "signed" /\ v >= Half)
    <2>1. v % (2 * Half) = v
      BY <1>1, ModIn, SMTT(20), SMTT(30), Zenon DEF Word
    <2> QED BY <1>1, <1>3, <2>1 DEF Meaning, Signed, Word
  <1> QED BY <1>2, <1>3

(* The double register means the product of what its factors mean.         *)
LEMMA DoubleMeans ==
    ASSUME NEW kind \in Kind, NEW v \in Word, NEW w \in Word
    PROVE  LET x == Meaning(v, kind, Half)
               y == Meaning(w, kind, Half)
           IN  Meaning((x * y) % (4 * Half * Half), kind, 2 * Half * Half) = x * y
  <1> DEFINE x == Meaning(v, kind, Half)
             y == Meaning(w, kind, Half)
             z == x * y
             s == Half * Half
  <1>1. Half \in Nat \ {0, 1} /\ s \in Nat \ {0} /\ 4 * Half * Half = 4 * s /\ 2 * Half * Half = 2 * s
    BY AluAssumption, SMTT(20), SMTT(30), Zenon
  <1>2. CASE kind = "signed"
    <2>1. x \in (0 - Half)..Half /\ y \in (0 - Half)..Half
      BY <1>1, <1>2, MeaningRange, SMTT(20), SMTT(30), Zenon
    <2>2. z \in Int /\ 0 - s <= z /\ z <= s
      BY <1>1, <2>1, ProductBound
    <2> HIDE DEF x, y, z, s
    <2>3. z % (4 * s) = IF z < 0 THEN z + 4 * s ELSE z
      <3>1. 4 * s \in Nat \ {0}
        BY <1>1
      <3>2. CASE z < 0
        BY <1>1, <2>2, <3>1, <3>2, ModUnder
      <3>3. CASE z >= 0
        BY <1>1, <2>2, <3>1, <3>3, ModIn
      <3> QED BY <2>2, <3>2, <3>3
    <2>4. Signed(z % (4 * s), 2 * s) = z
      BY <1>1, <2>2, <2>3, SMTT(20), SMTT(30), Zenon DEF Signed
    <2> QED BY <1>1, <1>2, <2>4, SMTT(20), SMTT(30), Zenon DEF Meaning, z, x, y
  <1>3. CASE kind # "signed"
    <2>1. x \in 0..(2 * Half - 1) /\ y \in 0..(2 * Half - 1)
      BY <1>1, <1>3, MeaningRange
    <2> DEFINE k == 2 * Half - 1
    <2>2. k \in Nat /\ x \in Nat /\ y \in Nat /\ x <= k /\ y <= k
      BY <1>1, <2>1
    <2>3. z \in Int /\ z <= k * k /\ z >= 0
      <3> HIDE DEF k, x, y
      <3>1. x \in (0 - k)..k /\ y \in (0 - k)..k /\ x * y >= 0
        BY <2>2
      <3> QED BY <2>2, <3>1, ProductBound
    <2>4. k * k < 4 * s
      BY <1>1
    <2> HIDE DEF x, y, z, s, k
    <2>5. z \in 0..(4 * s - 1) /\ 4 * s \in Nat \ {0}
      <3>1. k * k \in Nat
        BY <2>2
      <3> QED BY <1>1, <2>3, <2>4, <3>1
    <2>6. z % (4 * s) = z
      BY <2>5, ModIn
    <2> QED BY <1>1, <1>3, <2>6 DEF Meaning, z, x, y
  <1> QED BY <1>2, <1>3, SMTT(20), SMTT(30), Zenon

(* Dividing a product by a factor, towards zero.                           *)
LEMMA QuotientOfProduct ==
    ASSUME NEW x \in Int, NEW y \in Int, y # 0
    PROVE  Quotient(x * y, y) = x /\ Remainder(x * y, y) = 0
  <1>0. ASSUME NEW a \in Nat, NEW b \in Nat \ {0} PROVE (a * b) \div b = a
    BY <1>0, SMTT(20), SMTT(30), Zenon
  <1>1. CASE x >= 0 /\ y > 0
    <2>1. (x * y) \div y = x /\ x * y >= 0 /\ x * y \in Int
      BY <1>0, <1>1
    <2> QED BY <1>1, <2>1 DEF Quotient, Remainder, Abs
  <1>2. CASE x >= 0 /\ y < 0
    <2>1. (x * (0 - y)) \div (0 - y) = x /\ x * (0 - y) = 0 - x * y /\ x * y <= 0 /\ x * y \in Int
      BY <1>0, <1>2
    <2>2. Quotient(x * y, y) = x
      <3>1. CASE x * y < 0
        BY <1>2, <2>1, <3>1 DEF Quotient, Abs
      <3>2. CASE x * y = 0
        <4>1. x = 0 /\ 0 \div (0 - y) = 0
          BY <1>2, <2>1, <3>2, SMTT(20), SMTT(30), Zenon
        <4> QED BY <1>2, <4>1 DEF Quotient, Abs
      <3> QED BY <2>1, <3>1, <3>2
    <2> QED BY <2>1, <2>2 DEF Remainder
  <1>3. CASE x < 0 /\ y > 0
    <2>1. ((0 - x) * y) \div y = 0 - x /\ (0 - x) * y = 0 - x * y /\ x * y < 0 /\ x * y \in Int
      BY <1>0, <1>3, SMTT(20), SMTT(30), Zenon
    <2> QED BY <1>3, <2>1 DEF Quotient, Remainder, Abs
  <1>4. CASE x < 0 /\ y < 0
    <2>1. ((0 - x) * (0 - y)) \div (0 - y) = 0 - x /\ (0 - x) * (0 - y) = x * y /\ x * y > 0 /\ x * y \in Int
      BY <1>0, <1>4
    <2> QED BY <1>4, <2>1 DEF Quotient, Remainder, Abs
  <1> QED BY <1>1, <1>2, <1>3, <1>4

(* The step of DivUndoesMul.                                               *)
LEMMA DivUndoes ==
    ASSUME TypeOK, ProductHeld, NEW p \in product, p.factor # 0, Div(p.kind, p.factor)
    PROVE  ~fault' /\ regs' = [eax |-> p.eax, edx |-> 0]
  <1> DEFINE kind == p.kind
             x == Meaning(p.eax, kind, Half)
             y == Meaning(p.factor, kind, Half)
             z == Product(p)
             low == IF kind = "signed" THEN 0 - Half ELSE 0
  <1>1. kind \in Kind /\ p.eax \in Word /\ p.factor \in Word /\ Half \in Nat \ {0, 1}
    BY AluAssumption, SMTT(20), SMTT(30), Zenon DEF TypeOK
  <1>2. /\ x \in low..(low + 2 * Half - 1) /\ x % (2 * Half) = p.eax
        /\ y \in low..(low + 2 * Half - 1) /\ y # 0
    BY <1>1, MeaningRange, SMTT(20), SMTT(30), Zenon
  <1>3. x \in Int /\ y \in Int /\ x * y \in Int
    BY <1>1, <1>2
  <1>4. 2 * Half * regs["edx"] + regs["eax"] = z
    <2>1. z \in Nat
      <3>1. 4 * Half * Half \in Nat \ {0}
        BY <1>1
      <3> HIDE DEF x, y
      <3>2. z = (x * y) % (4 * Half * Half)
        BY DEF Product, x, y
      <3>3. z \in 0..(4 * Half * Half - 1)
        BY <1>3, <3>1, <3>2, ModRange, Zenon
      <3> QED BY <3>1, <3>3
    <2>2. regs["eax"] = z % (2 * Half) /\ regs["edx"] = z \div (2 * Half)
      BY DEF ProductHeld, HoldsProduct
    <2> HIDE DEF z
    <2>3. 2 * Half \in Nat \ {0}
      BY <1>1
    <2>4. z = (2 * Half) * (z \div (2 * Half)) + (z % (2 * Half))
      BY <2>1, <2>3, DivMod, SMTT(20), SMTT(30), Zenon
    <2> QED BY <2>2, <2>4
  <1>5. Meaning(z, kind, 2 * Half * Half) = x * y
    BY <1>1, DoubleMeans DEF Product
  <1>6. /\ Quotient(x * y, y) = x /\ Remainder(x * y, y) = 0
    BY <1>2, <1>3, QuotientOfProduct, Zenon
  <1> HIDE DEF x, y, z
  <1>7. /\ fault' = FALSE
        /\ regs' = [regs EXCEPT !["eax"] = x % (2 * Half), !["edx"] = 0 % (2 * Half)]
    <2>1. p.factor # 0 /\ x \in low..(low + 2 * Half - 1)
      BY <1>2
    <2> QED BY <1>4, <1>5, <1>6, <2>1, Zenon DEF Div, y
  <1>8. 0 % (2 * Half) = 0
    BY <1>1, ModIn
  <1>9. regs' = [regs EXCEPT !["eax"] = p.eax, !["edx"] = 0]
    BY <1>2, <1>7, <1>8, Zenon
  <1>10. regs' = [eax |-> p.eax, edx |-> 0]
    BY <1>9, Zenon DEF TypeOK, Reg
  <1> QED BY <1>7, <1>10, Zenon

(* DIV or IDIV by the factor takes back a MUL or IMUL, at every register   *)
(* width and for all factors, the most negative ones included: no error,   *)
(* the other factor in EAX and zero in EDX.                                *)
THEOREM DivisionUndoes == CpuSpec => DivUndoesMul
  <1>1. CpuInit => ProductHeld
    BY SMTT(20), SMTT(30), Zenon DEF CpuInit, Init, ProductHeld
  <1>2. TypeOK /\ ProductHeld /\ [CpuNext]_<<vars, shifted>> =>
          [\A p \in product : p.factor # 0 /\ Div(p.kind, p.factor) =>
              ~fault' /\ regs' = [eax |-> p.eax, edx |-> 0]]_vars
    BY DivUndoes
  <1>3. ASSUME TypeOK, ProductHeld, ShiftStep PROVE ProductHeld'
    <2>1. product' = {} \/ UNCHANGED <<regs, product>>
      BY <1>3, ShiftKeeps, Zenon
    <2>2. CASE product' = {}
      BY <2>2 DEF ProductHeld
    <2>3. CASE UNCHANGED <<regs, product>>
      BY <1>3, <2>3 DEF ProductHeld, HoldsProduct
    <2> QED BY <2>1, <2>2, <2>3
  <1>4. TypeOK /\ ProductHeld /\ [CpuNext]_<<vars, shifted>> => ProductHeld'
    BY <1>3, CpuStep, ProductStep, Zenon
  <1> QED BY <1>1, <1>2, <1>4, AluTypes, PTL DEF CpuSpec, DivUndoesMul
=============================================================================
