-------------------------------- MODULE X87 --------------------------------
(***************************************************************************)
(* The floating-point unit of the i386 interpreter: fpuPush, fpuPop,       *)
(* fpuST, fpuCompare and stepX87 (internal/i386/cpu.go), with SAHF, which  *)
(* brings the outcome of a comparison to the conditional jumps.            *)
(*                                                                         *)
(* Numbers are abstract, one of them is NaN: a number loaded from memory   *)
(* is any of them, and arithmetic is given by constants.  FPUStatus and AH *)
(* are sets of bits named for the condition codes C0, C2 and C3; the other *)
(* bits of the status word are never set.                                  *)
(***************************************************************************)
EXTENDS Naturals, Sequences, Conditions

CONSTANTS
    Slots,              \* 8: the registers of the unit
    Num,                \* the numbers
    NaN, Nought, One,
    IntegerAH, IntegerFlags,    \* what integer instructions leave in AH and the flags
    Less(_, _),         \* the order of the numbers but NaN
    Plus(_, _), Minus(_, _), Times(_, _), Mod(_, _), Magnitude(_), Root(_)

ASSUME X87Assumption ==
    /\ Slots \in Nat \ {0}
    /\ IntegerAH \subseteq SUBSET {"C0", "C2", "C3"} /\ IntegerFlags \subseteq SUBSET {"CF", "PF", "ZF"}
    /\ {NaN, Nought, One} \subseteq Num
    /\ \A a, b \in Num : Plus(a, b) \in Num /\ Minus(a, b) \in Num /\ Times(a, b) \in Num /\ Mod(a, b) \in Num
    /\ \A a \in Num : Magnitude(a) \in Num /\ Root(a) \in Num
    /\ \A a, b \in Num : Less(a, b) \in BOOLEAN

VARIABLES
    FPU,        \* CPU.FPU
    FPUTop,     \* CPU.FPUTop
    FPUCount,   \* CPU.FPUCount
    FPUStatus,  \* CPU.FPUStatus
    AH,         \* the second byte of EAX
    jumpFlags,  \* the flags of CPU.EFLAGS that SAHF writes
    fpuFault,   \* Step returned an error, which ends the process
    told        \* told[x]: the outcomes of comparison that x, the status,
                \* AH or the flags, tells of; at most one (history)

registers == <<FPU, FPUTop, FPUCount>>
fpuVars == <<FPU, FPUTop, FPUCount, FPUStatus, AH, jumpFlags, fpuFault, told>>

Code == {"C0", "C2", "C3"}
Outcome == {"less", "equal", "greater", "unordered"}

FpuTypes ==
    /\ FPU \in [0..(Slots - 1) -> Num]
    /\ FPUTop \in 0..(Slots - 1)
    /\ FPUCount \in 0..Slots
    /\ FPUStatus \subseteq Code /\ AH \subseteq Code
    /\ jumpFlags \subseteq {"CF", "PF", "ZF"}
    /\ fpuFault \in BOOLEAN
    /\ told \in [{"status", "ah", "flags"} -> SUBSET Outcome]

FpuInit ==
    /\ FPU = [i \in 0..(Slots - 1) |-> Nought]
    /\ FPUTop = 0 /\ FPUCount = 0
    /\ FPUStatus = {} /\ AH = {} /\ jumpFlags = {}
    /\ fpuFault = FALSE
    /\ told = [x \in {"status", "ah", "flags"} |-> {}]

-----------------------------------------------------------------------------
Slot(i) == (FPUTop + i) % Slots
Before == (FPUTop + Slots - 1) % Slots

(* fpuST: an index at or above the count is an error.                      *)
Has(i) == i < FPUCount
ST(i) == FPU[Slot(i)]

Goes == fpuFault' = FALSE
Faults == fpuFault' = TRUE

(* Mutant: the check lets a push into the last register's place.           *)
fpuPushOver(v) ==
    /\ Goes
    /\ FPUTop' = Before
    /\ FPU' = [FPU EXCEPT ![Before] = v]
    /\ FPUCount' = IF FPUCount < Slots THEN FPUCount + 1 ELSE FPUCount

fpuPush(v) ==
    IF FPUCount >= Slots
    THEN Faults /\ UNCHANGED registers
    ELSE /\ Goes
         /\ FPUTop' = Before
         /\ FPU' = [FPU EXCEPT ![Before] = v]
         /\ FPUCount' = FPUCount + 1

(* fpuPop, after ST(i) was replaced by v.                                  *)
ReplacePop(i, v) ==
    /\ FPU' = [FPU EXCEPT ![Slot(i)] = v]
    /\ FPUTop' = Slot(1)
    /\ FPUCount' = FPUCount - 1

Replace(i, v) == FPU' = [FPU EXCEPT ![Slot(i)] = v] /\ UNCHANGED <<FPUTop, FPUCount>>

fpuPop == ReplacePop(0, ST(0))

Outcomes(a, b) ==
    IF NaN \in {a, b} THEN "unordered" ELSE IF Less(a, b) THEN "less" ELSE IF a = b THEN "equal" ELSE "greater"

(* Mutant: the bits of the comparison before stay set.                     *)
fpuCompareAdds(a, b) ==
    /\ FPUStatus' = FPUStatus \cup
          (IF NaN \in {a, b} THEN Code ELSE IF Less(a, b) THEN {"C0"} ELSE IF a = b THEN {"C3"} ELSE {})
    /\ told' = [told EXCEPT !["status"] = {Outcomes(a, b)}]

fpuCompare(a, b) ==
    /\ FPUStatus' = (FPUStatus \ Code) \cup
          (IF NaN \in {a, b} THEN Code ELSE IF Less(a, b) THEN {"C0"} ELSE IF a = b THEN {"C3"} ELSE {})
    /\ told' = [told EXCEPT !["status"] = {Outcomes(a, b)}]

-----------------------------------------------------------------------------
(* An instruction that needs ST(0) to ST(i): without them it is an error.  *)
Short(i) == ~Has(i) /\ Faults /\ UNCHANGED registers
With(i) == Has(i) /\ Goes

SameStatus == UNCHANGED <<FPUStatus, told>>

(* FLDZ, FLD1, FILD and FLD from memory, whose address may fault; FLD ST0. *)
FLD ==
    /\ SameStatus
    /\ \/ \E v \in Num : fpuPush(v)
       \/ Faults /\ UNCHANGED registers
       \/ Has(0) /\ fpuPush(ST(0))
       \/ Short(0)

FABS_FSQRT ==
    /\ SameStatus
    /\ \/ With(0) /\ (Replace(0, Magnitude(ST(0))) \/ Replace(0, Root(ST(0))))
       \/ Short(0)

(* FPREM also clears C2; C0 and C3 stay and tell of no comparison.         *)
FPREM ==
    \/ /\ With(1) /\ Replace(0, Mod(ST(0), ST(1)))
       /\ FPUStatus' = FPUStatus \ {"C2"}
       /\ told' = [told EXCEPT !["status"] = {}]
    \/ Short(1) /\ SameStatus

FTST ==
    \/ With(0) /\ fpuCompare(ST(0), Nought) /\ UNCHANGED registers
    \/ Short(0) /\ SameStatus

FXCH(i) ==
    /\ SameStatus
    /\ \/ With(i) /\ FPU' = [FPU EXCEPT ![FPUTop] = ST(i), ![Slot(i)] = ST(0)] /\ UNCHANGED <<FPUTop, FPUCount>>
       \/ Short(i)

(* FST m64; FSTP and FISTP to memory pop before a store that may fault;    *)
(* FSTP ST(0), and FSTP ST(1), which with one number on the stack pops it. *)
FST ==
    /\ SameStatus
    /\ \/ Has(0) /\ (Goes \/ Faults) /\ UNCHANGED registers
       \/ Has(0) /\ (Goes \/ Faults) /\ fpuPop
       \/ With(0) /\ ReplacePop(1, ST(0))
       \/ Short(0)

(* FSUBRP ST(2); FADD ST(0),ST(1); FADD ST(2),ST(0); FMULP and FSUBP.      *)
FSUBRP_FADD_FMULP_FSUBP ==
    /\ SameStatus
    /\ \/ With(2) /\ (ReplacePop(2, Minus(ST(0), ST(2))) \/ Replace(2, Plus(ST(2), ST(0))))
       \/ With(1) /\ Replace(0, Plus(ST(0), ST(1)))
       \/ With(1) /\ (ReplacePop(1, Times(ST(1), ST(0))) \/ ReplacePop(1, Minus(ST(1), ST(0))))
       \/ Short(2) \/ Short(1)

FADDP(i) ==
    /\ SameStatus
    /\ (With(i) /\ ReplacePop(i, Plus(ST(i), ST(0)))) \/ Short(i)

FCOMP(i) ==
    \/ With(i) /\ fpuCompare(ST(0), ST(i)) /\ fpuPop
    \/ Short(i) /\ SameStatus

(* FADD and FMUL from memory.                                              *)
FADD_FMUL ==
    /\ SameStatus
    /\ \/ \E v \in Num : With(0) /\ (Replace(0, Plus(ST(0), v)) \/ Replace(0, Times(ST(0), v)))
       \/ Faults /\ UNCHANGED registers

stepX87 ==
    /\ ~fpuFault
    /\ UNCHANGED <<AH, jumpFlags>>
    /\ \/ FLD \/ FABS_FSQRT \/ FPREM \/ FTST \/ FST \/ FSUBRP_FADD_FMULP_FSUBP \/ FADD_FMUL
       \/ \E i \in 0..(Slots - 1) : FXCH(i) \/ FADDP(i) \/ FCOMP(i)

FNSTSW ==
    /\ ~fpuFault
    /\ AH' = FPUStatus
    /\ told' = [told EXCEPT !["ah"] = told["status"]]
    /\ UNCHANGED <<registers, FPUStatus, jumpFlags, fpuFault>>

SAHF ==
    /\ ~fpuFault
    /\ jumpFlags' = (IF "C0" \in AH THEN {"CF"} ELSE {}) \cup (IF "C2" \in AH THEN {"PF"} ELSE {})
                    \cup (IF "C3" \in AH THEN {"ZF"} ELSE {})
    /\ told' = [told EXCEPT !["flags"] = told["ah"]]
    /\ UNCHANGED <<registers, FPUStatus, AH, fpuFault>>

(* Integer instructions write EAX and the flags.                           *)
Integer ==
    /\ ~fpuFault
    /\ \/ /\ AH' \in IntegerAH /\ told' = [told EXCEPT !["ah"] = {}] /\ UNCHANGED jumpFlags
       \/ /\ jumpFlags' \in IntegerFlags /\ told' = [told EXCEPT !["flags"] = {}] /\ UNCHANGED AH
    /\ UNCHANGED <<registers, FPUStatus, fpuFault>>

FpuNext == stepX87 \/ FNSTSW \/ SAHF \/ Integer

FpuSpec == FpuInit /\ [][FpuNext]_fpuVars

-----------------------------------------------------------------------------
(* The numbers of the file in the order of ST(i).                          *)
Operands == INSTANCE OperandStack WITH st <- [i \in 1..FPUCount |-> ST(i - 1)], ended <- fpuFault

(* The circular register file with its top and count behaves as a stack of *)
(* operands: what an instruction leaves in ST(i) is found there, through   *)
(* pushes and pops that carry the top round the file, until an instruction *)
(* replaces it; nothing is pushed over the last number.                    *)
IsStack == Operands!Spec

(* A comparison that travels through FNSTSW AX and SAHF makes the jumps    *)
(* decide as the comparison came out: B for less, E for equal, A for       *)
(* greater, and P, with B and E, when an operand is NaN.                   *)
CompareReachesJump ==
    \A c \in told["flags"] :
        /\ Holds("A", jumpFlags) <=> c = "greater"
        /\ Holds("B", jumpFlags) <=> c \in {"less", "unordered"}
        /\ Holds("E", jumpFlags) <=> c \in {"equal", "unordered"}
        /\ Holds("P", jumpFlags) <=> c = "unordered"
=============================================================================
