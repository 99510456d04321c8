------------------------------- MODULE MCCpu -------------------------------
(* The integer unit with registers of three bits and operands of two, the  *)
(* floating-point unit with three registers, and the string instructions   *)
(* on six bytes: one program uses one unit.                                *)
EXTENDS Shifts, X87, Strings, Bitwise, FiniteSets

VARIABLE unit

MCAnd(a, b) == a & b
MCOr(a, b) == a | b
MCXor(a, b) == a ^^ b
MCEven(a) == Cardinality({i \in 0..2 : (a \div 2^i) % 2 = 1}) % 2 = 0

Known(a, b, r) == IF NaN \in {a, b} THEN NaN ELSE r
MCLess(a, b) == NaN \notin {a, b} /\ a < b
MCPlus(a, b) == Known(a, b, (a + b) % 2)
MCMinus(a, b) == Known(a, b, IF a > b THEN 1 ELSE 0)
MCTimes(a, b) == Known(a, b, a * b)
MCMod(a, b) == Known(a, b, IF b = 0 THEN NaN ELSE 0)
MCSame(a) == a

MCContents == {[a \in Address |-> CASE a % 3 = 0 -> {} [] a % 3 = 1 -> {0} [] a % 3 = 2 -> {0, 1}]}
MCEAX == <<{1}, {0}>>
MCPointers == {0, 1, 2, 4, 7}
MCCounts == 0..3
MCIndexes == {-4, 0, 1, 3, 5, 8}

MCInit ==
    /\ CpuInit /\ FpuInit /\ StrInit
    /\ unit \in {"integer", "fpu", "strings"}
    /\ unit # "strings" => esi = 0 /\ edi = 0 /\ ~DF
MCNext ==
    /\ UNCHANGED unit
    /\ \/ unit = "integer" /\ CpuNext /\ UNCHANGED <<fpuVars, strVars>>
       \/ unit = "fpu" /\ FpuNext /\ UNCHANGED <<vars, shifted, strVars>>
       \/ unit = "strings" /\ StrNext /\ UNCHANGED <<vars, shifted, fpuVars>>
MCSpec == MCInit /\ [][MCNext]_<<vars, shifted, fpuVars, strVars, unit>>
=============================================================================
