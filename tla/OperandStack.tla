---------------------------- MODULE OperandStack ----------------------------
(***************************************************************************)
(* What programs rely on in the floating-point unit: a stack of at most    *)
(* Slots numbers, the top first, on which instructions push, pop, exchange *)
(* and compute.  An instruction without its operands, without room for its *)
(* result or with an address that faults ends the program.                 *)
(***************************************************************************)
EXTENDS Naturals, Sequences

CONSTANTS
    Slots,              \* 8
    Num,                \* the numbers
    Plus(_, _), Minus(_, _), Times(_, _), Mod(_, _), Magnitude(_), Root(_)

VARIABLES
    st,         \* the numbers on the stack
    ended       \* an instruction has failed

Init == st = <<>> /\ ended = FALSE

(* Comparisons, stores that keep the number, and all other instructions.    *)
Look == UNCHANGED <<st, ended>>

Push(v) == Len(st) < Slots /\ st' = <<v>> \o st
Has(i) == i \in 1..Len(st)
Replace(i, v) == Has(i) /\ st' = [st EXCEPT ![i] = v]
ReplaceAndPop(i, v) == Has(i) /\ st' = Tail([st EXCEPT ![i] = v])

Load == (\E v \in Num : Push(v)) \/ (Has(1) /\ Push(st[1]))
Pop == Has(1) /\ st' = Tail(st)
Exchange(i) == Has(i) /\ st' = [st EXCEPT ![1] = st[i], ![i] = st[1]]
Store == Has(2) /\ ReplaceAndPop(2, st[1])

Compute ==
    \/ Has(1) /\ (Replace(1, Magnitude(st[1])) \/ Replace(1, Root(st[1])))
    \/ Has(1) /\ \E v \in Num : Replace(1, Plus(st[1], v)) \/ Replace(1, Times(st[1], v))
    \/ Has(2) /\ (Replace(1, Mod(st[1], st[2])) \/ Replace(1, Plus(st[1], st[2])))
    \/ Has(3) /\ Replace(3, Plus(st[3], st[1]))
    \/ Has(2) /\ (ReplaceAndPop(2, Times(st[2], st[1])) \/ ReplaceAndPop(2, Minus(st[2], st[1])))
    \/ Has(3) /\ ReplaceAndPop(3, Minus(st[1], st[3]))
    \/ \E i \in 1..Slots : Has(i) /\ ReplaceAndPop(i, Plus(st[i], st[1]))

Fail == ended' = TRUE /\ (st' = st \/ Pop)

Next ==
    \/ Look
    \/ /\ ~ended /\ ended' = FALSE
       /\ Load \/ Pop \/ Store \/ Compute \/ \E i \in 1..Slots : Exchange(i)
    \/ ~ended /\ Fail

Spec == Init /\ [][Next]_<<st, ended>>
=============================================================================
