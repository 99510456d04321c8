------------------------------ MODULE MCFutex ------------------------------
(* Three tasks, the third one in an address space of its own (a fork).     *)
EXTENDS Futex

MCTask == {1, 2, 3}
MCSpace == {"s", "t"}
MCSpaceOf == [p \in MCTask |-> IF p = 3 THEN "t" ELSE "s"]
=============================================================================
