------------------------------ MODULE MCMemory ------------------------------
(* Pages of four bytes in a word of 32 values: an image page of code,      *)
(* the stack, and two free pages between them.                             *)
EXTENDS Memory

MCImage == <<[start |-> 4, end |-> 8, prot |-> {"r", "x"}, name |-> "image"],
             [start |-> 16, end |-> 20, prot |-> {"r", "w"}, name |-> "image"]>>
=============================================================================
