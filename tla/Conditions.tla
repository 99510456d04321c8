----------------------------- MODULE Conditions -----------------------------
(***************************************************************************)
(* CPU.condition (internal/i386/cpu.go): what a conditional jump, SETcc or *)
(* CMOVcc decides from the flags, given as the set of those that are on.   *)
(***************************************************************************)

Holds(op, flags) ==
    LET on(f) == f \in flags IN
    CASE op = "O"  -> on("OF")
      [] op = "NO" -> ~on("OF")
      [] op = "B"  -> on("CF")
      [] op = "AE" -> ~on("CF")
      [] op = "E"  -> on("ZF")
      [] op = "NE" -> ~on("ZF")
      [] op = "BE" -> on("CF") \/ on("ZF")
      [] op = "A"  -> ~on("CF") /\ ~on("ZF")
      [] op = "S"  -> on("SF")
      [] op = "NS" -> ~on("SF")
      [] op = "P"  -> on("PF")
      [] op = "NP" -> ~on("PF")
      [] op = "L"  -> on("SF") # on("OF")
      [] op = "GE" -> on("SF") = on("OF")
      [] op = "G"  -> ~on("ZF") /\ on("SF") = on("OF")
      [] op = "LE" -> on("ZF") \/ on("SF") # on("OF")
=============================================================================
