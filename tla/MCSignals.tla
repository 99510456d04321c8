------------------------------ MODULE MCSignals ------------------------------
(* For signal 17 a handler, or an action that cannot be run; for signal 33 *)
(* a handler with SA_NODEFER that blocks 17, or one without.               *)
EXTENDS Signals

Handler(kind, nodefer, set) == [handler |-> kind, nodefer |-> nodefer, mask |-> set]

MCActions ==
    [s \in SignalNumber |->
        IF s = 17 THEN {Handler("handler", FALSE, {}), Handler("unusable", FALSE, {})}
        ELSE {Handler("handler", TRUE, {17}), Handler("handler", FALSE, {})}]
=============================================================================
