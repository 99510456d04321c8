----------------------------- MODULE MCSession -----------------------------
(* The session with many callers, or with the window as its only one.      *)
EXTENDS Window

VARIABLE part

MCInit == WindowInit /\ part \in {"session", "window"} /\ (part = "session" => guestMode)

MCNext ==
    /\ UNCHANGED part
    /\ \/ part = "session" /\ Next /\ UNCHANGED view
       \/ part = "window" /\ WindowNext

(* Goroutines that are not waiting go on; the user need not do anything.   *)
MCSpec ==
    /\ MCInit /\ [][MCNext]_<<vars, view, part>>
    /\ \A c \in Call : WF_vars(Finishes(c))
    /\ WF_<<vars, view>>(part = "window" /\ Builds) /\ WF_<<vars, view>>(part = "window" /\ Reads)
=============================================================================
