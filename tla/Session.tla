------------------------------ MODULE Session ------------------------------
(***************************************************************************)
(* The runtime session behind the user interface                           *)
(* (internal/runtime/session.go): StartGuest, RunELF and GuestInput called *)
(* by several goroutines, with the session's mutex around single accesses  *)
(* of s.Scheduler only.  Each call of StartGuest or RunELF is a member of  *)
(* Call; the steps between two of its accesses to shared state are one     *)
(* action.  The terminal is reduced to whether it is closed (module        *)
(* Terminal has the rest) and the scheduler to when Run returns (module    *)
(* Scheduler).                                                             *)
(***************************************************************************)
CONSTANTS
    Call,       \* the calls of StartGuest and RunELF made during a session
    Elf,        \* those that are calls of RunELF
    Typist,     \* the goroutines that call GuestInput
    NoCall      \* s.Scheduler = nil

ASSUME SessionAssumption == Elf \subseteq Call /\ NoCall \notin Call

VARIABLES
    Scheduler,  \* s.Scheduler: the call whose scheduler is installed
    pc,         \* pc[c]: how far call c has come
    closed,     \* s.PTY is closed
    typing,     \* typing[t]: GuestInput has seen an active guest
    accepted    \* GuestInput has just handed bytes to the terminal

vars == <<Scheduler, pc, closed, typing, accepted>>

Stage == {"idle", "load", "install", "run", "close", "clear", "send", "done", "refused"}

TypeOK ==
    /\ Scheduler \in Call \cup {NoCall}
    /\ pc \in [Call -> Stage]
    /\ closed \in BOOLEAN
    /\ typing \in [Typist -> BOOLEAN]
    /\ accepted \in BOOLEAN

Init ==
    /\ Scheduler = NoCall
    /\ pc = [c \in Call |-> "idle"]
    /\ closed = FALSE
    /\ typing = [t \in Typist |-> FALSE]
    /\ accepted = FALSE

-----------------------------------------------------------------------------
(* Call c goes on from one stage to the next.                              *)
Goes(c, from, to) ==
    /\ pc[c] = from
    /\ pc' = [pc EXCEPT ![c] = to]
    /\ accepted' = FALSE
    /\ UNCHANGED typing

(* StartGuest looks whether a guest is active, under the mutex ...         *)
CheckActive(c) ==
    /\ c \notin Elf
    /\ Goes(c, "idle", IF Scheduler = NoCall THEN "load" ELSE "refused")
    /\ UNCHANGED <<Scheduler, closed>>

(* ... resolves and loads the image without it ...                         *)
LoadWithRuntime(c) ==
    /\ \/ c \notin Elf /\ (Goes(c, "load", "install") \/ Goes(c, "load", "refused"))
       \/ c \in Elf /\ (Goes(c, "idle", "install") \/ Goes(c, "idle", "refused"))
    /\ UNCHANGED <<Scheduler, closed>>

(* Mutant: the check made before loading is relied on.                     *)
InstallUnchecked(c) ==
    /\ c \notin Elf
    /\ Goes(c, "install", "run")
    /\ Scheduler' = c
    /\ UNCHANGED closed

(* ... and looks again when it installs its scheduler.                     *)
Install(c) ==
    /\ c \notin Elf
    /\ IF Scheduler = NoCall
       THEN Goes(c, "install", "run") /\ Scheduler' = c
       ELSE Goes(c, "install", "refused") /\ UNCHANGED Scheduler
    /\ UNCHANGED closed

(* RunELF installs its scheduler without the mutex and without looking.    *)
InstallELF(c) ==
    /\ c \in Elf
    /\ Goes(c, "install", "run")
    /\ Scheduler' = c
    /\ UNCHANGED closed

(* Scheduler.Run returns.  RunELF returns with it.                         *)
RunReturns(c) ==
    /\ Goes(c, "run", IF c \in Elf THEN "done" ELSE "close")
    /\ UNCHANGED <<Scheduler, closed>>

(* Mutant: the terminal is left open for the next guest.                   *)
ClosePTYNot(c) ==
    /\ Goes(c, "close", "clear")
    /\ UNCHANGED <<Scheduler, closed>>

ClosePTY(c) ==
    /\ Goes(c, "close", "clear")
    /\ closed' = TRUE
    /\ UNCHANGED Scheduler

(* Mutant: the slot is only cleared when another guest has taken it.       *)
ClearWrong(c) ==
    /\ Goes(c, "clear", "send")
    /\ Scheduler' = IF Scheduler = c THEN Scheduler ELSE NoCall
    /\ UNCHANGED closed

ClearScheduler(c) ==
    /\ Goes(c, "clear", "send")
    /\ Scheduler' = IF Scheduler = c THEN NoCall ELSE Scheduler
    /\ UNCHANGED closed

SendDone(c) ==
    /\ Goes(c, "send", "done")
    /\ UNCHANGED <<Scheduler, closed>>

(* GuestInput looks for an active guest under the mutex and writes to the  *)
(* terminal after it has released it.  A refusal changes nothing.          *)
GuestInput(t) ==
    /\ ~typing[t]
    /\ Scheduler # NoCall
    /\ typing' = [typing EXCEPT ![t] = TRUE]
    /\ accepted' = FALSE
    /\ UNCHANGED <<Scheduler, pc, closed>>

WriteInput(t) ==
    /\ typing[t]
    /\ typing' = [typing EXCEPT ![t] = FALSE]
    /\ accepted' = ~closed
    /\ UNCHANGED <<Scheduler, pc, closed>>

(* What the goroutine of call c does once the guest's run is over.         *)
Finishes(c) == ClosePTY(c) \/ ClearScheduler(c) \/ SendDone(c)

Next ==
    \/ \E c \in Call : CheckActive(c) \/ LoadWithRuntime(c) \/ Install(c) \/ InstallELF(c)
                       \/ RunReturns(c) \/ Finishes(c)
    \/ \E t \in Typist : GuestInput(t) \/ WriteInput(t)

(* A goroutine goes on; nobody has to call, and no guest has to end.       *)
Spec == Init /\ [][Next]_vars /\ \A c \in Call : WF_vars(Finishes(c))

-----------------------------------------------------------------------------
Running == {c \in Call : pc[c] \in {"run", "close"}}

(* "guest process already active": guests of two StartGuest calls never    *)
(* share the terminal, although StartGuest gives up the mutex between its  *)
(* two checks and RunELF takes the slot without looking.                   *)
OneGuest == \A c, d \in Running \ Elf : c = d

(* "GuestInput succeeded after guest termination" is an error: bytes are   *)
(* accepted only while a guest that could read them has not yet closed the *)
(* terminal, also when it ends between GuestInput's look and its write.    *)
(* After a RunELF, which leaves its scheduler installed, nothing is        *)
(* claimed.                                                                *)
InputNeedsGuest == accepted => Running # {} \/ Scheduler \in Elf

(* When a guest's run is over its slot is freed, so that StartGuest is not *)
(* refused for ever.                                                       *)
SlotIsFreed == \A c \in Call \ Elf : pc[c] = "close" ~> Scheduler # c
=============================================================================
