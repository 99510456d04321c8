------------------------------ MODULE Signals ------------------------------
(***************************************************************************)
(* Signals of one guest task: kill, sigaction, sigprocmask, the choice of  *)
(* the signal to take before an instruction (Process.Step,                 *)
(* TakePendingSignal), the frame DeliverSignal writes on the guest stack   *)
(* and rt_sigreturn, which reads it back (internal/kernel/signal.go).      *)
(*                                                                         *)
(* The registers, flags and FPU state are one value, cpu, next to the      *)
(* stack pointer esp.  The stack has one cell per address; a frame and the *)
(* gap above it take Frame cells, the frame itself being the lowest.  The  *)
(* history variable active holds what was interrupted, innermost last, and *)
(* whether the handler's own signal has been let through since.            *)
(***************************************************************************)
EXTENDS Naturals, Sequences

CONSTANTS
    SignalNumber,  \* the signals used: a set of numbers from 1 to 64
    Ignored,       \* those whose default action is to do nothing
    Fixed,         \* those sigaction refuses (9 and 19)
    Low,           \* those in the low word of a mask (1 to 32)
    Actions,       \* Actions[s]: the actions sigaction installs for s
    Cpu,           \* the register states
    Top,           \* the initial stack pointer
    Frame          \* cells of a frame and its gap

(* What sigaction may ask for.                                             *)
Action == [handler : {"default", "handler", "unusable"}, nodefer : BOOLEAN, mask : SUBSET SignalNumber]

ASSUME SignalsAssumption ==
    /\ SignalNumber \subseteq 1..64
    /\ Ignored \subseteq SignalNumber /\ Fixed \subseteq SignalNumber /\ Low \subseteq SignalNumber
    /\ Actions \in [SignalNumber -> SUBSET Action]
    /\ Cpu # {}
    /\ Top \in Nat /\ Frame \in Nat \ {0}

Default == [handler |-> "default", nodefer |-> FALSE, mask |-> {}]

(* A saved context, and the content of a stack cell.                       *)
Saved == [signal : SignalNumber, cpu : Cpu, esp : 0..Top, mask : SUBSET SignalNumber]
Junk == [signal |-> 0]
Cell == Saved \cup {Junk}

VARIABLES
    state,      \* "running", "exited" or "faulted"
    pending,    \* Kernel.pendingSignals
    mask,       \* Kernel.signalMask
    action,     \* Kernel.signalActions
    cpu, esp,   \* the CPU
    stack,      \* the guest stack
    active      \* what the running handlers interrupted (history)

vars == <<state, pending, mask, action, cpu, esp, stack, active>>

SignalsTypeOK ==
    /\ state \in {"running", "exited", "faulted"}
    /\ pending \subseteq SignalNumber
    /\ mask \subseteq SignalNumber
    /\ action \in [SignalNumber -> Action]
    /\ cpu \in Cpu
    /\ esp \in 0..Top
    /\ stack \in [0..Top -> Cell]
    /\ active \in Seq([saved : Saved, base : 0..Top, open : BOOLEAN])

Init ==
    /\ state = "running"
    /\ pending = {}
    /\ mask = {}
    /\ action = [s \in SignalNumber |-> Default]
    /\ cpu \in Cpu
    /\ esp = Top
    /\ stack = [a \in 0..Top |-> Junk]
    /\ active = <<>>

-----------------------------------------------------------------------------
(* Process.Step takes a signal first and executes an instruction only when *)
(* there is none to take.                                                  *)
Available == pending \ mask
Executes == state = "running" /\ Available = {}

(* Below this address the stack belongs to the innermost handler.          *)
Floor == IF active = <<>> THEN Top ELSE active[Len(active)].base

Compute(c) ==
    /\ Executes
    /\ cpu' = c
    /\ UNCHANGED <<state, pending, mask, action, esp, stack, active>>

Push ==
    /\ Executes
    /\ esp > 0
    /\ esp' = esp - 1
    /\ stack' = [stack EXCEPT ![esp - 1] = Junk]
    /\ UNCHANGED <<state, pending, mask, action, cpu, active>>

Pop ==
    /\ Executes
    /\ esp < Floor
    /\ esp' = esp + 1
    /\ UNCHANGED <<state, pending, mask, action, cpu, stack, active>>

(* kill of the task itself, and SIGPIPE (queueSignal).                     *)
queueSignal(s) ==
    /\ Executes
    /\ pending' = pending \cup {s}
    /\ UNCHANGED <<state, mask, action, cpu, esp, stack, active>>

rtSigaction(s, a) ==
    /\ Executes
    /\ s \notin Fixed
    /\ action' = [action EXCEPT ![s] = a]
    /\ UNCHANGED <<state, pending, mask, cpu, esp, stack, active>>

(* The old form of the call knows the low word of the mask only.           *)
sigprocmask(how, set, realtime) ==
    LET given == IF realtime THEN set ELSE set \cap Low
        new == CASE how = "block" -> mask \cup given
                 [] how = "unblock" -> mask \ given
                 [] how = "setmask" -> given
    IN  /\ Executes
        /\ mask' = new
        /\ active' = [i \in 1..Len(active) |->
                        [active[i] EXCEPT !.open = @ \/ active[i].saved.signal \notin new]]
        /\ UNCHANGED <<state, pending, action, cpu, esp, stack>>

(* The stack pointer has room for a frame, and where the frame goes.       *)
HasRoom == esp >= Frame

(* Mutant: the frame starts where the stack ends.                          *)
FrameInPlace == esp

FrameBase == esp - Frame

(* Mutant: the handler's own signal stays unblocked.                       *)
HandlerMaskOpen(s) == mask \cup action[s].mask

(* The mask a handler runs with.                                           *)
HandlerMask(s) == mask \cup action[s].mask \cup (IF action[s].nodefer THEN {} ELSE {s})

(* DeliverSignal: the context goes on the stack, the handler starts with   *)
(* its signal and its mask blocked.  The task faults without room, and     *)
(* when the action is unusable: no restorer, SA_SIGINFO, or SIG_IGN, which *)
(* is taken for the address of a handler.                                  *)
DeliverSignal(s) ==
    LET saved == [signal |-> s, cpu |-> cpu, esp |-> esp, mask |-> mask]
        base == FrameBase
    IN  IF ~HasRoom \/ action[s].handler = "unusable"
        THEN /\ state' = "faulted"
             /\ UNCHANGED <<mask, cpu, esp, stack, active>>
        ELSE /\ stack' = [a \in 0..Top |->
                             IF a = base THEN saved ELSE IF a \in base..(esp - 1) THEN Junk ELSE stack[a]]
             /\ esp' = base
             /\ \E c \in Cpu : cpu' = c
             /\ mask' = HandlerMask(s)
             /\ active' = Append(active, [saved |-> saved, base |-> base, open |-> action[s].nodefer])
             /\ UNCHANGED state

(* Mutant: an ignored signal stays pending.                                *)
TakeKeepsIgnored ==
    LET s == CHOOSE x \in Available : \A y \in Available : x <= y IN
    /\ state = "running" /\ Available # {}
    /\ IF action[s].handler # "default"
       THEN DeliverSignal(s) /\ pending' = pending \ {s}
       ELSE /\ state' = IF s \in Ignored THEN "running" ELSE "exited"
            /\ UNCHANGED <<pending, mask, cpu, esp, stack, active>>
    /\ UNCHANGED action

(* Process.Step with a signal to take: the lowest one.                     *)
TakePendingSignal ==
    LET s == CHOOSE x \in Available : \A y \in Available : x <= y IN
    /\ state = "running" /\ Available # {}
    /\ pending' = pending \ {s}
    /\ IF action[s].handler # "default"
       THEN DeliverSignal(s)
       ELSE /\ state' = IF s \in Ignored THEN "running" ELSE "exited"
            /\ UNCHANGED <<mask, cpu, esp, stack, active>>
    /\ UNCHANGED action

(* Mutant: rt_sigreturn forgets the signal mask.                           *)
rtSigreturnKeepsMask ==
    /\ Executes
    /\ active # <<>>
    /\ esp = Floor
    /\ stack[esp] # Junk
    /\ cpu' = stack[esp].cpu
    /\ esp' = stack[esp].esp
    /\ active' = SubSeq(active, 1, Len(active) - 1)
    /\ UNCHANGED <<state, pending, mask, action, stack>>

(* The handler returns to the restorer, which calls rt_sigreturn: the      *)
(* frame is looked up through the stack pointer and believed.              *)
rtSigreturn ==
    LET f == stack[esp] IN
    /\ Executes
    /\ active # <<>>
    /\ esp = Floor
    /\ IF f = Junk
       THEN state' = "faulted" /\ UNCHANGED <<mask, cpu, esp, active>>
       ELSE /\ cpu' = f.cpu
            /\ esp' = f.esp
            /\ mask' = f.mask
            /\ active' = SubSeq(active, 1, Len(active) - 1)
            /\ UNCHANGED state
    /\ UNCHANGED <<pending, action, stack>>

SignalsNext ==
    \/ \E c \in Cpu : Compute(c)
    \/ Push \/ Pop
    \/ \E s \in SignalNumber : queueSignal(s) \/ \E a \in Actions[s] : rtSigaction(s, a)
    \/ \E how \in {"block", "unblock", "setmask"}, set \in SUBSET SignalNumber, realtime \in BOOLEAN :
          sigprocmask(how, set, realtime)
    \/ TakePendingSignal
    \/ rtSigreturn

SignalsSpec == Init /\ [][SignalsNext]_vars

FairSpec == SignalsSpec /\ WF_vars(TakePendingSignal)

-----------------------------------------------------------------------------
(* The frames of all running handlers are intact on the guest stack,       *)
(* whatever the handlers push, pop, block and nest, and lie one below the  *)
(* other.                                                                  *)
FramesIntact ==
    state = "running" =>
        /\ \A i \in 1..Len(active) : stack[active[i].base] = active[i].saved
        /\ \A i \in 1..(Len(active) - 1) : active[i + 1].base < active[i].base
        /\ esp <= Floor

(* rt_sigreturn takes the task back to exactly where the innermost handler *)
(* interrupted it: registers, stack pointer and signal mask.               *)
ReturnRestores ==
    [][Len(active') < Len(active) =>
          LET saved == active[Len(active)].saved
          IN  cpu' = saved.cpu /\ esp' = saved.esp /\ mask' = saved.mask]_vars

(* A handler is not entered again while it runs, unless SA_NODEFER asked   *)
(* for it or a handler that runs since then unblocked its signal by        *)
(* sigprocmask: however handlers nest and return, the masks saved in the   *)
(* frames keep its signal blocked.                                         *)
NoReentry ==
    \A i, j \in 1..Len(active) :
        i < j /\ active[i].saved.signal = active[j].saved.signal => active[i].open

(* Every pending signal that stays unblocked is taken.                     *)
PendingIsTaken == \A s \in SignalNumber : (s \in Available) ~> (s \notin Available \/ state # "running")
=============================================================================
