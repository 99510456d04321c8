----------------------------- MODULE Scheduler -----------------------------
(***************************************************************************)
(* The cooperative scheduler of internal/guest/scheduler.go and the life   *)
(* of a task in internal/guest/process.go.  One goroutine runs             *)
(* Scheduler.Run; a pass of its loop either                                *)
(*   - picks the first task of s.order that can go on (Pick), completing   *)
(*     the blocking call of a Blocked task on the way, and lets it do one  *)
(*     Process.Step (the actions on cur), or                               *)
(*   - finds none and sleeps for a millisecond, which changes nothing, or  *)
(*     returns.                                                            *)
(* Pick and the step that follows are two actions of the same goroutine,   *)
(* so no other task comes between them.                                    *)
(*                                                                         *)
(* s.order lists the tasks in the order of their pids, so it is left out:  *)
(* "first in s.order" is "lowest pid".  What the instructions of a task    *)
(* compute is arbitrary; the system calls that reach the scheduler are     *)
(* fork, clone, wait4, exit and the calls that block (futex and pipes,     *)
(* here one kind of block, which the environment ends).                    *)
(***************************************************************************)
EXTENDS Integers, FiniteSets

CONSTANTS
    MaxPid,       \* bound: pids ever given out
    Budgets       \* the instruction budgets Run is called with; 0 is none

ASSUME SchedulerAssumption ==
    /\ MaxPid \in Nat \ {0}
    /\ Budgets \subseteq Nat

Pid == 1..MaxPid

(* A blockedWait record: the pid asked for; -1 (or 0) asks for any child.  *)
AnyChild == -1
NoWait == -2
Request == Pid \cup {AnyChild}

VARIABLES
    state,        \* state[p]: Process.State, "None" if p is not registered
    parent,       \* parent[p]: Process.ParentPID, 0 for the root
    reaped,       \* reaped[p]: Task.Reaped
    wait,         \* wait[p]: Kernel.blockedWait, NoWait for nil
    blocked,      \* blocked[p]: Kernel.blockedFutex or blockedPipe is set
    wakeable,     \* tasks whose futex or pipe would let them go on
    fatal,        \* fatal[p]: a signal with the default action "die" pends
    nextPID,      \* Scheduler.nextPID
    cur,          \* the task picked and not yet stepped; 0 between steps
    maxSteps,     \* the budget Run was called with
    steps,        \* Scheduler.steps
    ctxDone,      \* the context of Run is done
    run           \* what Run has returned; "loop" while it is running

schedulerVars == <<state, parent, reaped, wait, blocked, wakeable, fatal, nextPID, cur, maxSteps, steps, ctxDone, run>>

State == {"None", "Ready", "Running", "Exited", "Faulted", "Blocked"}

SchedulerTypeOK ==
    /\ state \in [Pid -> State]
    /\ parent \in [Pid -> 0..MaxPid]
    /\ reaped \in [Pid -> BOOLEAN]
    /\ wait \in [Pid -> Request \cup {NoWait}]
    /\ blocked \in [Pid -> BOOLEAN]
    /\ wakeable \in SUBSET Pid
    /\ fatal \in [Pid -> BOOLEAN]
    /\ nextPID \in 2..MaxPid + 1
    /\ cur \in 0..MaxPid
    /\ maxSteps \in Budgets
    /\ steps \in Nat
    /\ ctxDone \in BOOLEAN
    /\ run \in {"loop", "done", "cancelled", "limit", "fault"}

(* NewScheduler: the root process is task 1.                               *)
SchedulerInit ==
    /\ state = [p \in Pid |-> IF p = 1 THEN "Ready" ELSE "None"]
    /\ parent = [p \in Pid |-> 0]
    /\ reaped = [p \in Pid |-> FALSE]
    /\ wait = [p \in Pid |-> NoWait]
    /\ blocked = [p \in Pid |-> FALSE]
    /\ wakeable = {}
    /\ fatal = [p \in Pid |-> FALSE]
    /\ nextPID = 2
    /\ cur = 0
    /\ maxSteps \in Budgets
    /\ steps = 0
    /\ ctxDone = FALSE
    /\ run = "loop"

-----------------------------------------------------------------------------
(* wait4: the children it considers, and the first of them.                *)
Children(p, requested) ==
    {c \in Pid : /\ state[c] # "None"
                 /\ ~reaped[c]
                 /\ parent[c] = p
                 /\ requested > 0 => c = requested}

First(S) == CHOOSE p \in S : \A q \in S : p <= q

(* A blocked wait4 completes when the first child considered has exited,   *)
(* or when there is no child to consider any more.                         *)
WaitCompletes(p, requested) ==
    LET C == Children(p, requested) IN C # {} => state[First(C)] = "Exited"

HasBlocked(p) == blocked[p] \/ wait[p] # NoWait

(* Mutant: a blocked wait4 is only retried after a wake-up.                *)
CanResumeWoken(p) == HasBlocked(p) => p \in wakeable

(* TryResumeBlocked: the wait is looked at before the futex or the pipe.   *)
CanResume(p) ==
    IF wait[p] # NoWait THEN WaitCompletes(p, wait[p]) ELSE blocked[p] => p \in wakeable

(* The tasks Scheduler.Step skips.                                         *)
Skipped(p) ==
    \/ state[p] \in {"None", "Exited"}
    \/ reaped[p]
    \/ state[p] = "Blocked" /\ ~CanResume(p)

Runnable == {p \in Pid : ~Skipped(p)}

AtHead == run = "loop" /\ cur = 0

WithinBudget == maxSteps = 0 \/ steps < maxSteps

(* Scheduler.Step chooses a task and completes its blocking call: a wait4  *)
(* reaps the child, unless the status cannot be stored (EFAULT); a write   *)
(* that finds the readers gone raises SIGPIPE.                             *)
Pick ==
    /\ AtHead /\ ~ctxDone /\ WithinBudget
    /\ Runnable # {}
    /\ LET p == First(Runnable)
           C == Children(p, wait[p])
       IN  /\ cur' = p
           /\ IF state[p] = "Blocked" /\ wait[p] # NoWait
              THEN \/ C = {} /\ UNCHANGED reaped
                   \/ C # {} /\ reaped' = [reaped EXCEPT ![First(C)] = TRUE]
                   \/ C # {} /\ UNCHANGED reaped
              ELSE UNCHANGED reaped
           /\ state' = [state EXCEPT ![p] = IF @ = "Blocked" THEN "Ready" ELSE @]
           /\ wait' = [wait EXCEPT ![p] = NoWait]
           /\ blocked' = [blocked EXCEPT ![p] = FALSE]
           /\ wakeable' = wakeable \ {p}
           /\ UNCHANGED fatal \/ (blocked[p] /\ fatal' = [fatal EXCEPT ![p] = TRUE])
    /\ UNCHANGED <<parent, nextPID, maxSteps, steps, ctxDone, run>>

-----------------------------------------------------------------------------
(* Mutant: a step is not counted.                                          *)
SteppedUncounted(st) ==
    /\ state' = [state EXCEPT ![cur] = st]
    /\ cur' = 0
    /\ UNCHANGED <<maxSteps, steps, ctxDone, run>>

(* The end of a successful Process.Step that leaves its task in state st.  *)
(* The counter matters only when there is a budget.                        *)
Stepped(st) ==
    /\ state' = [state EXCEPT ![cur] = st]
    /\ cur' = 0
    /\ steps' = IF maxSteps = 0 THEN steps ELSE steps + 1
    /\ UNCHANGED <<maxSteps, ctxDone, run>>

(* Process.Step looks at the signals first; it executes only without one.  *)
Executes == cur # 0 /\ ~fatal[cur]

(* Any step without effect on other tasks, the delivery of a signal to a   *)
(* handler and the dropping of an ignored one included.                    *)
Compute ==
    /\ Executes
    /\ Stepped("Running")
    /\ UNCHANGED <<parent, reaped, wait, blocked, wakeable, fatal, nextPID>>

(* fork, and clone of a thread: both register a child of the caller.       *)
Fork ==
    /\ Executes
    /\ nextPID \in Pid
    /\ nextPID' = nextPID + 1
    /\ state' = [state EXCEPT ![cur] = "Running", ![nextPID] = "Ready"]
    /\ parent' = [parent EXCEPT ![nextPID] = cur]
    /\ cur' = 0
    /\ steps' = IF maxSteps = 0 THEN steps ELSE steps + 1
    /\ UNCHANGED <<reaped, wait, blocked, wakeable, fatal, maxSteps, ctxDone, run>>

(* clone with a bad TID address: the pid is used up, no task registered.   *)
CloneFails ==
    /\ Executes
    /\ nextPID \in Pid
    /\ nextPID' = nextPID + 1
    /\ Stepped("Running")
    /\ UNCHANGED <<parent, reaped, wait, blocked, wakeable, fatal>>

(* Mutant: wait4 blocks without looking for a child.                       *)
Wait4Blocks(requested, wnohang) ==
    /\ Executes
    /\ Stepped("Blocked")
    /\ wait' = [wait EXCEPT ![cur] = requested]
    /\ UNCHANGED <<parent, reaped, blocked, wakeable, fatal, nextPID>>

(* Mutant: wait4 reaps a child whether or not it has exited.               *)
Wait4ReapsAny(requested, wnohang) ==
    LET C == Children(cur, requested) IN
    /\ Executes
    /\ Stepped("Running")
    /\ reaped' = IF C = {} THEN reaped ELSE [reaped EXCEPT ![First(C)] = TRUE]
    /\ UNCHANGED <<parent, wait, blocked, wakeable, fatal, nextPID>>

(* wait4 as a system call; WNOHANG never blocks.                           *)
Wait4(requested, wnohang) ==
    /\ Executes
    /\ LET C == Children(cur, requested)
       IN  \/ /\ C = {}
              /\ Stepped("Running")
              /\ UNCHANGED <<reaped, wait>>
           \/ /\ C # {} /\ state[First(C)] = "Exited"
              /\ Stepped("Running")
              /\ \/ reaped' = [reaped EXCEPT ![First(C)] = TRUE]
                 \/ UNCHANGED reaped
              /\ UNCHANGED wait
           \/ /\ C # {} /\ state[First(C)] # "Exited"
              /\ IF wnohang
                 THEN Stepped("Running") /\ UNCHANGED wait
                 ELSE Stepped("Blocked") /\ wait' = [wait EXCEPT ![cur] = requested]
              /\ UNCHANGED reaped
    /\ UNCHANGED <<parent, blocked, wakeable, fatal, nextPID>>

(* A futex or pipe call that has to wait.                                  *)
Block ==
    /\ Executes
    /\ blocked' = [blocked EXCEPT ![cur] = TRUE]
    /\ Stepped("Blocked")
    /\ UNCHANGED <<parent, reaped, wait, wakeable, fatal, nextPID>>

Exit ==
    /\ Executes
    /\ Stepped("Exited")
    /\ UNCHANGED <<parent, reaped, wait, blocked, wakeable, fatal, nextPID>>

(* kill(self), or a write to a pipe without readers (SIGPIPE).             *)
Kill ==
    /\ Executes
    /\ fatal' = [fatal EXCEPT ![cur] = TRUE]
    /\ Stepped("Running")
    /\ UNCHANGED <<parent, reaped, wait, blocked, wakeable, nextPID>>

DieBySignal ==
    /\ cur # 0 /\ fatal[cur]
    /\ fatal' = [fatal EXCEPT ![cur] = FALSE]
    /\ Stepped("Exited")
    /\ UNCHANGED <<parent, reaped, wait, blocked, wakeable, nextPID>>

(* An instruction faults, or a handler's frame cannot be stored: the error *)
(* ends Run.                                                               *)
Fault ==
    /\ cur # 0
    /\ state' = [state EXCEPT ![cur] = "Faulted"]
    /\ cur' = 0
    /\ run' = "fault"
    /\ UNCHANGED <<parent, reaped, wait, blocked, wakeable, fatal, nextPID, maxSteps, steps, ctxDone>>

TaskStep ==
    \/ Compute \/ Fork \/ CloneFails \/ Block \/ Exit \/ Kill \/ DieBySignal \/ Fault
    \/ \E requested \in Request, wnohang \in BOOLEAN : Wait4(requested, wnohang)

-----------------------------------------------------------------------------
(* Run gives up: its context is done, or the budget is used up.            *)
Stop ==
    /\ AtHead
    /\ ctxDone \/ ~WithinBudget
    /\ run' = IF ctxDone THEN "cancelled" ELSE "limit"
    /\ UNCHANGED <<state, parent, reaped, wait, blocked, wakeable, fatal, nextPID, cur, maxSteps, steps, ctxDone>>

(* No task can go on and none is Blocked: Run returns nil.  While some     *)
(* task is Blocked, Run sleeps and looks again, which changes nothing.     *)
Finish ==
    /\ AtHead /\ ~ctxDone /\ WithinBudget
    /\ Runnable = {}
    /\ \A p \in Pid : state[p] = "Blocked" => reaped[p]
    /\ run' = "done"
    /\ UNCHANGED <<state, parent, reaped, wait, blocked, wakeable, fatal, nextPID, cur, maxSteps, steps, ctxDone>>

(* The environment: a futex is woken or times out, a pipe becomes ready.   *)
Wake ==
    /\ \E p \in Pid : blocked[p] /\ p \notin wakeable /\ wakeable' = wakeable \cup {p}
    /\ UNCHANGED <<state, parent, reaped, wait, blocked, fatal, nextPID, cur, maxSteps, steps, ctxDone, run>>

Cancel ==
    /\ ~ctxDone
    /\ ctxDone' = TRUE
    /\ UNCHANGED <<state, parent, reaped, wait, blocked, wakeable, fatal, nextPID, cur, maxSteps, steps, run>>

Loop == Pick \/ TaskStep \/ Stop \/ Finish

SchedulerNext == Loop \/ Wake \/ Cancel

(* The goroutine of Run is never stopped by anyone else.                   *)
SchedulerSpec == SchedulerInit /\ [][SchedulerNext]_schedulerVars /\ WF_schedulerVars(Loop)

-----------------------------------------------------------------------------
(* A task is Blocked exactly when its kernel holds the record of a call    *)
(* that waits, so Run neither resumes a task with nothing to complete nor  *)
(* steps one whose call is still open; and a task blocked in wait4 still   *)
(* has a child of those it asked for: nobody else can reap it, so the wait *)
(* can end.                                                                *)
BlockedCanEnd ==
    \A p \in Pid : /\ state[p] = "Blocked" <=> HasBlocked(p)
                   /\ wait[p] # NoWait => Children(p, wait[p]) # {}

(* Run returns nil only when every task has exited: no runnable, blocked   *)
(* or faulted task is left behind.                                         *)
DoneMeansExited == run = "done" => \A p \in Pid : state[p] \in {"None", "Exited"}

(* A child is reaped at most once, after it exited, and only by the task   *)
(* that created it, whether wait4 returns at once or is resumed later.     *)
ReapedOnceByParent ==
    [][\A c \in Pid : reaped'[c] # reaped[c] =>
          /\ reaped'[c] /\ state[c] = "Exited"
          /\ parent[c] = (IF cur = 0 THEN cur' ELSE cur)]_schedulerVars

(* The tasks that could go on if they were picked.                         *)
Able(p) ==
    /\ ~reaped[p]
    /\ \/ state[p] \in {"Ready", "Running"}
       \/ wait[p] # NoWait /\ WaitCompletes(p, wait[p])
       \/ wait[p] = NoWait /\ blocked[p] /\ p \in wakeable

(* A task that can go on waits only for older ones: as long as none of     *)
(* them can go on, it is stepped next, and so is a task whose wait4 can    *)
(* complete.  (Younger tasks starve behind a busy older one.)              *)
StarvedOnlyByOlder ==
    \A p \in Pid : (Able(p) /\ \A q \in 1..(p - 1) : ~Able(q)) ~> (cur = p \/ run # "loop" \/ \E q \in 1..(p - 1) : Able(q))

(* Run can be stopped: cancelling the context ends it even when every task *)
(* is blocked, and with a budget it ends or comes to a point where no task *)
(* can go on, since every step of every task is counted.                   *)
RunCanBeStopped ==
    /\ ctxDone ~> run # "loop"
    /\ maxSteps # 0 => <>(run # "loop" \/ Runnable = {})
=============================================================================
