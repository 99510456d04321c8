------------------------------- MODULE Futex -------------------------------
(***************************************************************************)
(* FUTEX_WAIT and FUTEX_WAKE (Kernel.futex, removeFutexWaiter and          *)
(* TryResumeBlockedFutex in internal/kernel/syscall.go).                   *)
(*                                                                         *)
(* The waiter queues are keyed by the guest address alone and shared by    *)
(* every kernel cloned from the root, for threads and for forks alike, so  *)
(* tasks of different address spaces meet in one queue.  In a kernel that  *)
(* is schedulerAware the scheduler retries a waiting task; otherwise every *)
(* task has a goroutine of its own and waits inside the call, in a select  *)
(* over its channel, its timer and the run's context.                      *)
(***************************************************************************)
EXTENDS Naturals, Sequences

CONSTANTS
    Task,       \* the tasks
    Space,      \* the address spaces
    spaceOf,    \* spaceOf[p]: the address space of task p
    Addr,       \* the futex addresses
    NoAddr,     \* stands for no address
    Value,      \* what a futex word may hold
    Init0,      \* the value every word starts with
    MaxWake     \* bound: the largest count FUTEX_WAKE is called with

ASSUME FutexAssumption ==
    /\ spaceOf \in [Task -> Space]
    /\ NoAddr \notin Addr
    /\ Init0 \in Value
    /\ MaxWake \in Nat

VARIABLES
    schedulerAware, \* Kernel.schedulerAware, set before the first call
    word,           \* word[s][a]: the futex word at a in space s
    futexWaiters,   \* futexWaiters[a]: the tasks that own the channels
    waiting,        \* waiting[p]: blockedFutex.uaddr, or NoAddr
    comparing,      \* the waiting tasks that have compared and not yet queued
    timed,          \* the waiting tasks that gave a timeout
    expired,        \* the timed tasks whose deadline has passed
    woken,          \* the tasks whose channel has been closed
    result,         \* result[p]: what the last futex call of p returned
    runCancelled    \* the context of the run is done

futexVars == <<schedulerAware, word, futexWaiters, waiting, comparing, timed, expired, woken, result, runCancelled>>

Result == {"none", "ok", "again", "timedout", "interrupted"}

FutexTypeOK ==
    /\ schedulerAware \in BOOLEAN
    /\ word \in [Space -> [Addr -> Value]]
    /\ futexWaiters \in [Addr -> Seq(Task)]
    /\ waiting \in [Task -> Addr \cup {NoAddr}]
    /\ comparing \in SUBSET Task
    /\ timed \in SUBSET Task
    /\ expired \in SUBSET timed
    /\ woken \in SUBSET Task
    /\ result \in [Task -> Result]
    /\ runCancelled \in BOOLEAN

FutexInit ==
    /\ schedulerAware \in BOOLEAN
    /\ word = [s \in Space |-> [a \in Addr |-> Init0]]
    /\ futexWaiters = [a \in Addr |-> <<>>]
    /\ waiting = [p \in Task |-> NoAddr]
    /\ comparing = {}
    /\ timed = {}
    /\ expired = {}
    /\ woken = {}
    /\ result = [p \in Task |-> "none"]
    /\ runCancelled = FALSE

-----------------------------------------------------------------------------
Running(p) == waiting[p] = NoAddr

(* The task stores into a word of its address space, without a call.       *)
Store(p, a, v) ==
    /\ Running(p)
    /\ word' = [word EXCEPT ![spaceOf[p]][a] = v]
    /\ UNCHANGED <<schedulerAware, futexWaiters, waiting, comparing, timed, expired, woken, result, runCancelled>>

(* FUTEX_WAIT: the word is compared and the waiter queued in one call.     *)
(* Under the scheduler no other task runs in between; without it futexMu   *)
(* is taken only for the queue, so that another goroutine may come first.  *)
FutexWait(p, a, v, timeout) ==
    /\ Running(p)
    /\ IF word[spaceOf[p]][a] # v
       THEN /\ result' = [result EXCEPT ![p] = "again"]
            /\ UNCHANGED <<futexWaiters, waiting, comparing, timed>>
       ELSE /\ futexWaiters' = IF schedulerAware THEN [futexWaiters EXCEPT ![a] = Append(@, p)] ELSE futexWaiters
            /\ waiting' = [waiting EXCEPT ![p] = a]
            /\ comparing' = IF schedulerAware THEN comparing ELSE comparing \cup {p}
            /\ timed' = IF timeout THEN timed \cup {p} ELSE timed
            /\ result' = [result EXCEPT ![p] = "none"]
    /\ UNCHANGED <<schedulerAware, word, expired, woken, runCancelled>>

Enqueue(p) ==
    /\ p \in comparing
    /\ comparing' = comparing \ {p}
    /\ futexWaiters' = [futexWaiters EXCEPT ![waiting[p]] = Append(@, p)]
    /\ UNCHANGED <<schedulerAware, word, waiting, timed, expired, woken, result, runCancelled>>

(* FUTEX_WAKE: close the channels of the first n waiters and drop them.    *)
FutexWake(p, a, n) ==
    LET limit == IF n <= Len(futexWaiters[a]) THEN n ELSE Len(futexWaiters[a]) IN
    /\ Running(p)
    /\ woken' = woken \cup {futexWaiters[a][j] : j \in 1..limit}
    /\ futexWaiters' = [futexWaiters EXCEPT ![a] = SubSeq(@, limit + 1, Len(@))]
    /\ result' = [result EXCEPT ![p] = "ok"]
    /\ UNCHANGED <<schedulerAware, word, waiting, comparing, timed, expired, runCancelled>>

Expire(p) ==
    /\ p \in timed \ (expired \cup comparing)
    /\ expired' = expired \cup {p}
    /\ UNCHANGED <<schedulerAware, word, futexWaiters, waiting, comparing, timed, woken, result, runCancelled>>

(* The run is cancelled.  Under the scheduler this ends the run itself     *)
(* (module Scheduler); a task inside the call sees its context done.       *)
CancelRun ==
    /\ ~schedulerAware /\ ~runCancelled
    /\ runCancelled' = TRUE
    /\ UNCHANGED <<schedulerAware, word, futexWaiters, waiting, comparing, timed, expired, woken, result>>

(* The first place of p in the queue is closed up.                         *)
removeFutexWaiter(q, p) ==
    IF \A i \in 1..Len(q) : q[i] # p
    THEN q
    ELSE LET at == CHOOSE i \in 1..Len(q) : q[i] = p /\ \A j \in 1..(i - 1) : q[j] # p
         IN  [i \in 1..(Len(q) - 1) |-> IF i < at THEN q[i] ELSE q[i + 1]]

(* Mutant: the waiter of a call that timed out stays in the queue.         *)
ReturnKeepsWaiter(p, r) ==
    /\ waiting' = [waiting EXCEPT ![p] = NoAddr]
    /\ timed' = timed \ {p}
    /\ expired' = expired \ {p}
    /\ woken' = woken \ {p}
    /\ result' = [result EXCEPT ![p] = r]
    /\ UNCHANGED <<schedulerAware, word, comparing, runCancelled, futexWaiters>>

(* The wait of p is over with outcome r.                                   *)
FutexReturn(p, r) ==
    /\ futexWaiters' = [futexWaiters EXCEPT ![waiting[p]] = removeFutexWaiter(@, p)]
    /\ waiting' = [waiting EXCEPT ![p] = NoAddr]
    /\ timed' = timed \ {p}
    /\ expired' = expired \ {p}
    /\ woken' = woken \ {p}
    /\ result' = [result EXCEPT ![p] = r]
    /\ UNCHANGED <<schedulerAware, word, comparing, runCancelled>>

(* Mutant: the deadline is never looked at.                                *)
ResumeWokenOnly(p) ==
    /\ schedulerAware
    /\ ~Running(p)
    /\ p \in woken
    /\ FutexReturn(p, "ok")

(* Mutant: a passed deadline is reported as a wake-up.                     *)
ResumeExpiredAsWoken(p) ==
    /\ schedulerAware
    /\ ~Running(p)
    /\ p \in expired \cup woken
    /\ FutexReturn(p, "ok")

(* TryResumeBlockedFutex looks at the deadline before the channel.         *)
TryResumeBlockedFutex(p) ==
    /\ schedulerAware
    /\ ~Running(p)
    /\ \/ p \in expired /\ FutexReturn(p, "timedout")
       \/ p \in woken \ expired /\ FutexReturn(p, "ok")

(* Without the scheduler, select picks any of the cases that are ready.  A *)
(* context that is done because its own deadline passed turns a wait with  *)
(* a timeout into a timeout.                                               *)
SelectReturns(p) ==
    /\ ~schedulerAware
    /\ ~Running(p) /\ p \notin comparing
    /\ \/ p \in woken /\ FutexReturn(p, "ok")
       \/ p \in expired /\ FutexReturn(p, "timedout")
       \/ runCancelled /\ FutexReturn(p, "interrupted")
       \/ runCancelled /\ p \in timed /\ FutexReturn(p, "timedout")

Ends(p) == Enqueue(p) \/ TryResumeBlockedFutex(p) \/ SelectReturns(p)

FutexNext ==
    \/ \E p \in Task :
         \/ \E a \in Addr, v \in Value :
              Store(p, a, v) \/ \E timeout \in BOOLEAN : FutexWait(p, a, v, timeout)
         \/ \E a \in Addr, n \in 0..MaxWake : FutexWake(p, a, n)
         \/ Expire(p)
         \/ Ends(p)
    \/ CancelRun

(* The scheduler steps blocked tasks over and over (and select wakes up),  *)
(* and time passes.                                                        *)
FutexFairness == \A p \in Task : WF_futexVars(Ends(p)) /\ WF_futexVars(Expire(p))

FutexSpec == FutexInit /\ [][FutexNext]_futexVars /\ FutexFairness

-----------------------------------------------------------------------------
Members(q) == {q[j] : j \in 1..Len(q)}

(* A queue holds exactly the tasks that wait at its address and were not   *)
(* woken, each of them once: a wake is never spent on a task that already  *)
(* returned (the waiter of a timed-out or interrupted call is removed),    *)
(* and no waiting task is left out of reach of every wake.                 *)
QueueIsExact ==
    \A a \in Addr :
        /\ Members(futexWaiters[a]) = {p \in Task : waiting[p] = a /\ p \notin woken \cup comparing}
        /\ \A i, j \in 1..Len(futexWaiters[a]) : futexWaiters[a][i] = futexWaiters[a][j] => i = j

(* A wait returns success only to a task that a wake chose, only a wait    *)
(* with a timeout reports one, and only a cancelled run interrupts a wait, *)
(* whichever of the three come together.                                   *)
SuccessIsEarned ==
    [][\A p \in Task : ~Running(p) /\ waiting'[p] = NoAddr =>
          /\ result'[p] = "ok" => p \in woken
          /\ result'[p] = "timedout" => p \in timed
          /\ result'[p] = "interrupted" => runCancelled]_futexVars

(* A wait that was woken or has a timeout ends, and without the scheduler  *)
(* so does every wait once the run is cancelled, also one whose wake came  *)
(* between its comparison and its queueing and was missed.                 *)
WaitEnds ==
    \A p \in Task :
        (p \in woken \cup timed \/ (~schedulerAware /\ runCancelled /\ ~Running(p))) ~> Running(p)
=============================================================================
