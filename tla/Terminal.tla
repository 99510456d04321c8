------------------------------ MODULE Terminal ------------------------------
(***************************************************************************)
(* The in-process terminal of internal/pty/pty.go: an input queue (host to *)
(* guest) and an output queue (guest to host), one mutex, and for each     *)
(* queue a wake-up channel of capacity one.                                *)
(*                                                                         *)
(* A critical section under t.mu is one action.  What happens outside the  *)
(* mutex is a separate action: the wait in the select of read/WaitInput,   *)
(* and the channel signals that Close and CloseInput send after they have  *)
(* released the mutex.  Each queue has one reader, as in the programs that *)
(* use the package: the scheduler goroutine reads the input, one host      *)
(* goroutine reads the output.  Any number of goroutines write.            *)
(***************************************************************************)
EXTENDS Naturals, Sequences

CONSTANTS
    Byte,          \* the bytes that are sent
    Newline,       \* stands for both '\n' and '\r'
    Canonical,     \* Terminal.Canonical: input is handed over by lines
    Echo,          \* Terminal.Echo: input is copied to the output
    Chunk,         \* what one Write call may carry: non-empty byte sequences
    Size,          \* the lengths of the buffers passed to a read
    MaxSent,       \* bound: bytes ever accepted by each queue
    MaxOwed        \* bound: signals of Close/CloseInput outstanding per queue

ASSUME TerminalAssumption ==
    /\ Newline \in Byte
    /\ Canonical \in BOOLEAN
    /\ Echo \in BOOLEAN
    /\ Chunk \subseteq Seq(Byte) \ {<<>>}
    /\ Size \subseteq Nat \ {0}
    /\ MaxSent \in Nat
    /\ MaxOwed \in Nat

Side == {"input", "output"}

VARIABLES
    queue,         \* queue[s]: t.input, t.output
    wake,          \* wake[s]: a token is in t.inputWake, t.outputWake
    closed,        \* t.closed
    inputClosed,   \* t.inputClosed
    reader,        \* reader[s]: where the goroutine reading side s stands
    outcome,       \* outcome[s]: what its last call returned
    cancelled,     \* cancelled[s]: the context of that goroutine is done
    owed,          \* owed[s]: signals of Close/CloseInput not yet sent to s
    received       \* received[s]: every byte the reader was given (history)

tvars == <<queue, wake, closed, inputClosed, reader, outcome, cancelled, owed, received>>

(* "check" and "check-wait" are the loop heads of read and WaitInput,      *)
(* "select" and "select-wait" their waits on the wake-up channel.          *)
ReaderState == {"idle", "check", "select", "check-wait", "select-wait"}
Outcome == {"none", "data", "eof", "cancelled", "ready"}

TypeOK ==
    /\ queue \in [Side -> Seq(Byte)]
    /\ wake \in [Side -> BOOLEAN]
    /\ closed \in BOOLEAN
    /\ inputClosed \in BOOLEAN
    /\ reader \in [Side -> ReaderState]
    /\ outcome \in [Side -> Outcome]
    /\ cancelled \in [Side -> BOOLEAN]
    /\ owed \in [Side -> Nat]
    /\ received \in [Side -> Seq(Byte)]

TermInit ==
    /\ queue = [s \in Side |-> <<>>]
    /\ wake = [s \in Side |-> FALSE]
    /\ closed = FALSE
    /\ inputClosed = FALSE
    /\ reader = [s \in Side |-> "idle"]
    /\ outcome = [s \in Side |-> "none"]
    /\ cancelled = [s \in Side |-> FALSE]
    /\ owed = [s \in Side |-> 0]
    /\ received = [s \in Side |-> <<>>]

-----------------------------------------------------------------------------
containsNewline(data) == \E i \in 1..Len(data) : data[i] = Newline

(* The condition under which read hands over bytes of side s.              *)
Deliverable(s, data) ==
    /\ data # <<>>
    /\ s = "output" \/ ~Canonical \/ containsNewline(data)

Shut(s) == closed \/ (s = "input" /\ inputClosed)

inputReadyLocked == Shut("input") \/ Deliverable("input", queue["input"])

Room(s, data) == Len(received[s]) + Len(queue[s]) + Len(data) <= MaxSent

(* Mutant: the reader is signalled only when the queue was empty.          *)
WriteInputSignalsOnce(data) ==
    /\ ~closed /\ ~inputClosed
    /\ Room("input", data)
    /\ Echo => Room("output", data)
    /\ queue' = [s \in Side |-> IF s = "input" \/ Echo THEN queue[s] \o data ELSE queue[s]]
    /\ wake' = [s \in Side |-> wake[s] \/ (queue[s] = <<>> /\ (s = "input" \/ Echo))]
    /\ UNCHANGED <<closed, inputClosed, reader, outcome, cancelled, owed, received>>

WriteInput(data) ==
    /\ ~closed /\ ~inputClosed
    /\ Room("input", data)
    /\ Echo => Room("output", data)
    /\ queue' = [s \in Side |-> IF s = "input" \/ Echo THEN queue[s] \o data ELSE queue[s]]
    /\ wake' = [s \in Side |-> s = "input" \/ Echo \/ wake[s]]
    /\ UNCHANGED <<closed, inputClosed, reader, outcome, cancelled, owed, received>>

WriteOutput(data) ==
    /\ ~closed
    /\ Room("output", data)
    /\ queue' = [queue EXCEPT !["output"] = @ \o data]
    /\ wake' = [wake EXCEPT !["output"] = TRUE]
    /\ UNCHANGED <<closed, inputClosed, reader, outcome, cancelled, owed, received>>

(* Close and CloseInput set their flags under the mutex and owe the        *)
(* signals, which Signal sends later.                                      *)
Close ==
    /\ closed' = TRUE
    /\ inputClosed' = TRUE
    /\ owed' = [s \in Side |-> owed[s] + 1]
    /\ UNCHANGED <<queue, wake, reader, outcome, cancelled, received>>

CloseInput ==
    /\ inputClosed' = TRUE
    /\ owed' = [owed EXCEPT !["input"] = @ + 1]
    /\ UNCHANGED <<queue, wake, closed, reader, outcome, cancelled, received>>

Signal(s) ==
    /\ owed[s] > 0
    /\ owed' = [owed EXCEPT ![s] = @ - 1]
    /\ wake' = [wake EXCEPT ![s] = TRUE]
    /\ UNCHANGED <<queue, closed, inputClosed, reader, outcome, cancelled, received>>

(* A call with an empty buffer returns at once and changes nothing, so     *)
(* only calls with a non-empty buffer are modelled.                        *)
ReadStart(s) ==
    /\ reader[s] = "idle"
    /\ reader' = [reader EXCEPT ![s] = "check"]
    /\ outcome' = [outcome EXCEPT ![s] = "none"]
    /\ UNCHANGED <<queue, wake, closed, inputClosed, cancelled, owed, received>>

Return(s, result) ==
    /\ reader' = [reader EXCEPT ![s] = "idle"]
    /\ outcome' = [outcome EXCEPT ![s] = result]

(* Mutant: a closed side is reported before its bytes are handed over.     *)
ReadCheckClosedFirst(s, size) ==
    /\ reader[s] = "check"
    /\ IF Shut(s)
       THEN Return(s, "eof") /\ UNCHANGED <<queue, received>>
       ELSE IF Deliverable(s, queue[s])
       THEN LET n == IF size < Len(queue[s]) THEN size ELSE Len(queue[s])
            IN  /\ queue' = [queue EXCEPT ![s] = SubSeq(@, n + 1, Len(@))]
                /\ received' = [received EXCEPT ![s] = @ \o SubSeq(queue[s], 1, n)]
                /\ Return(s, "data")
       ELSE reader' = [reader EXCEPT ![s] = "select"] /\ UNCHANGED <<queue, received, outcome>>
    /\ UNCHANGED <<wake, closed, inputClosed, cancelled, owed>>

(* One pass of the loop of read with a buffer of size bytes.               *)
ReadCheck(s, size) ==
    /\ reader[s] = "check"
    /\ IF Deliverable(s, queue[s])
       THEN LET n == IF size < Len(queue[s]) THEN size ELSE Len(queue[s])
            IN  /\ queue' = [queue EXCEPT ![s] = SubSeq(@, n + 1, Len(@))]
                /\ received' = [received EXCEPT ![s] = @ \o SubSeq(queue[s], 1, n)]
                /\ Return(s, "data")
       ELSE /\ UNCHANGED <<queue, received>>
            /\ IF Shut(s)
               THEN Return(s, "eof")
               ELSE /\ reader' = [reader EXCEPT ![s] = "select"]
                    /\ UNCHANGED outcome
    /\ UNCHANGED <<wake, closed, inputClosed, cancelled, owed>>

(* Mutant: the select of WaitInput has no case for its wake-up channel.    *)
WokenReadOnly(s) ==
    /\ reader[s] = "select"
    /\ wake[s]
    /\ wake' = [wake EXCEPT ![s] = FALSE]
    /\ reader' = [reader EXCEPT ![s] = "check"]
    /\ UNCHANGED <<queue, closed, inputClosed, outcome, cancelled, owed, received>>

Woken(s) ==
    /\ reader[s] \in {"select", "select-wait"}
    /\ wake[s]
    /\ wake' = [wake EXCEPT ![s] = FALSE]
    /\ reader' = [reader EXCEPT ![s] = IF @ = "select" THEN "check" ELSE "check-wait"]
    /\ UNCHANGED <<queue, closed, inputClosed, outcome, cancelled, owed, received>>

Abandon(s) ==
    /\ reader[s] \in {"select", "select-wait"}
    /\ cancelled[s]
    /\ Return(s, "cancelled")
    /\ UNCHANGED <<queue, wake, closed, inputClosed, cancelled, owed, received>>

(* WaitInput: the wait of poll(2), which consumes no input.                *)
WaitStart ==
    /\ reader["input"] = "idle"
    /\ reader' = [reader EXCEPT !["input"] = "check-wait"]
    /\ outcome' = [outcome EXCEPT !["input"] = "none"]
    /\ UNCHANGED <<queue, wake, closed, inputClosed, cancelled, owed, received>>

WaitCheck ==
    /\ reader["input"] = "check-wait"
    /\ IF inputReadyLocked
       THEN Return("input", "ready")
       ELSE /\ reader' = [reader EXCEPT !["input"] = "select-wait"]
            /\ UNCHANGED outcome
    /\ UNCHANGED <<queue, wake, closed, inputClosed, cancelled, owed, received>>

(* DrainOutput empties the output queue without waiting.                   *)
DrainOutput ==
    /\ queue["output"] # <<>>
    /\ reader["output"] = "idle"
    /\ queue' = [queue EXCEPT !["output"] = <<>>]
    /\ received' = [received EXCEPT !["output"] = @ \o queue["output"]]
    /\ UNCHANGED <<wake, closed, inputClosed, reader, outcome, cancelled, owed>>

Cancel(s) ==
    /\ ~cancelled[s]
    /\ cancelled' = [cancelled EXCEPT ![s] = TRUE]
    /\ UNCHANGED <<queue, wake, closed, inputClosed, reader, outcome, owed, received>>

(* A pass of the reader of side s: everything that goroutine does once it  *)
(* has entered a call.                                                     *)
ReaderStep(s) ==
    \/ \E size \in Size : ReadCheck(s, size)
    \/ Woken(s)
    \/ Abandon(s)
    \/ s = "input" /\ WaitCheck

(* Close and CloseInput may be called again, and by several goroutines;    *)
(* MaxOwed bounds how many of their signals are outstanding.               *)
Next ==
    \/ \E data \in Chunk : WriteInput(data) \/ WriteOutput(data)
    \/ (\A s \in Side : owed[s] < MaxOwed) /\ (Close \/ CloseInput)
    \/ \E s \in Side : Signal(s) \/ ReadStart(s) \/ ReaderStep(s) \/ Cancel(s)
    \/ WaitStart
    \/ DrainOutput

(* A goroutine inside a call keeps running, and one that owes a signal     *)
(* sends it; nobody is obliged to start a call.                            *)
Fairness == \A s \in Side : WF_tvars(ReaderStep(s)) /\ WF_tvars(Signal(s))

Spec == TermInit /\ [][Next]_tvars /\ Fairness

-----------------------------------------------------------------------------
(* Would the call the reader of s is in return, were it to look now?       *)
Satisfied(s) == Deliverable(s, queue[s]) \/ Shut(s)

Waiting(s) == reader[s] \in {"select", "select-wait"}

(* No lost wake-up: a goroutine waiting in the select of read or WaitInput *)
(* while there is something for it (bytes it may return, or a closed side) *)
(* has a token in its channel, or a Close/CloseInput that set its flag is  *)
(* still about to send one.  The check and the wait are not one step, and  *)
(* the channel holds a single token that stale signals may have filled.    *)
NoLostWakeup == \A s \in Side : Waiting(s) /\ Satisfied(s) => wake[s] \/ owed[s] > 0

(* A read or a wait for which there is something returns, whatever writers *)
(* and closers do meanwhile.                                               *)
ReadReturns == \A s \in Side : (reader[s] # "idle" /\ Satisfied(s)) ~> (reader[s] = "idle")

(* What Stream is told about each direction.                               *)
InputDeliverable(data) == Deliverable("input", data)
OutputDeliverable(data) == Deliverable("output", data)

InputStream == INSTANCE Stream WITH
    Deliverable <- InputDeliverable,
    sent <- received["input"] \o queue["input"],
    taken <- Len(received["input"]),
    open <- ~Shut("input"),
    ended <- outcome["input"] = "eof"

OutputStream == INSTANCE Stream WITH
    Deliverable <- OutputDeliverable,
    sent <- received["output"] \o queue["output"],
    taken <- Len(received["output"]),
    open <- ~Shut("output"),
    ended <- outcome["output"] = "eof"

(* Each direction is a byte stream: WriteInput/WriteOutput append, reads   *)
(* and DrainOutput take a prefix, nothing is accepted once the side is     *)
(* closed, and io.EOF is returned only when the side is closed and holds   *)
(* nothing a read could return.                                            *)
BothAreStreams == InputStream!Spec /\ OutputStream!Spec
=============================================================================
