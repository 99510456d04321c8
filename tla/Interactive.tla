---------------------------- MODULE Interactive ----------------------------
(***************************************************************************)
(* ishrun -interactive (cmd/ishrun/main.go): the terminal of module        *)
(* Terminal shared by four goroutines.                                     *)
(*   guest   runs Scheduler.Run and closes the terminal when it returns;   *)
(*   stdin   copies the host's standard input into the terminal;           *)
(*   main    copies the terminal's output to the host's standard output    *)
(*           until ReadOutput fails, then waits for the guest's result;    *)
(*   timer   cancels the context when -timeout expires.                    *)
(* The guest program is arbitrary: between two looks of Scheduler.Run at   *)
(* its context it may compute, write, read, poll, or exit.                 *)
(***************************************************************************)
EXTENDS Terminal

CONSTANT HasTimeout     \* was -timeout given?

ASSUME HasTimeoutAssumption == HasTimeout \in BOOLEAN

VARIABLES
    guest,      \* the goroutine of Scheduler.Run
    stdin,      \* the goroutine that copies standard input
    main,       \* the main goroutine
    done        \* the buffered channel done holds the result of Run

ivars == <<tvars, guest, stdin, main, done>>

InteractiveInit ==
    /\ TermInit
    /\ guest = "head"
    /\ stdin = "copy"
    /\ main = "read"
    /\ done = FALSE

(* The context of Run and of ReadOutput; no one passes it to the kernel.   *)
ctxDone == cancelled["output"]

-----------------------------------------------------------------------------
(* The head of the loop of Scheduler.Run: it looks at its context.         *)
RunHead ==
    /\ guest = "head"
    /\ guest' = IF ctxDone THEN "returned" ELSE "step"
    /\ UNCHANGED <<tvars, stdin, main, done>>

(* Run returns: the last task exited, one faulted, or the budget is spent. *)
RunReturns ==
    /\ guest = "step"
    /\ guest' = "returned"
    /\ UNCHANGED <<tvars, stdin, main, done>>

GuestComputes ==
    /\ guest = "step"
    /\ guest' = "head"
    /\ UNCHANGED <<tvars, stdin, main, done>>

GuestWrites ==
    /\ guest = "step"
    /\ \E data \in Chunk : WriteOutput(data)
    /\ guest' = "head"
    /\ UNCHANGED <<stdin, main, done>>

(* read(0): the kernel passes k.context(), which Scheduler.Run never set   *)
(* and which therefore is context.Background(): it is never cancelled.     *)
GuestReads ==
    /\ guest = "step"
    /\ ReadStart("input")
    /\ guest' = "read"
    /\ UNCHANGED <<stdin, main, done>>

GuestPolls ==
    /\ guest = "step"
    /\ WaitStart
    /\ guest' = "poll"
    /\ UNCHANGED <<stdin, main, done>>

(* The timeout of poll(2) expires in WaitInput.                            *)
PollTimeout ==
    /\ guest = "poll"
    /\ reader["input"] = "select-wait"
    /\ Return("input", "cancelled")
    /\ UNCHANGED <<queue, wake, closed, inputClosed, cancelled, owed, received>>
    /\ UNCHANGED <<guest, stdin, main, done>>

GuestInCall ==
    /\ guest \in {"read", "poll"}
    /\ ReaderStep("input")
    /\ UNCHANGED <<guest, stdin, main, done>>

GuestCallReturns ==
    /\ guest \in {"read", "poll"}
    /\ reader["input"] = "idle"
    /\ guest' = "head"
    /\ UNCHANGED <<tvars, stdin, main, done>>

SendDone ==
    /\ guest = "returned"
    /\ done' = TRUE
    /\ guest' = "close"
    /\ UNCHANGED <<tvars, stdin, main>>

(* Mutant: the guest goroutine ends without closing the terminal.          *)
CloseTTYForgotten ==
    /\ guest = "close"
    /\ guest' = "end"
    /\ UNCHANGED <<tvars, stdin, main, done>>

CloseTTY ==
    /\ guest = "close"
    /\ Close
    /\ guest' = "end"
    /\ UNCHANGED <<stdin, main, done>>

GuestStep ==
    \/ RunHead \/ RunReturns \/ GuestComputes \/ GuestWrites \/ GuestReads \/ GuestPolls
    \/ GuestInCall \/ GuestCallReturns \/ SendDone \/ CloseTTY

-----------------------------------------------------------------------------
StdinCopies ==
    /\ stdin = "copy"
    /\ \E data \in Chunk : WriteInput(data)
    /\ UNCHANGED <<guest, stdin, main, done>>

(* Mutant: the end of standard input is not passed on.                     *)
StdinEndsQuietly ==
    /\ stdin = "copy"
    /\ stdin' = "end"
    /\ UNCHANGED <<tvars, guest, main, done>>

(* Standard input ends, or WriteInput refuses because the terminal is      *)
(* closed: either way io.Copy returns and the input is closed.             *)
StdinEnds ==
    /\ stdin = "copy"
    /\ CloseInput
    /\ stdin' = "end"
    /\ UNCHANGED <<guest, main, done>>

SendSignal ==
    /\ \E s \in Side : Signal(s)
    /\ UNCHANGED <<guest, stdin, main, done>>

TimeoutFires ==
    /\ HasTimeout
    /\ Cancel("output")
    /\ UNCHANGED <<guest, stdin, main, done>>

MainReads ==
    /\ main = "read"
    /\ outcome["output"] \in {"none", "data"}
    /\ ReadStart("output") \/ ReaderStep("output")
    /\ UNCHANGED <<guest, stdin, main, done>>

MainStopsReading ==
    /\ main = "read"
    /\ reader["output"] = "idle"
    /\ outcome["output"] \in {"eof", "cancelled"}
    /\ main' = "join"
    /\ UNCHANGED <<tvars, guest, stdin, done>>

MainJoins ==
    /\ main = "join"
    /\ done
    /\ main' = "exit"
    /\ UNCHANGED <<tvars, guest, stdin, done>>

MainStep == MainReads \/ MainStopsReading \/ MainJoins

(* When main returns, os.Exit ends every goroutine.                        *)
InteractiveNext ==
    /\ main # "exit"
    /\ GuestStep \/ PollTimeout \/ StdinCopies \/ StdinEnds \/ SendSignal \/ TimeoutFires \/ MainStep

(* Go runs every goroutine that can run.  Nothing forces input to arrive,  *)
(* standard input to end, or the guest to finish.                          *)
InteractiveFairness ==
    /\ WF_ivars(GuestStep /\ main # "exit")
    /\ WF_ivars(MainStep)
    /\ WF_ivars(SendSignal /\ main # "exit")

InteractiveSpec == InteractiveInit /\ [][InteractiveNext]_ivars /\ InteractiveFairness

-----------------------------------------------------------------------------
(* Unless the timeout cut it short, ishrun leaves with every byte the      *)
(* guest wrote (and every echoed byte) shown: main stops reading only at   *)
(* end-of-file, after which the terminal accepts no output.                *)
AllOutputShown == main = "exit" /\ ~ctxDone => queue["output"] = <<>>

(* Once Scheduler.Run has returned, ishrun exits, although its main        *)
(* goroutine may be asleep in ReadOutput at that moment.                   *)
ExitsAfterGuest == guest = "returned" ~> main = "exit"

(* A guest that waits in read(0) gets on once standard input has ended.    *)
EOFReachesGuest == (guest = "read" /\ stdin = "end") ~> (guest # "read" \/ main = "exit")

(* "cancel execution after this duration": once the timeout has fired,     *)
(* ishrun ends.  The code does not keep this for a guest inside read(0).   *)
TimeoutEndsRun == ctxDone ~> main = "exit"
=============================================================================
