------------------------------- MODULE Window -------------------------------
(***************************************************************************)
(* The terminal window of cmd/ishgo/main.go over a session (module         *)
(* Session).  The window's own goroutine builds the view and then handles  *)
(* events.  In guest mode two more goroutines belong to it, the reader of  *)
(* the terminal's output and the watcher of the guest's end; in shell mode *)
(* each command runs in a goroutine of its own.  All of them change        *)
(* v.lines, under v.mu, except the end of newTerminalView, which assigns   *)
(* it without the mutex when the goroutines are already running.           *)
(*                                                                         *)
(* Closing the window ends the program, after which there is nothing left  *)
(* to say; it is left out.                                                 *)
(*                                                                         *)
(* A line of the screen is <<kind, number>>: "out" is a piece of guest     *)
(* output, "prompt" and "result" belong to a command, "note" is a message  *)
(* of the window.  Pieces and commands are numbered as they come.          *)
(***************************************************************************)
EXTENDS Session, Integers, Sequences

CONSTANTS
    Guest,        \* the call of StartGuest the window makes
    UI,           \* the window's goroutine, as a caller of GuestInput
    BufSize,      \* pieces one ReadOutput takes
    MaxPieces,    \* bound: pieces of output and commands
    MaxLines      \* bound: lines after which the user types no more

ASSUME WindowAssumption ==
    /\ Guest \in Call \ Elf
    /\ UI \in Typist
    /\ BufSize \in Nat \ {0}
    /\ MaxPieces \in Nat

VARIABLES
    guestMode,    \* v.guestMode
    ui,           \* the window's goroutine: "build", "reset", "loop"
    lines,        \* v.lines
    appending,    \* the pieces the reader is appending with v.mu held
    raced,        \* v.lines was assigned during that: its value is undefined
    output,       \* the terminal's output queue
    emitted,      \* history: pieces written to the terminal, or commands run
    reader,       \* "off", "read", "end"
    watcher,      \* "off", "wait", "end"
    pending,      \* v.pending
    commands      \* <<stage, number>> of each command's goroutine

view == <<guestMode, ui, lines, appending, raced, output, emitted, reader, watcher, pending, commands>>

Banner == << <<"note", 0>> >>

WindowInit ==
    /\ Init
    /\ guestMode \in BOOLEAN
    /\ ui = IF guestMode THEN "build" ELSE "reset"
    /\ lines = IF guestMode THEN Banner ELSE <<>>
    /\ appending = <<>> /\ raced = FALSE
    /\ output = <<>> /\ emitted = 0
    /\ reader = "off" /\ watcher = "off" /\ pending = FALSE /\ commands = {}

(* terminalView.append, which waits for v.mu.                              *)
Show(line) == appending = <<>> /\ lines' = Append(lines, line)

-----------------------------------------------------------------------------
(* startGuest calls StartGuest, step by step (module Session) ...          *)
StartGuest ==
    /\ ui = "build" /\ guestMode
    /\ CheckActive(Guest) \/ LoadWithRuntime(Guest) \/ Install(Guest)
    /\ UNCHANGED view

(* ... and reports that it was refused, or starts the two goroutines.      *)
startGuest ==
    /\ ui = "build" /\ pc[Guest] \notin {"idle", "load", "install"}
    /\ ui' = "reset"
    /\ IF pc[Guest] = "refused"
       THEN Show(<<"note", 0>>) /\ UNCHANGED <<reader, watcher>>
       ELSE reader' = "read" /\ watcher' = "wait" /\ UNCHANGED lines
    /\ UNCHANGED <<vars, guestMode, appending, raced, output, emitted, pending, commands>>

(* The last assignment of newTerminalView takes no lock.                   *)
newTerminalView ==
    /\ ui = "reset"
    /\ ui' = "loop"
    /\ lines' = Banner
    /\ raced' = (appending # <<>>)
    /\ UNCHANGED <<vars, guestMode, appending, output, emitted, reader, watcher, pending, commands>>

-----------------------------------------------------------------------------
(* The guest writes a piece of output.                                     *)
WriteOutput ==
    /\ output' = Append(output, emitted + 1)
    /\ emitted' = emitted + 1

GuestWrites ==
    /\ guestMode /\ pc[Guest] = "run" /\ ~closed /\ emitted < MaxPieces
    /\ WriteOutput
    /\ UNCHANGED <<vars, guestMode, ui, lines, appending, raced, reader, watcher, pending, commands>>

(* The guest ends; StartGuest's goroutine closes the terminal, frees the   *)
(* slot and sends the result.                                              *)
GuestEnds ==
    /\ guestMode
    /\ RunReturns(Guest) \/ Finishes(Guest)
    /\ UNCHANGED view

(* Mutant: a closed terminal ends the reader, whatever is still queued.    *)
ReadUntilClosed ==
    /\ reader = "read" /\ appending = <<>>
    /\ LET n == IF Len(output) < BufSize THEN Len(output) ELSE BufSize IN
       \/ /\ n > 0 /\ ~closed
          /\ appending' = SubSeq(output, 1, n)
          /\ output' = SubSeq(output, n + 1, Len(output))
          /\ UNCHANGED reader
       \/ closed /\ reader' = "end" /\ UNCHANGED <<output, appending>>
    /\ UNCHANGED <<vars, guestMode, ui, lines, raced, emitted, watcher, pending, commands>>

(* The reader's loop: ReadOutput takes what fits in its buffer, and fails  *)
(* when the terminal is closed and empty; append then takes v.mu ...       *)
ReadOutput ==
    /\ reader = "read" /\ appending = <<>>
    /\ LET n == IF Len(output) < BufSize THEN Len(output) ELSE BufSize IN
       \/ /\ n > 0
          /\ appending' = SubSeq(output, 1, n)
          /\ output' = SubSeq(output, n + 1, Len(output))
          /\ UNCHANGED reader
       \/ n = 0 /\ closed /\ reader' = "end" /\ UNCHANGED <<output, appending>>
    /\ UNCHANGED <<vars, guestMode, ui, lines, raced, emitted, watcher, pending, commands>>

(* ... and leaves the lines behind those it found.                         *)
AppendOutput ==
    /\ appending # <<>>
    /\ lines' = lines \o [i \in 1..Len(appending) |-> <<"out", appending[i]>>]
    /\ appending' = <<>>
    /\ UNCHANGED <<vars, guestMode, ui, raced, output, emitted, reader, watcher, pending, commands>>

(* The watcher receives the result of Run; an error is shown.              *)
Watch ==
    /\ watcher = "wait" /\ pc[Guest] = "done"
    /\ watcher' = "end"
    /\ Show(<<"note", 0>>) \/ UNCHANGED lines
    /\ UNCHANGED <<vars, guestMode, ui, appending, raced, output, emitted, reader, pending, commands>>

-----------------------------------------------------------------------------
(* submit in guest mode: GuestInput looks for a guest and writes the line, *)
(* which the terminal echoes; an error is shown.                           *)
SubmitInput ==
    /\ ui = "loop" /\ guestMode /\ Len(lines) < MaxLines
    /\ \/ GuestInput(UI) /\ UNCHANGED lines
       \/ ~typing[UI] /\ Scheduler = NoCall /\ Show(<<"note", 0>>) /\ UNCHANGED vars
    /\ UNCHANGED <<guestMode, ui, appending, raced, output, emitted, reader, watcher, pending, commands>>

SendInput ==
    /\ ui = "loop" /\ emitted < MaxPieces
    /\ WriteInput(UI)
    /\ IF closed
       THEN Show(<<"note", 0>>) /\ UNCHANGED <<output, emitted>>
       ELSE WriteOutput /\ UNCHANGED lines
    /\ UNCHANGED <<guestMode, ui, appending, raced, reader, watcher, pending, commands>>

(* Mutant: a command may be entered while another one runs.                *)
SubmitAnyTime ==
    /\ ui = "loop" /\ ~guestMode /\ emitted < MaxPieces
    /\ Show(<<"prompt", emitted + 1>>)
    /\ pending' = TRUE /\ emitted' = emitted + 1
    /\ commands' = commands \cup {<<"run", emitted + 1>>}
    /\ UNCHANGED <<vars, guestMode, ui, appending, raced, output, reader, watcher>>

(* submit in shell mode: one command at a time.                            *)
SubmitCommand ==
    /\ ui = "loop" /\ ~guestMode /\ emitted < MaxPieces
    /\ ~pending
    /\ Show(<<"prompt", emitted + 1>>)
    /\ pending' = TRUE /\ emitted' = emitted + 1
    /\ commands' = commands \cup {<<"run", emitted + 1>>}
    /\ UNCHANGED <<vars, guestMode, ui, appending, raced, output, reader, watcher>>

(* The command's goroutine copies its output to the terminal, which nobody *)
(* reads in this mode, and shows it, or wipes the screen, or has none;     *)
(* then v.pending is reset.                                                *)
ShowResult(n) ==
    /\ <<"run", n>> \in commands
    /\ commands' = (commands \ {<<"run", n>>}) \cup {<<"shown", n>>}
    /\ \/ Show(<<"result", n>>) /\ output' = Append(output, n)
       \/ appending = <<>> /\ lines' = <<>> /\ output' = Append(output, n)
       \/ UNCHANGED <<lines, output>>
    /\ UNCHANGED <<vars, guestMode, ui, appending, raced, emitted, reader, watcher, pending>>

CommandEnds(n) ==
    /\ <<"shown", n>> \in commands
    /\ commands' = commands \ {<<"shown", n>>}
    /\ pending' = FALSE
    /\ UNCHANGED <<vars, guestMode, ui, lines, appending, raced, output, emitted, reader, watcher>>

(* The Clear button.                                                       *)
Clear ==
    /\ ui = "loop" /\ ~typing[UI] /\ appending = <<>>
    /\ lines' = <<>>
    /\ UNCHANGED <<vars, guestMode, ui, appending, raced, output, emitted, reader, watcher, pending, commands>>

-----------------------------------------------------------------------------
Builds == StartGuest \/ startGuest \/ newTerminalView
Reads == ReadOutput \/ AppendOutput

WindowNext ==
    \/ Builds \/ Reads \/ GuestWrites \/ GuestEnds \/ Watch
    \/ SubmitInput \/ SendInput \/ SubmitCommand \/ Clear
    \/ \E n \in 1..MaxPieces : ShowResult(n) \/ CommandEnds(n)

WindowSpec == WindowInit /\ [][WindowNext]_<<vars, view>>

Outs == {i \in 1..Len(lines) : lines[i][1] = "out"}

(* The screen tells what happened, in order: the guest's output on it is   *)
(* the last part of what was taken from the terminal, without a gap,       *)
(* whatever wiped the screen; and between the prompt of a command and its  *)
(* result nothing else is shown.  Claimed unless the unlocked assignment   *)
(* of newTerminalView met an append, when v.lines is undefined.            *)
ScreenInOrder ==
    ~raced =>
      /\ \A i \in Outs : (\A j \in Outs : j <= i) => lines[i][2] = emitted - Len(output) - Len(appending)
      /\ \A i, j \in Outs : i < j /\ (\A k \in Outs : k <= i \/ k >= j) => lines[j][2] = lines[i][2] + 1
      /\ \A i \in 2..Len(lines) : lines[i][1] = "result" => lines[i - 1] = <<"prompt", lines[i][2]>>

(* Once the guest has ended, all it wrote and all the echo of what was     *)
(* typed is brought to the screen, although the terminal is closed by then *)
(* and the reader may be far behind.                                       *)
OutputIsShown == (guestMode /\ pc[Guest] = "done") ~> (output = <<>> /\ appending = <<>>)
=============================================================================
