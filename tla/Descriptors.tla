---------------------------- MODULE Descriptors ----------------------------
(***************************************************************************)
(* The descriptor tables and the pipes of the guest kernel                 *)
(* (internal/kernel/syscall.go, handles.go, dup_callback.go,               *)
(* io_callbacks.go, tty_callbacks.go, syscalls/io) as the tasks of one     *)
(* scheduler use them: a task makes one system call per step, and a call   *)
(* that must wait leaves a blockedPipe record that is retried later.       *)
(*                                                                         *)
(* Descriptors 0..LastStd without an entry stand for the terminal unless   *)
(* they are in closedFDs (in the code LastStd is 2).  A table entry is a   *)
(* handle: the terminal, a host file, or an end of a pipe.  Host files are *)
(* shared by all entries copied from one another; pipe ends are counted.   *)
(* Each clone of a pipe end is an object of its own, so an entry and its   *)
(* object can be identified.                                               *)
(***************************************************************************)
EXTENDS Naturals, Sequences, FiniteSets

CONSTANTS
    MaxTask,      \* bound: tasks ever created, the root included
    MaxFD,        \* bound: the highest descriptor number
    LastStd,      \* the last descriptor that defaults to the terminal
    MaxPipe,      \* bound: pipes ever created
    MaxFile,      \* bound: host files ever opened
    Byte,         \* the bytes written to pipes
    Chunk,        \* what one write may carry: sequences of bytes
    Capacity,     \* pipeCapacity
    Size,         \* the byte counts a read may ask for
    Programs      \* the guest programs: the system calls they make, the
                  \* flags of their pipe2, and two bounds, the tasks they
                  \* create and the bytes a write may find sent on its pipe

Calls == {"close", "dup", "fcntl", "read", "write", "readv", "writev", "open", "pipe", "fork", "clone",
          "exec", "exit", "kill"}

ASSUME DescriptorsAssumption ==
    /\ MaxTask \in Nat \ {0}
    /\ MaxFD \in Nat
    /\ LastStd \in 0..MaxFD
    /\ MaxPipe \in Nat \ {0}
    /\ MaxFile \in Nat
    /\ Chunk \subseteq Seq(Byte)
    /\ Capacity \in Nat \ {0}
    /\ Size \subseteq Nat \ {0}
    /\ Programs \subseteq [calls : SUBSET Calls, flags : SUBSET {"nonblock", "cloexec"}, tasks : 1..MaxTask, sent : Nat]

Task == 1..MaxTask
FD == 0..MaxFD
Std == 0..LastStd
Pipe == 1..MaxPipe
File == 1..MaxFile
End == {"read", "write"}

None == [kind |-> "none", id |-> 0, end |-> "none"]
TTY == [kind |-> "tty", id |-> 0, end |-> "none"]
FileHandle(f) == [kind |-> "file", id |-> f, end |-> "none"]
PipeHandle(i, e) == [kind |-> "pipe", id |-> i, end |-> e]
Handle == {None, TTY} \cup {FileHandle(f) : f \in File} \cup {PipeHandle(i, e) : i \in Pipe, e \in End}

NoBlock == [fd |-> 0, end |-> "none", data |-> <<>>]

VARIABLES
    program,      \* the guest program that runs
    alive,        \* the tasks that have not exited
    ntask,        \* tasks created so far
    table,        \* table[p]: the task whose table p uses (threads share)
    fds,          \* fds[t]: Kernel.fds
    closedFDs,    \* closedFDs[t]: Kernel.closedFDs
    fdCloexec,    \* fdCloexec[t]: Kernel.fdCloexec
    refs,         \* refs[i]["read"], ["write"]: pipeBuffer.readers, writers
    data,         \* data[i]: pipeBuffer.data
    npipe,        \* pipes created so far
    nonblock,     \* the pipes created with O_NONBLOCK
    nfile,        \* host files opened so far
    closedFiles,  \* the host files that have been closed
    block,        \* block[p]: Kernel.blockedPipe
    pending,      \* tasks with a pending signal whose default action kills
    hung,         \* the scheduler goroutine is stuck in a host-level wait
    got,          \* got[i]: the bytes read from pipe i so far (history)
    eof,          \* the pipe at which the last call saw end-of-file, or 0
    lost          \* lost[i][e]: ends counted for handles nobody can reach

vars == <<program, alive, ntask, table, fds, closedFDs, fdCloexec, refs, data, npipe, nonblock, nfile, closedFiles,
          block, pending, hung, got, eof, lost>>

(* The root process starts with an empty table.                            *)
Init ==
    /\ program \in Programs
    /\ alive = {1}
    /\ ntask = 1
    /\ table = [p \in Task |-> p]
    /\ fds = [p \in Task |-> [fd \in FD |-> None]]
    /\ closedFDs = [p \in Task |-> {}]
    /\ fdCloexec = [p \in Task |-> {}]
    /\ refs = [i \in Pipe |-> [e \in End |-> 0]]
    /\ data = [i \in Pipe |-> <<>>]
    /\ npipe = 0
    /\ nonblock = {}
    /\ nfile = 0
    /\ closedFiles = {}
    /\ block = [p \in Task |-> NoBlock]
    /\ pending = {}
    /\ hung = FALSE
    /\ got = [i \in Pipe |-> <<>>]
    /\ eof = 0
    /\ lost = [i \in Pipe |-> [e \in End |-> 0]]

-----------------------------------------------------------------------------
(* handleForFD: what a descriptor of table t stands for.                   *)
handleForFD(t, fd) ==
    IF fds[t][fd] # None THEN fds[t][fd]
    ELSE IF fd \in Std \ closedFDs[t] THEN TTY ELSE None

validFD(t, fd) == handleForFD(t, fd) # None

(* allocateFD: the lowest descriptor from start on that is not in use.     *)
Free(t, start) == {fd \in FD : fd >= start /\ ~validFD(t, fd)}
allocateFD(t, start) == CHOOSE fd \in Free(t, start) : \A g \in Free(t, start) : fd <= g

(* The entries of table t in S that are end e of pipe i.                   *)
Ends(t, S, i, e) == {fd \in S : fds[t][fd] = PipeHandle(i, e)}

(* The reference counts after every handle of S in table t is closed, and  *)
(* after it is cloned.                                                     *)
Released(t, S) == [i \in Pipe |-> [e \in End |-> refs[i][e] - Cardinality(Ends(t, S, i, e))]]
Retained(t, S) == [i \in Pipe |-> [e \in End |-> refs[i][e] + Cardinality(Ends(t, S, i, e))]]

FilesOf(t, S) == {f \in File : \E fd \in S : fds[t][fd] = FileHandle(f)}

(* A task that can make a system call: alive, not waiting, with no signal  *)
(* to deal with first, while the scheduler goroutine runs.                 *)
CanCall(p) == p \in alive /\ block[p] = NoBlock /\ p \notin pending /\ ~hung

-----------------------------------------------------------------------------
(* Calls that change only the table of the caller and what it refers to.   *)
KeepTasks == UNCHANGED <<alive, ntask, table, block, pending, hung>>
KeepPipes == UNCHANGED <<data, npipe, nonblock, got, lost>>

(* The handles of S in table t are closed and every trace of S goes: what  *)
(* closeDescriptor does for one descriptor and CloseCloexec for the marked.*)
CloseAll(t, S) ==
    /\ refs' = Released(t, S)
    /\ closedFiles' = closedFiles \cup FilesOf(t, S)
    /\ fds' = [fds EXCEPT ![t] = [fd \in FD |-> IF fd \in S THEN None ELSE @[fd]]]
    /\ closedFDs' = [closedFDs EXCEPT ![t] = @ \ S]
    /\ fdCloexec' = [fdCloexec EXCEPT ![t] = @ \ S]

closeTTY(t, fd) ==
    /\ closedFDs' = [closedFDs EXCEPT ![t] = @ \cup ({fd} \cap Std)]
    /\ UNCHANGED <<refs, closedFiles, fds, fdCloexec>>

(* closeDescriptor, or closeTTY for a descriptor without an entry.         *)
Close(p, fd) ==
    LET t == table[p] IN
    /\ CanCall(p)
    /\ IF fds[t][fd] # None THEN CloseAll(t, {fd}) ELSE closeTTY(t, fd)
    /\ eof' = 0
    /\ KeepTasks /\ KeepPipes /\ UNCHANGED nfile

(* The common end of dup2, dup3 and fcntl(F_DUPFD): entry new becomes a    *)
(* clone of what old stands for, after the entry it replaces (if any) was  *)
(* closed.                                                                 *)
Install(t, old, new, replaced, cloexec) ==
    LET h == handleForFD(t, old)
        released == Released(t, replaced)
    IN  /\ refs' = IF h.kind = "pipe" THEN [released EXCEPT ![h.id][h.end] = @ + 1] ELSE released
        /\ closedFiles' = closedFiles \cup FilesOf(t, replaced)
        /\ fds' = [fds EXCEPT ![t][new] = h]
        /\ closedFDs' = [closedFDs EXCEPT ![t] = @ \ {new}]
        /\ fdCloexec' = [fdCloexec EXCEPT ![t] = (@ \ {new}) \cup (IF cloexec THEN {new} ELSE {})]

(* dup2 and dup3 to a different descriptor; dup2 onto itself and the       *)
(* rejected calls change nothing.  An entry that is the very same host     *)
(* file or terminal handle is not closed before it is replaced.            *)
Dup(p, old, new, cloexec) ==
    LET t == table[p]
        same == fds[t][new].kind # "pipe" /\ fds[t][new] = handleForFD(t, old)
    IN  /\ CanCall(p)
        /\ old # new
        /\ validFD(t, old)
        /\ Install(t, old, new, IF same THEN {} ELSE {new}, cloexec)
        /\ eof' = 0
        /\ KeepTasks /\ KeepPipes /\ UNCHANGED nfile

FcntlDup(p, old, start, cloexec) ==
    LET t == table[p] IN
    /\ CanCall(p)
    /\ validFD(t, old)
    /\ Free(t, start) # {}
    /\ Install(t, old, allocateFD(t, start), {}, cloexec)
    /\ eof' = 0
    /\ KeepTasks /\ KeepPipes /\ UNCHANGED nfile

FcntlSetFD(p, fd, on) ==
    LET t == table[p] IN
    /\ CanCall(p)
    /\ validFD(t, fd)
    /\ fdCloexec' = [fdCloexec EXCEPT ![t] = IF on THEN @ \cup {fd} ELSE @ \ {fd}]
    /\ eof' = 0
    /\ KeepTasks /\ KeepPipes /\ UNCHANGED <<fds, closedFDs, refs, nfile, closedFiles>>

(* open of a host file; O_CLOEXEC is not looked at.                        *)
Open(p) ==
    LET t == table[p]
        fd == allocateFD(t, 0)
    IN  /\ CanCall(p)
        /\ Free(t, 0) # {}
        /\ nfile < MaxFile
        /\ nfile' = nfile + 1
        /\ fds' = [fds EXCEPT ![t][fd] = FileHandle(nfile + 1)]
        /\ closedFDs' = [closedFDs EXCEPT ![t] = @ \ {fd}]
        /\ eof' = 0
        /\ KeepTasks /\ KeepPipes /\ UNCHANGED <<fdCloexec, refs, closedFiles>>

(* pipe and pipe2.  When the two descriptors cannot be stored in guest     *)
(* memory the entries are taken back and both ends closed.                 *)
MakePipe(p, flags, stored) ==
    LET t == table[p]
        r == allocateFD(t, 0)
        w == allocateFD(t, r + 1)
        i == npipe + 1
    IN  /\ CanCall(p)
        /\ npipe < MaxPipe
        /\ Free(t, 0) # {} /\ Free(t, r + 1) # {}
        /\ npipe' = i
        /\ nonblock' = IF "nonblock" \in flags THEN nonblock \cup {i} ELSE nonblock
        /\ IF stored
           THEN /\ fds' = [fds EXCEPT ![t][r] = PipeHandle(i, "read"), ![t][w] = PipeHandle(i, "write")]
                /\ refs' = [refs EXCEPT ![i] = [e \in End |-> 1]]
                /\ fdCloexec' = [fdCloexec EXCEPT ![t] = IF "cloexec" \in flags THEN @ \cup {r, w} ELSE @]
           ELSE /\ fdCloexec' = [fdCloexec EXCEPT ![t] = @ \ {r, w}]
                /\ UNCHANGED <<fds, refs>>
        /\ eof' = 0
        /\ KeepTasks /\ UNCHANGED <<closedFDs, data, nfile, closedFiles, got, lost>>

-----------------------------------------------------------------------------
(* What ReadNonblocking and WriteNonblocking do to pipe i on behalf of p.  *)
Least(m, n) == IF m <= n THEN m ELSE n

(* Mutant: what does not fit the reader's buffer is thrown away.           *)
PipeReadDiscards(i, size) ==
    /\ data' = [data EXCEPT ![i] = <<>>]
    /\ got' = [got EXCEPT ![i] = @ \o SubSeq(data[i], 1, Least(size, Len(data[i])))]
    /\ eof' = IF data[i] = <<>> THEN i ELSE 0

PipeRead(i, size) ==
    LET n == Least(size, Len(data[i])) IN
    /\ data' = [data EXCEPT ![i] = SubSeq(@, n + 1, Len(@))]
    /\ got' = [got EXCEPT ![i] = @ \o SubSeq(data[i], 1, n)]
    /\ eof' = IF data[i] = <<>> THEN i ELSE 0

PipeWrite(i, src) ==
    /\ data' = [data EXCEPT ![i] = @ \o SubSeq(src, 1, Least(Len(src), Capacity - Len(@)))]
    /\ eof' = 0
    /\ UNCHANGED got

ReadWouldBlock(i) == data[i] = <<>> /\ refs[i]["write"] > 0
BrokenPipe(i, src) == src # <<>> /\ refs[i]["read"] = 0
WriteWouldBlock(i, src) == src # <<>> /\ refs[i]["read"] > 0 /\ Len(data[i]) = Capacity

(* A call that returns an error or zero, or reaches the terminal or a      *)
(* host file, and so changes nothing here.                                 *)
NoEffect == eof' = 0 /\ UNCHANGED <<data, got>>

KeepTables == UNCHANGED <<alive, ntask, table, fds, closedFDs, fdCloexec, refs, npipe, nonblock,
                          nfile, closedFiles, lost>>

(* Wait until the call can go on: a blockedPipe record.                    *)
Suspend(p, fd, e, src) ==
    /\ block' = [block EXCEPT ![p] = [fd |-> fd, end |-> e, data |-> src]]
    /\ eof' = 0
    /\ UNCHANGED <<data, got, pending>>

Read(p, fd, size) ==
    LET h == fds[table[p]][fd] IN
    /\ CanCall(p)
    /\ IF h.kind = "pipe" /\ h.end = "read"
       THEN IF ReadWouldBlock(h.id)
            THEN Suspend(p, fd, "read", <<>>)
            ELSE PipeRead(h.id, size) /\ UNCHANGED <<block, pending>>
       ELSE NoEffect /\ UNCHANGED <<block, pending>>
    /\ KeepTables /\ UNCHANGED hung

Room(i, src) == Len(got[i]) + Len(data[i]) + Len(src) <= program.sent

Write(p, fd, src) ==
    LET h == fds[table[p]][fd] IN
    /\ CanCall(p)
    /\ IF h.kind = "pipe" /\ h.end = "write"
       THEN /\ Room(h.id, src)
            /\ IF WriteWouldBlock(h.id, src)
               THEN Suspend(p, fd, "write", src)
               ELSE /\ IF BrokenPipe(h.id, src)
                       THEN NoEffect /\ pending' = pending \cup {p}
                       ELSE PipeWrite(h.id, src) /\ UNCHANGED pending
                    /\ UNCHANGED block
       ELSE NoEffect /\ UNCHANGED <<block, pending>>
    /\ KeepTables /\ UNCHANGED hung

(* The scheduler retries a blocked call through the descriptor number it   *)
(* was made with, whatever that number stands for by now.                  *)
Resume(p, size) ==
    LET h == fds[table[p]][block[p].fd]
        src == block[p].data
        i == h.id
    IN  /\ p \in alive /\ block[p] # NoBlock /\ ~hung
        /\ IF h.kind # "pipe" \/ h.end # block[p].end
           THEN NoEffect /\ UNCHANGED pending
           ELSE IF h.end = "read"
                THEN ~ReadWouldBlock(i) /\ PipeRead(i, size) /\ UNCHANGED pending
                ELSE /\ ~WriteWouldBlock(i, src)
                     /\ IF BrokenPipe(i, src)
                        THEN NoEffect /\ pending' = pending \cup {p}
                        ELSE PipeWrite(i, src) /\ UNCHANGED pending
        /\ block' = [block EXCEPT ![p] = NoBlock]
        /\ KeepTables /\ UNCHANGED hung

(* The handle's blocking Read and Write: would they wait?  Read is called  *)
(* once more when its buffer was filled and another one follows.           *)
ReadWaits(i, size, more) ==
    /\ i \notin nonblock
    /\ refs[i]["write"] > 0
    /\ data[i] = <<>> \/ (more /\ size = Len(data[i]))
WriteWaits(i, src) == Len(data[i]) + Len(src) > Capacity /\ i \notin nonblock

(* readv and writev use the handle's blocking Read and Write: they wait in *)
(* the scheduler goroutine itself, where no other task can end the wait.   *)
(* The buffers of readv hold size bytes; with more, another buffer follows *)
(* them, and when they were filled with all there is it is waited for too. *)
Readv(p, fd, size, more) ==
    LET h == fds[table[p]][fd]
        reads == h.kind = "pipe" /\ h.end = "read"
    IN  /\ CanCall(p)
        /\ IF reads /\ ~ReadWouldBlock(h.id) THEN PipeRead(h.id, size) ELSE NoEffect
        /\ hung' = (reads /\ ReadWaits(h.id, size, more))
        /\ KeepTables /\ UNCHANGED <<block, pending>>

(* Writes to the standard descriptors 1 and 2 go to the terminal.          *)
Writev(p, fd, src) ==
    LET h == fds[table[p]][fd] IN
    /\ CanCall(p)
    /\ IF h.kind = "pipe" /\ h.end = "write" /\ fd \notin Std \ {0}
       THEN /\ Room(h.id, src)
            /\ IF BrokenPipe(h.id, src)
               THEN NoEffect /\ pending' = pending \cup {p} /\ UNCHANGED hung
               ELSE /\ PipeWrite(h.id, src)
                    /\ hung' = WriteWaits(h.id, src)
                    /\ UNCHANGED pending
       ELSE NoEffect /\ UNCHANGED <<pending, hung>>
    /\ KeepTables /\ UNCHANGED block

-----------------------------------------------------------------------------
(* Mutant: the table is copied, its handles are not cloned.                *)
ForkUncounted(p) ==
    LET q == ntask + 1 IN
    /\ CanCall(p)
    /\ ntask < program.tasks
    /\ ntask' = q
    /\ alive' = alive \cup {q}
    /\ fds' = [fds EXCEPT ![q] = fds[table[p]]]
    /\ eof' = 0
    /\ UNCHANGED <<table, closedFDs, fdCloexec, refs, data, npipe, nonblock, nfile, closedFiles, block,
                   pending, hung, got, lost>>

(* fork: CloneForChild copies the table and clones every handle in it.     *)
Fork(p) ==
    LET t == table[p]
        q == ntask + 1
    IN  /\ CanCall(p)
        /\ ntask < program.tasks
        /\ ntask' = q
        /\ alive' = alive \cup {q}
        /\ fds' = [fds EXCEPT ![q] = fds[t]]
        /\ closedFDs' = [closedFDs EXCEPT ![q] = closedFDs[t]]
        /\ fdCloexec' = [fdCloexec EXCEPT ![q] = fdCloexec[t]]
        /\ refs' = Retained(t, FD)
        /\ eof' = 0
        /\ UNCHANGED <<table, data, npipe, nonblock, nfile, closedFiles, block, pending, hung, got, lost>>

(* clone of a thread: CloneForThread first does what fork does and then    *)
(* drops the copied table in favour of the caller's, so the clones stay    *)
(* counted.  A failing store of the thread id drops the task as well.      *)
CloneThread(p, stored) ==
    LET t == table[p]
        q == ntask + 1
        more == [i \in Pipe |-> [e \in End |-> lost[i][e] + Cardinality(Ends(t, FD, i, e))]]
    IN  /\ CanCall(p)
        /\ ntask < program.tasks
        /\ ntask' = q
        /\ alive' = IF stored THEN alive \cup {q} ELSE alive
        /\ table' = [table EXCEPT ![q] = t]
        /\ refs' = Retained(t, FD)
        /\ lost' = more
        /\ eof' = 0
        /\ UNCHANGED <<fds, closedFDs, fdCloexec, data, npipe, nonblock, nfile, closedFiles,
                       block, pending, hung, got>>

CloseCloexec(t) == CloseAll(t, fdCloexec[t])

(* A successful execve (replaceImage); a failed one changes nothing.       *)
Exec(p) ==
    /\ CanCall(p)
    /\ CloseCloexec(table[p])
    /\ eof' = 0
    /\ KeepTasks /\ KeepPipes /\ UNCHANGED nfile

IsThread(p) == table[p] # p

(* Mutant: exit without CloseOnExit.                                       *)
ExitKeepsOpen(p) ==
    /\ CanCall(p)
    /\ alive' = alive \ {p}
    /\ eof' = 0
    /\ UNCHANGED <<ntask, table, fds, closedFDs, fdCloexec, refs, closedFiles, block, pending, hung, nfile>>
    /\ KeepPipes

CloseOnExit(t) ==
    /\ refs' = Released(t, FD)
    /\ closedFiles' = closedFiles \cup FilesOf(t, FD)
    /\ fds' = [fds EXCEPT ![t] = [fd \in FD |-> None]]

(* exit: the table is closed unless the task is a thread.                  *)
Exit(p) ==
    /\ CanCall(p)
    /\ alive' = alive \ {p}
    /\ IF IsThread(p) THEN UNCHANGED <<refs, closedFiles, fds>> ELSE CloseOnExit(table[p])
    /\ eof' = 0
    /\ UNCHANGED <<ntask, table, closedFDs, fdCloexec, block, pending, hung, nfile>> /\ KeepPipes

(* kill of the caller itself with a signal whose default action kills.     *)
Kill(p) ==
    /\ CanCall(p)
    /\ pending' = pending \cup {p}
    /\ eof' = 0
    /\ KeepTables /\ UNCHANGED <<block, hung, data, got>>

(* Process.Step takes the pending signal: a handler runs, or the default   *)
(* action ends the task, without CloseOnExit.                              *)
TakeSignal(p, handled) ==
    /\ p \in alive /\ p \in pending /\ ~hung
    /\ pending' = pending \ {p}
    /\ alive' = IF handled THEN alive ELSE alive \ {p}
    /\ eof' = 0
    /\ UNCHANGED <<ntask, table, fds, closedFDs, fdCloexec, refs, nfile, closedFiles, block, hung>>
    /\ KeepPipes

Call(p) ==
    \/ "close" \in program.calls /\ \E fd \in FD : Close(p, fd)
    \/ "dup" \in program.calls /\ \E old, new \in FD, cloexec \in BOOLEAN : Dup(p, old, new, cloexec)
    \/ "fcntl" \in program.calls /\ \E fd \in FD, on \in BOOLEAN :
          FcntlSetFD(p, fd, on) \/ \E start \in FD : FcntlDup(p, fd, start, on)
    \/ "read" \in program.calls /\ \E fd \in FD, size \in Size : Read(p, fd, size)
    \/ "write" \in program.calls /\ \E fd \in FD, src \in Chunk : Write(p, fd, src)
    \/ "readv" \in program.calls /\ \E fd \in FD, size \in Size, more \in BOOLEAN : Readv(p, fd, size, more)
    \/ "writev" \in program.calls /\ \E fd \in FD, src \in Chunk : Writev(p, fd, src)
    \/ "open" \in program.calls /\ Open(p)
    \/ "pipe" \in program.calls /\ \E flags \in SUBSET program.flags, stored \in BOOLEAN : MakePipe(p, flags, stored)
    \/ "fork" \in program.calls /\ Fork(p)
    \/ "clone" \in program.calls /\ \E stored \in BOOLEAN : CloneThread(p, stored)
    \/ "exec" \in program.calls /\ Exec(p)
    \/ "exit" \in program.calls /\ Exit(p)
    \/ "kill" \in program.calls /\ Kill(p)

Next ==
    /\ \E p \in Task :
         \/ Call(p)
         \/ \E size \in Size : Resume(p, size)
         \/ \E handled \in BOOLEAN : TakeSignal(p, handled)
    /\ UNCHANGED program

Spec == Init /\ [][Next]_vars

-----------------------------------------------------------------------------
(* The entries, in all tables, that are end e of pipe i.                   *)
Entries(i, e) == {x \in Task \X FD : fds[x[1]][x[2]] = PipeHandle(i, e)}

(* The counters of a pipe are exactly its entries in the tables plus the   *)
(* ends that were cloned for a thread and dropped: dup, fork, exec, close, *)
(* exit and a failed pipe call keep them in step.  So there is no early    *)
(* end-of-file and no early EPIPE: while any table has an entry for an end *)
(* of a pipe, the pipe counts at least one such end.                       *)
CountsAreExact ==
    \A i \in Pipe, e \in End : refs[i][e] = Cardinality(Entries(i, e)) + lost[i][e]

(* "EOF after all writers are closed": when no live task can reach the     *)
(* write end of a pipe, the pipe counts no writer, so its readers see the  *)
(* end-of-file.  The code keeps this for programs without threads whose    *)
(* tasks end by exit: the clones of CloneForThread stay counted, and a     *)
(* task that a signal ends (SIGPIPE included) never closes its table.      *)
HangupWhenUnreachable ==
    program.calls \cap {"clone", "kill", "write", "writev"} = {} =>
        \A i \in 1..npipe :
            (\A p \in alive, fd \in FD : fds[table[p]][fd] # PipeHandle(i, "write")) => refs[i]["write"] = 0

Writable(i) == i > npipe \/ Entries(i, "write") # {} \/ lost[i]["write"] > 0
NonEmpty(q) == q # <<>>
FirstPipe == INSTANCE Stream WITH
    Deliverable <- NonEmpty,
    sent <- got[1] \o data[1],
    taken <- Len(got[1]),
    open <- Writable(1),
    ended <- eof = 1

(* The first pipe (all are alike) is a stream: what its readers get is,    *)
(* byte for byte, what its writers put in, and end-of-file is reported     *)
(* only when everything was taken and no write end is left, after which    *)
(* nothing is written again.                                               *)
FirstPipeIsStream == FirstPipe!Spec
=============================================================================
