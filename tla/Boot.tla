-------------------------------- MODULE Boot --------------------------------
(***************************************************************************)
(* How a guest gets its image: LoadWithRuntime and replaceImage            *)
(* (internal/guest/process.go) with execve (internal/kernel/syscall.go),   *)
(* on the files of Files and with the loader of Loader.  The programs and  *)
(* their interpreters are files: other calls rename and remove them        *)
(* between two execve calls.                                               *)
(***************************************************************************)
EXTENDS Files, Loader

CONSTANTS
    Elf,        \* Elf[d]: the program in a file with the data d, or Failed
    Executed,   \* the names passed to execve
    Argvs,      \* the argv vectors passed; a string is a sequence
    Envps,      \* the envp vectors passed
    FD          \* the descriptors

ASSUME BootAssumption ==
    /\ \A d \in DOMAIN Elf : Elf[d] = Failed \/ (Elf[d].ok = TRUE /\ IsProgram(Elf[d]))
    /\ "none" \in DOMAIN Elf
    /\ \A t \in Trees : \A p \in DOMAIN t : t[p].kind = "file" => t[p].data \in DOMAIN Elf
    /\ Executed \subseteq Text(Part)
    /\ \A v \in Argvs \cup Envps : IsStrings(v)

VARIABLES
    image,      \* Process.Image with the kernel's Brk, HeapStart and HeapEnd; Failed before the start
    fds,        \* the open descriptors
    fdCloexec,  \* those marked close-on-exec
    ran         \* what image was made from (history)

bvars == <<image, fds, fdCloexec, ran>>

NotRun == [prog |-> Failed, interp |-> Failed, argv |-> <<>>, envp |-> <<>>]

(* os.ReadFile of what Resolve returned.                                   *)
ReadProgram(r) == IF r.ok /\ Is(tree, r.path, "file") THEN Elf[tree[r.path].data] ELSE Failed

(* The resolver both callers pass to the loader.                           *)
Interpreter(e) ==
    IF ~e.ok \/ e.interp = NoName THEN Failed
    ELSE IF validate(e.interp) THEN ReadProgram(Resolve(tree, clean(e.interp.parts))) ELSE Failed

LoadFrom(n, argv, envp) ==
    LET e == ReadProgram(Target(n))
    IN  IF e.ok THEN LoadWithEnvResolver(e, argv, envp, Interpreter(e)) ELSE Failed

Runs(n, argv, envp, img) ==
    LET e == ReadProgram(Target(n))
    IN  /\ image' = img
        /\ ran' = [prog |-> e, interp |-> Interpreter(e), argv |-> argv, envp |-> envp]

(* LoadWithRuntime: without an environment; an error means no process.     *)
Start(n, argv) ==
    LET img == LoadFrom(n, argv, <<>>) IN
    /\ ~image.ok
    /\ img.ok
    /\ Runs(n, IF argv = <<>> THEN << <<"ish-go">> >> ELSE argv, <<>>, img)
    /\ Returns(n, TRUE, "none")
    /\ UNCHANGED <<tree, cwd, fds, fdCloexec>>

CloseCloexec ==
    /\ fds' = fds \ fdCloexec
    /\ fdCloexec' = {}

(* Mutant: the descriptors are closed before the program is loaded.        *)
execveCloseFirst(n, argv, envp) ==
    LET args == IF argv = <<>> THEN <<guestPath(n)>> ELSE argv
        img == LoadFrom(n, args, envp)
    IN  /\ image.ok
        /\ CloseCloexec
        /\ IF img.ok THEN Runs(n, args, envp, img) ELSE UNCHANGED <<image, ran>>
        /\ Returns(n, img.ok, "none")
        /\ UNCHANGED <<tree, cwd>>

(* execve and replaceImage: everything that can fail comes before the      *)
(* descriptors are closed and the image is exchanged.                      *)
execve(n, argv, envp) ==
    LET args == IF argv = <<>> THEN <<guestPath(n)>> ELSE argv
        img == LoadFrom(n, args, envp)
    IN  /\ image.ok
        /\ IF img.ok
           THEN /\ CloseCloexec
                /\ Runs(n, args, envp, img)
                /\ Returns(n, TRUE, "none")
           ELSE Returns(n, FALSE, "none") /\ UNCHANGED bvars
        /\ UNCHANGED <<tree, cwd>>

BootInit ==
    /\ image = Failed /\ ran = NotRun
    /\ fds \in SUBSET FD /\ fdCloexec \in SUBSET fds

BootNext ==
    \E n \in Executed, argv \in Argvs :
        Start(n, argv) \/ \E envp \in Envps : execve(n, argv, envp)

(* The files change between the calls that run programs.                   *)
BootSpec ==
    FilesInit /\ BootInit /\ [][BootNext \/ (FilesNext /\ UNCHANGED bvars)]_<<fvars, bvars>>

-----------------------------------------------------------------------------
(* The segments of the running image with their addresses.                 *)
Placed(e, base) ==
    [i \in 1..Len(e.segs) |-> [at |-> base + e.segs[i].vaddr, memsz |-> e.segs[i].memsz,
                               file |-> e.segs[i].file, flags |-> e.segs[i].flags]]
Segments == Placed(ran.prog, 0) \o (IF ran.interp.ok THEN Placed(ran.interp, InterpBase) ELSE <<>>)

(* Linkers give every segment pages of its own.                            *)
OwnPages ==
    \A i, j \in 1..Len(Segments) :
        Segments[i].memsz > 0 /\ (i # j => PagesOf(Segments[i]) \cap PagesOf(Segments[j]) = {})

(* The strings and vectors of the running image leave room in the stack.   *)
StackFits ==
    Bytes(ran.argv) + Bytes(ran.envp) + Align + Cell * (Len(ran.argv) + Len(ran.envp) + 15) <= StackReserve - Page

(* A running image holds the bytes of its program and of its interpreter,  *)
(* and zeros up to the memory size of each segment, in pages with exactly  *)
(* the protection the segment asks for; the stack has pages of its own.    *)
(* Neither the initial stack nor the interpreter has overwritten anything. *)
ImageIsLoaded ==
    image.ok /\ OwnPages /\ StackFits =>
        /\ \A i \in 1..Len(Segments) :
              LET s == Segments[i] IN
              \A k \in 0..(s.memsz - 1) :
                 /\ image.mem[s.at + k] = (IF k < Len(s.file) THEN s.file[k + 1] ELSE Zero)
                 /\ \E m \in image.maps : /\ MappingAt(image, s.at + k) = {m}
                                          /\ m.prot = s.flags /\ m.name # StackName
        /\ \A a \in image.stack..(image.size - Page - 1) :
              \E m \in image.maps : MappingAt(image, a) = {m} /\ m.name = StackName

WordAt(a, v) == \A i \in 1..Cell : image.mem[a + i - 1] = <<"word", v, i>>
StringAt(a, v) ==
    /\ \A i \in 1..Len(v) : image.mem[a + i - 1] = Byte(v[i])
    /\ image.mem[a + Len(v)] = Zero
InStack(a) == image.stack <= a /\ a < image.size - Page

(* Memory holds, from the address a on, pointers to the strings vs and a    *)
(* zero.                                                                   *)
VectorAt(a, vs) ==
    /\ \A i \in 1..Len(vs) : \E p \in DOMAIN image.mem :
           WordAt(a + Cell * (i - 1), p) /\ InStack(p) /\ StringAt(p, vs[i])
    /\ WordAt(a + Cell * Len(vs), 0)

AuxAt(a, i, key, val) == WordAt(a + 2 * Cell * (i - 1), key) /\ WordAt(a + 2 * Cell * (i - 1) + Cell, val)

(* A program finds on its stack what the ABI puts there: the count, the    *)
(* pointers to its arguments and environment, every string intact and in   *)
(* order although the loader pushes them from the last to the first, and   *)
(* an auxiliary vector that names its entry, its headers, its interpreter  *)
(* and its first argument.                                                 *)
StackIsReadable ==
    image.ok /\ StackFits =>
        LET envAt == image.stack + Cell * (Len(ran.argv) + 2)
            auxAt == envAt + Cell * (Len(ran.envp) + 1)
        IN  /\ image.stack % Cell = 0 /\ image.stack >= image.size - StackReserve
            /\ WordAt(image.stack, Len(ran.argv))
            /\ VectorAt(image.stack + Cell, ran.argv)
            /\ VectorAt(envAt, ran.envp)
            /\ AuxAt(auxAt, 1, 3, ran.prog.phdr) /\ AuxAt(auxAt, 2, 9, ran.prog.entry)
            /\ \E p \in DOMAIN image.mem : AuxAt(auxAt, 3, 25, p) /\ InStack(p) /\ InStack(p + Align - 1)
            /\ \E p \in DOMAIN image.mem : AuxAt(auxAt, 4, 31, p) /\ StringAt(p, ran.argv[1])
            /\ ran.interp.ok => AuxAt(auxAt, 5, 7, InterpBase)
            /\ AuxAt(auxAt, IF ran.interp.ok THEN 6 ELSE 5, 0, 0)

(* An execve that fails, be it for a missing interpreter or a segment that *)
(* does not fit, leaves the caller its image and all its descriptors; one  *)
(* that succeeds leaves none that was marked close-on-exec.                *)
ExecIsAtomic ==
    [][/\ ~call'.ok => UNCHANGED <<image, fds, fdCloexec>>
       /\ (image.ok /\ image' # image) => fds' = fds \ fdCloexec /\ fdCloexec' = {}]_<<fvars, bvars>>
====
