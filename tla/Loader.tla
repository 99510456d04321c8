------------------------------- MODULE Loader -------------------------------
(***************************************************************************)
(* The ELF loader (internal/elf32/loader.go): how the bytes of a program   *)
(* and of its interpreter become the address space, the stack and the      *)
(* first instruction of a guest.                                           *)
(*                                                                         *)
(* A program is a record: whole says that the header names a 32-bit i386   *)
(* file whose segments and interpreter name lie inside the file; segs are  *)
(* its PT_LOAD headers in order, each with the bytes of the file it loads; *)
(* entry and phdr are e_entry and the address of the program headers, and  *)
(* interp is the text of PT_INTERP or NoName.  A byte of memory is a       *)
(* tuple: zero, a byte of a file or string, or a part of a word.           *)
(***************************************************************************)
EXTENDS Naturals, Sequences, FiniteSetsExt

CONSTANTS
    Page,           \* pageSize
    Word,           \* the number of addresses (2^32)
    Cell,           \* the bytes of a machine word (4)
    Align,          \* the alignment of the stack and the length of AT_RANDOM (16)
    DefaultMemory,  \* defaultMemory
    StackReserve,   \* stackReserve
    InterpBase,     \* interpreterBase
    NoName          \* the PT_INTERP of a static program

ASSUME LoaderAssumption ==
    /\ {Page, Word, Cell, Align, DefaultMemory, StackReserve, InterpBase} \subseteq Nat \ {0}
    /\ Word % Page = 0 /\ Page % Align = 0 /\ Align % Cell = 0
    /\ DefaultMemory % Page = 0 /\ StackReserve % Page = 0 /\ InterpBase % Page = 0
    /\ Page < StackReserve /\ StackReserve < DefaultMemory /\ DefaultMemory < Word

Zero == <<"zero">>
Byte(c) == <<"byte", c>>

AlignDown(v, n) == v - (v % n)
pageAlignUp(v) == IF v > (Word - 1) - (Page - 1) THEN Word - 1 ELSE AlignDown(v + Page - 1, Page)

Failed == [ok |-> FALSE]

(* The names of the mappings.                                              *)
ProgramName == "ELF PT_LOAD"
InterpreterName == "ELF interpreter"
StackName == "guest stack"

-----------------------------------------------------------------------------
(* The memory under construction: its size, its mappings and its bytes.    *)
SpaceOf(size, maps, mem) == [ok |-> TRUE, size |-> size, maps |-> maps, mem |-> mem]
Space(size) == SpaceOf(size, {}, [a \in 0..(size - 1) |-> Zero])

MappingAt(sp, a) == {m \in sp.maps : m.start <= a /\ a < m.end}

(* AddressSpace.Add.                                                       *)
Add(sp, start, size, prot, name) ==
    LET end == start + size IN
    IF \/ ~sp.ok \/ size = 0 \/ start > sp.size \/ size > sp.size - start
       \/ \E m \in sp.maps : start < m.end /\ end > m.start
    THEN Failed
    ELSE SpaceOf(sp.size, sp.maps \cup {[start |-> start, end |-> end, prot |-> prot, name |-> name]}, sp.mem)

(* Memory.WriteBytes before protection is switched on: only the bounds are *)
(* checked.                                                                *)
WriteBytes(sp, a, bytes) ==
    IF ~sp.ok \/ a > sp.size \/ Len(bytes) > sp.size - a
    THEN Failed
    ELSE SpaceOf(sp.size, sp.maps,
                 [x \in DOMAIN sp.mem |-> IF a <= x /\ x < a + Len(bytes) THEN bytes[x - a + 1] ELSE sp.mem[x]])

(* The bytes of machine words, one after the other.                        *)
WordBytes(words) == [k \in 1..(Cell * Len(words)) |-> <<"word", words[((k - 1) \div Cell) + 1], ((k - 1) % Cell) + 1>>]

-----------------------------------------------------------------------------
validateELF(e) ==
    e.whole /\ \A i \in 1..Len(e.segs) :
                   Len(e.segs[i].file) <= e.segs[i].memsz /\ e.segs[i].vaddr + e.segs[i].memsz <= Word

(* imageBounds: the ends of the image and of its writable part, cut to a   *)
(* machine word after the test for an empty image.                         *)
Ends(e, base, flags) == {0} \cup {base + e.segs[i].vaddr + e.segs[i].memsz :
                                     i \in {j \in 1..Len(e.segs) : flags \subseteq e.segs[j].flags}}

imageBounds(e, base) ==
    LET max == Max(Ends(e, base, {}))
        brk == Max(Ends(e, base, {"w"}))
    IN  IF max = 0 THEN Failed
        ELSE [ok |-> TRUE, max |-> pageAlignUp(max % Word),
              brk |-> pageAlignUp((IF brk = 0 THEN max ELSE brk) % Word)]

(* Mutant: only the bytes that come from the file are mapped.              *)
loadSegmentFile(sp, p, base, label) ==
    LET lo == base + p.vaddr
        start == AlignDown(lo, Page)
    IN  IF ~sp.ok \/ lo + p.memsz > Word THEN Failed
        ELSE WriteBytes(Add(sp, start, pageAlignUp(lo + Len(p.file)) - start, p.flags, label), lo, p.file)

(* One PT_LOAD header: a segment whose first page is mapped already gets   *)
(* no mapping of its own, its bytes are written all the same.              *)
loadSegment(sp, p, base, label) ==
    LET lo == base + p.vaddr
        start == AlignDown(lo % Word, Page)
        size == (pageAlignUp((lo + p.memsz) % Word) + Word - start) % Word
        mapped == IF MappingAt(sp, start) = {} THEN Add(sp, start, size, p.flags, label) ELSE sp
    IN  IF ~sp.ok \/ lo + p.memsz > Word THEN Failed
        ELSE IF p.file = <<>> THEN mapped
        ELSE WriteBytes(mapped, lo % Word, p.file)

loadSegments(sp, e, base, label) ==
    LET after[k \in 0..Len(e.segs)] == IF k = 0 THEN sp ELSE loadSegment(after[k - 1], e.segs[k], base, label)
    IN  after[Len(e.segs)]

-----------------------------------------------------------------------------
(* Mutant: the pointers are collected in the order of the pushes.          *)
pushStringLast(s, v) ==
    LET at == s.low - (Len(v) + 1) IN
    IF ~s.sp.ok \/ Len(v) + 1 > s.low THEN [sp |-> Failed]
    ELSE [sp |-> WriteBytes(s.sp, at, Append([i \in 1..Len(v) |-> Byte(v[i])], Zero)),
          low |-> at, ptrs |-> Append(s.ptrs, at)]

(* One string and its zero, below what is pushed already.                  *)
pushString(s, v) ==
    LET at == s.low - (Len(v) + 1) IN
    IF ~s.sp.ok \/ Len(v) + 1 > s.low THEN [sp |-> Failed]
    ELSE [sp |-> WriteBytes(s.sp, at, Append([i \in 1..Len(v) |-> Byte(v[i])], Zero)),
          low |-> at, ptrs |-> <<at>> \o s.ptrs]

(* pushStrings: from the last to the first, downwards from top.            *)
pushStrings(sp, top, values) ==
    LET n == Len(values)
        after[k \in 0..n] == IF k = 0 THEN [sp |-> sp, low |-> top, ptrs |-> <<>>]
                             ELSE pushString(after[k - 1], values[n + 1 - k])
    IN  after[n]

(* pushInitialStack: the strings, then the words the program starts with:  *)
(* argc, the argv and envp vectors and the auxiliary vector, each ended by *)
(* zero.  Entry 31 (AT_EXECFN) is set to the first argument.               *)
pushInitialStack(sp, top, argv, envp, auxv) ==
    LET args == pushStrings(sp, top, argv)
        envs == pushStrings(args.sp, args.low, envp)
        aux == [i \in 1..(2 * Len(auxv)) |->
                   LET entry == auxv[(i + 1) \div 2]
                   IN  IF i % 2 = 1 THEN entry[1] ELSE IF entry[1] = 31 THEN args.ptrs[1] ELSE entry[2]]
        words == <<Len(argv)>> \o args.ptrs \o <<0>> \o envs.ptrs \o <<0>> \o aux \o <<0, 0>>
        stack == (AlignDown(envs.low, Align) + Word - Cell * Len(words)) % Word
    IN  IF ~args.sp.ok \/ ~envs.sp.ok THEN [sp |-> Failed]
        ELSE [stack |-> stack, sp |-> WriteBytes(envs.sp, stack, WordBytes(words))]

(* The size of the address space: room for the stack and one free page     *)
(* above the images.                                                       *)
SizeFor(max) == IF max + StackReserve + Page > DefaultMemory THEN max + StackReserve + Page ELSE DefaultMemory

(* The segments of the program and of its interpreter.                     *)
LoadImages(e, interp, size) ==
    LET first == loadSegments(Space(size), e, 0, ProgramName)
    IN  IF e.interp # NoName /\ first.ok
        THEN loadSegments(first, interp, InterpBase, InterpreterName) ELSE first

(* The mapping and the contents of the stack.  Of the auxiliary vector the *)
(* entries that are computed are kept: AT_PHDR, AT_ENTRY, AT_RANDOM,       *)
(* AT_EXECFN and AT_BASE.                                                  *)
LoadStack(sp, e, argv, envp) ==
    LET mapped == Add(sp, sp.size - StackReserve, StackReserve - Page, {"r", "w"}, StackName)
        top == AlignDown(sp.size - Page, Align)
        random == WriteBytes(mapped, top - Align, [i \in 1..Align |-> Byte("random")])
        auxv == << <<3, e.phdr>>, <<9, e.entry>>, <<25, top - Align>>, <<31, 0>> >>
                \o (IF e.interp # NoName THEN << <<7, InterpBase>> >> ELSE <<>>)
    IN  IF sp.ok /\ random.ok
        THEN pushInitialStack(random, top, IF argv = <<>> THEN << <<"ish-go">> >> ELSE argv, envp, auxv)
        ELSE [sp |-> Failed]

(* LoadWithEnvResolver: interp is the program its PT_INTERP leads to, or   *)
(* Failed.                                                                 *)
LoadWithEnvResolver(e, argv, envp, interp) ==
    LET dynamic == e.interp # NoName
        main == imageBounds(e, 0)
        second == IF dynamic THEN imageBounds(interp, InterpBase) ELSE main
        max == Max({main.max, second.max})
        size == SizeFor(max)
        pushed == LoadStack(LoadImages(e, interp, size), e, argv, envp)
    IN  IF ~validateELF(e) THEN Failed
        ELSE IF dynamic /\ (~interp.ok \/ ~validateELF(interp)) THEN Failed
        ELSE IF ~main.ok \/ ~second.ok THEN Failed
        ELSE IF max = 0 \/ size > Word - 1 THEN Failed
        ELSE IF ~pushed.sp.ok THEN Failed
        ELSE [ok |-> TRUE, size |-> size, maps |-> pushed.sp.maps, mem |-> pushed.sp.mem,
              start |-> IF dynamic THEN InterpBase + interp.entry ELSE e.entry,
              stack |-> pushed.stack, brk |-> main.brk]

(* What the parts of a program and of argv and envp are.                   *)
IsProgram(e) ==
    /\ Len(e.segs) \in Nat
    /\ \A i \in 1..Len(e.segs) : {e.segs[i].vaddr, e.segs[i].memsz, Len(e.segs[i].file)} \subseteq Nat
IsStrings(v) == Len(v) \in Nat /\ (v # <<>> => Len(v) > 0) /\ \A i \in 1..Len(v) : Len(v[i]) \in Nat

(* The pages of a placed segment.                                          *)
PagesOf(s) == {AlignDown(a, Page) : a \in s.at..(s.at + s.memsz - 1)}

(* The bytes of a vector of strings, each with its NUL.                    *)
Bytes(vs) ==
    LET last[k \in 0..Len(vs)] == IF k = 0 THEN 0 ELSE last[k - 1] + Len(vs[Len(vs) + 1 - k]) + 1
    IN  last[Len(vs)]
=============================================================================
