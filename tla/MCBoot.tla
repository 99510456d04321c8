------------------------------ MODULE MCBoot -------------------------------
EXTENDS Boot

Rel(p) == [abs |-> FALSE, parts |-> p]
Abs(p) == [abs |-> TRUE, parts |-> p]

Targets == {Rel(<<"a">>), Rel(<<"b", "a">>), Abs(<<"a", "b">>)}
Deep == {Link(y) : y \in {Rel(<<"..", "b">>), Rel(<<"a">>), Abs(<<"b", "a">>)}}

Tree(x, s, f) ==
    [q \in {<<>>, <<"a">>, <<"b">>} \cup s |->
        IF q = <<"b">> THEN Link(x) ELSE IF q \in s THEN f[q] ELSE Dir]

FileTrees ==
    {Tree(x, s, f) : x \in Targets, s \in SUBSET {<<"a", "a">>, <<"a", "b">>},
                     f \in {g \in [{<<"a", "a">>, <<"a", "b">>} -> {File("none"), Dir} \cup Deep] :
                               g[<<"a", "a">>].kind # "link"}}

MCExecuted == {Abs(<<"a", "a">>), Abs(<<"b">>)}
MCWritten == {Abs(p) : p \in {<<"a">>, <<"b">>, <<"a", "a">>, <<"a", "b">>, <<"b", "a">>, <<"b", "b", "a">>}} \cup {Rel(<<"..", "a">>)}
MCVirtual == {<<"a", "b">>}
MCOutside == {<<"a", "b">>}

-----------------------------------------------------------------------------
Seg(vaddr, memsz, file, flags) ==
    [vaddr |-> vaddr, memsz |-> memsz, file |-> [i \in 1..Len(file) |-> Byte(file[i])], flags |-> flags]
Program(segs, interp) == [ok |-> TRUE, whole |-> TRUE, segs |-> segs, entry |-> 1, phdr |-> 2, interp |-> interp]

Code(at) == Seg(at, 6, <<"c", "d", "e", "f", "g">>, {"r", "x"})
Data(at) == Seg(at, 7, <<"m", "n", "o">>, {"r", "w"})

MCElf ==
    [static |-> Program(<<Code(8), Data(17)>>, NoName),
     dynamic |-> Program(<<Code(8), Data(16)>>, Abs(<<"b">>)),
     large |-> Program(<<Code(8), Data(60)>>, Abs(<<"b">>)),
     shared |-> Program(<<Code(8), Data(15)>>, NoName),
     top |-> Program(<<Code(Word - 6)>>, NoName),
     empty |-> Program(<<>>, NoName),
     cut |-> [Program(<<Code(8)>>, NoName) EXCEPT !.whole = FALSE],
     short |-> Program(<<Seg(8, 2, <<"c", "d", "e">>, {"r"})>>, NoName),
     ld |-> Program(<<Code(0), Data(8)>>, NoName),
     none |-> Failed]

MCArgvs == {<<>>, << <<"x">>, <<>> >>, << <<"x", "y", "z">>, <<"y">> >>, << [i \in 1..70 |-> "x"] >>}
MCEnvps == {<<>>, << <<"e">>, <<"f", "g">> >>}

ProgramTree(p, q) ==
    [x \in {<<>>, <<"a">>, <<"b">>, <<"a", "a">>, <<"a", "b">>} |->
        IF x = <<"b">> THEN Link(Rel(<<"a", "b">>))
        ELSE IF x = <<"a", "a">> THEN File(p) ELSE IF x = <<"a", "b">> THEN File(q) ELSE Dir]

ProgramTrees == {ProgramTree(p, q) : p \in DOMAIN MCElf, q \in {"ld", "static", "short"}}

MCTrees == FileTrees \cup ProgramTrees

(* Behaviours of BootSpec in two parts: calls on names, with no program    *)
(* among the files; and calls of execve, with renames and removals between *)
(* them.                                                                   *)
VARIABLE part

MCInit ==
    /\ FilesInit /\ BootInit
    /\ \/ part = "files" /\ tree \in FileTrees /\ fds = {}
       \/ part = "exec" /\ tree \in ProgramTrees /\ fds = FD /\ fdCloexec = {1}

MCNext ==
    /\ UNCHANGED part
    /\ \/ part = "files" /\ FilesNext /\ UNCHANGED bvars
       \/ part = "exec" /\ BootNext
       \/ /\ part = "exec" /\ image.ok /\ UNCHANGED bvars
          /\ \E n, m \in {Abs(<<"a", "a">>), Abs(<<"a", "b">>)} : rename(n, m) \/ unlink(n)

MCSpec == MCInit /\ [][MCNext]_<<fvars, bvars, part>>
=============================================================================
