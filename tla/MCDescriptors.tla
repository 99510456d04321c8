--------------------------- MODULE MCDescriptors ---------------------------
(* Tables of three descriptors and one tiny pipe, used by six programs:    *)
(* one that redirects and forks; one that forks and execs; one that talks  *)
(* through a pipe; one that uses fcntl and host files; and two with        *)
(* threads, the first with signals and the second with reads and writes.   *)
EXTENDS Descriptors

MCByte == {"a", "b"}
MCChunk == {<<"a">>, <<"b", "a">>}

Program(calls, flags, tasks, sent) == [calls |-> calls, flags |-> flags, tasks |-> tasks, sent |-> sent]

MCPrograms == {
    Program({"close", "dup", "pipe", "fork", "exit"}, {}, 2, 0),
    Program({"close", "pipe", "fork", "exec", "exit"}, {"cloexec"}, 2, 0),
    Program({"close", "pipe", "fork", "read", "write", "readv", "writev", "exit"}, {"nonblock"}, 2, 3),
    Program({"close", "dup", "fcntl", "open", "pipe", "exec"}, {"cloexec"}, 1, 0),
    Program({"close", "pipe", "fork", "clone", "kill", "exit"}, {}, 3, 0),
    Program({"close", "pipe", "clone", "read", "write", "exit"}, {}, 2, 2)}
=============================================================================
