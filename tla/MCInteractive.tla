--------------------------- MODULE MCInteractive ---------------------------
(* ishrun -interactive with a guest that may write, read and poll.         *)
EXTENDS Interactive

MCByte == {"a", "nl"}
MCNewline == "nl"
MCChunk == {<<"a">>, <<"nl">>}
=============================================================================
