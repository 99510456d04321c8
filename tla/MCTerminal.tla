----------------------------- MODULE MCTerminal -----------------------------
(* A terminal that carries single bytes and whole lines.                   *)
EXTENDS Terminal

MCByte == {"a", "nl"}
MCNewline == "nl"
MCChunk == {<<"a">>, <<"nl">>, <<"a", "nl">>}
=============================================================================
