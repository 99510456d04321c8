------------------------------- MODULE Stream -------------------------------
(***************************************************************************)
(* What a byte stream of the runtime promises to the two sides that share  *)
(* it, whatever buffers, wake-up channels and reference counts implement   *)
(* it: bytes come out once, in the order they went in; nothing goes in     *)
(* after the sending side is shut; and end-of-file is reported only when   *)
(* the sending side is shut and no byte is left that a read could return.  *)
(*                                                                         *)
(* Both directions of the terminal (internal/pty/pty.go) and every pipe of *)
(* the guest kernel (internal/kernel/handles.go) are shown to implement    *)
(* this specification.                                                     *)
(***************************************************************************)
EXTENDS Naturals, Sequences

CONSTANTS
    Byte,              \* the bytes that can be sent
    Deliverable(_)     \* does a buffer hold something a read may return?

VARIABLES
    sent,              \* every byte accepted so far
    taken,             \* how many of them were handed to the reader
    open,              \* may the sending side still send?
    ended              \* did the last read report end-of-file?

svars == <<sent, taken, open, ended>>

Buffered == SubSeq(sent, taken + 1, Len(sent))

Init ==
    /\ sent = <<>>
    /\ taken = 0
    /\ open = TRUE
    /\ ended = FALSE

(* Some bytes are appended while the sending side is open.                 *)
Send ==
    /\ open
    /\ Len(sent') > Len(sent)
    /\ SubSeq(sent', 1, Len(sent)) = sent
    /\ UNCHANGED <<taken, open, ended>>

(* A read takes a non-empty prefix of what is buffered.                    *)
Take ==
    /\ Deliverable(Buffered)
    /\ taken' \in taken + 1 .. Len(sent)
    /\ UNCHANGED <<sent, open, ended>>

Shut ==
    /\ open
    /\ open' = FALSE
    /\ UNCHANGED <<sent, taken, ended>>

(* End-of-file: only once shut, and only when nothing can be returned.     *)
End ==
    /\ ~open
    /\ ~Deliverable(Buffered)
    /\ ended' = TRUE
    /\ UNCHANGED <<sent, taken, open>>

(* Another read is started after an end-of-file.                           *)
Again ==
    /\ ended
    /\ ended' = FALSE
    /\ UNCHANGED <<sent, taken, open>>

Next == Send \/ Take \/ Shut \/ End \/ Again

Spec == Init /\ [][Next]_svars
=============================================================================
