------------------------------ MODULE Strings ------------------------------
(***************************************************************************)
(* The instructions of CPU.Step (internal/i386/cpu.go) that run through    *)
(* memory: MOVS and STOS with their REP forms, and the BT group with a bit *)
(* index in a register, which addresses memory as one string of bits.      *)
(*                                                                         *)
(* A byte is the set of its bits that are on.  An access outside memory    *)
(* is an error of Step, which ends the process.                            *)
(***************************************************************************)
EXTENDS Integers, Sequences

CONSTANTS
    Bytes,      \* the size of guest memory
    RegWord,    \* the number of values of a register (2^32)
    ByteBits,   \* 8
    Dword,      \* 4: the bytes of a dword
    EAX,        \* EAX as a sequence of bytes, the lowest first
    Indexes,    \* the signed bit indexes in use
    Contents,   \* the contents of memory to start from
    Pointers,   \* the values ESI and EDI start with
    Counts,     \* the values of ECX
    MaxStrings  \* bound: instructions executed

Address == 0..(Bytes - 1)
BitNo == 0..(ByteBits - 1)
DwordBits == Dword * ByteBits

ASSUME StringsAssumption ==
    /\ {Bytes, RegWord, ByteBits, Dword} \subseteq Nat \ {0}
    /\ Bytes < RegWord /\ RegWord % 2 = 0
    /\ Contents \subseteq [Address -> SUBSET BitNo]
    /\ Pointers \subseteq 0..(RegWord - 1) /\ Counts \subseteq 0..(RegWord - 1)
    /\ EAX \in [1..Dword -> SUBSET BitNo] /\ Indexes \subseteq Int
    /\ MaxStrings \in Nat

VARIABLES
    bytes,      \* Memory.data
    esi, edi,   \* the registers
    DF,         \* the direction flag
    strFault,   \* Step returned an error
    CF,         \* the carry flag
    ran,        \* at most one record of the instruction just executed (history)
    steps       \* instructions executed so far

strVars == <<bytes, esi, edi, DF, strFault, CF, ran, steps>>

StrInit ==
    /\ bytes \in Contents
    /\ esi \in Pointers /\ edi \in Pointers
    /\ DF \in BOOLEAN
    /\ strFault = FALSE /\ CF = FALSE
    /\ ran = {} /\ steps = 0

-----------------------------------------------------------------------------
(* Memory.check.                                                           *)
Inside(a, width) == a <= Bytes /\ width <= Bytes - a

Step(width) == IF DF THEN RegWord - width ELSE width

Store(m, a, v) == [x \in Address |-> IF a <= x /\ x < a + Len(v) THEN v[x - a + 1] ELSE m[x]]

(* One round of MOVS; once an access has failed nothing more is done.      *)
MOVS(s, width) ==
    IF ~s.ok \/ ~Inside(s.esi, width) \/ ~Inside(s.edi, width) THEN [s EXCEPT !.ok = FALSE]
    ELSE [m |-> Store(s.m, s.edi, [k \in 1..width |-> s.m[s.esi + k - 1]]),
          esi |-> (s.esi + Step(width)) % RegWord,
          edi |-> (s.edi + Step(width)) % RegWord, ok |-> TRUE]

STOS(s, width) ==
    IF ~s.ok \/ ~Inside(s.edi, width) THEN [s EXCEPT !.ok = FALSE]
    ELSE [m |-> Store(s.m, s.edi, SubSeq(EAX, 1, width)),
          esi |-> s.esi, edi |-> (s.edi + Step(width)) % RegWord, ok |-> TRUE]

(* The loop, as the states after each round.                               *)
Rounds(op, width, count) ==
    LET loop[i \in 0..count] ==
            IF i = 0 THEN [m |-> bytes, esi |-> esi, edi |-> edi, ok |-> TRUE]
            ELSE IF op = "MOVS" THEN MOVS(loop[i - 1], width) ELSE STOS(loop[i - 1], width)
    IN  loop

(* MOVSB, MOVSD, STOSB and STOSD; without REP the count is one.  ECX is    *)
(* cleared before the loop and seen by no later instruction of this model. *)
String(op, width, count) ==
    LET s == Rounds(op, width, count)[count] IN
    /\ bytes' = s.m /\ esi' = s.esi /\ edi' = s.edi
    /\ strFault' = ~s.ok
    /\ ran' = {[op |-> op, n |-> width * count, width |-> width, esi |-> esi, edi |-> edi, from |-> bytes]}
    /\ UNCHANGED <<DF, CF>>

-----------------------------------------------------------------------------
(* BT, BTS, BTR and BTC m32, r32, with the memory operand at ESI: the      *)
(* index divided towards zero chooses the dword, its low bits the bit.     *)
Truncated(i, d) == IF i < 0 THEN 0 - ((0 - i) \div d) ELSE i \div d

(* Mutant: the index is scaled as a number of bytes.                       *)
BitPlaceBytes(base, index) ==
    [word |-> (base + Truncated(index, DwordBits)) % RegWord, bit |-> index % DwordBits]

BitPlace(base, index) ==
    [word |-> (base + Truncated(index, DwordBits) * Dword) % RegWord, bit |-> index % DwordBits]

BitString(op, index) ==
    LET p == BitPlace(esi, index)
        at == p.word + p.bit \div ByteBits
        b == p.bit % ByteBits
        new(v) == CASE op = "BT" -> v
                    [] op = "BTS" -> v \cup {b}
                    [] op = "BTR" -> v \ {b}
                    [] op = "BTC" -> IF b \in v THEN v \ {b} ELSE v \cup {b}
    IN  /\ IF Inside(p.word, Dword)
           THEN /\ CF' = (b \in bytes[at])
                /\ bytes' = [bytes EXCEPT ![at] = new(@)]
                /\ strFault' = FALSE
           ELSE strFault' = TRUE /\ UNCHANGED <<CF, bytes>>
        /\ ran' = {[op |-> op, base |-> esi, index |-> index, from |-> bytes]}
        /\ UNCHANGED <<esi, edi, DF>>

StrNext ==
    /\ ~strFault /\ steps < MaxStrings
    /\ steps' = steps + 1
    /\ \/ \E op \in {"MOVS", "STOS"}, width \in {1, Dword}, count \in Counts : String(op, width, count)
       \/ \E op \in {"BT", "BTS", "BTR", "BTC"}, i \in Indexes : BitString(op, i)

StrSpec == StrInit /\ [][StrNext]_strVars

-----------------------------------------------------------------------------
(* The lowest address of the n bytes that a string instruction runs        *)
(* through from p, downwards when DF is set.                               *)
Lowest(p, x) == IF DF THEN p + x.width - x.n ELSE p
Within(lo, n) == lo >= 0 /\ lo + n <= Bytes

(* The bytes a forward MOVS finds: those it has itself written, when the   *)
(* destination starts inside the source, so that a block repeats.          *)
Moved(x) ==
    LET src == Lowest(x.esi, x)
        dst == Lowest(x.edi, x)
        repeats == ~DF /\ src < dst /\ dst < src + x.n
        torn == DF /\ dst < src /\ src < dst + x.n
        k(a) == IF repeats THEN (a - dst) % (dst - src) ELSE a - dst
    IN  torn \/ (repeats /\ dst - src < x.width)
        \/ bytes = [a \in Address |-> IF dst <= a /\ a < dst + x.n THEN x.from[src + k(a)] ELSE x.from[a]]

(* What a string instruction x has to leave behind ...                     *)
StringDone(x) ==
    LET src == Lowest(x.esi, x)
        dst == Lowest(x.edi, x)
        gone == IF DF THEN RegWord - x.n ELSE x.n
    IN  /\ strFault <=> x.n > 0 /\ ~(Within(dst, x.n) /\ (x.op = "MOVS" => Within(src, x.n)))
        /\ ~strFault => edi = (x.edi + gone) % RegWord
        /\ ~strFault /\ x.op = "MOVS" => Moved(x) /\ esi = (x.esi + gone) % RegWord
        /\ ~strFault /\ x.op = "STOS" =>
              bytes = [a \in Address |-> IF dst <= a /\ a < dst + x.n THEN EAX[((a - dst) % x.width) + 1] ELSE x.from[a]]

(* ... and an instruction x of the BT group.                               *)
BitDone(x) ==
    LET bit == (x.base * ByteBits + x.index) % (RegWord * ByteBits)
        on(m) == {c \in Address \X BitNo : c[2] \in m[c[1]]}
        this == {c \in Address \X BitNo : c[1] * ByteBits + c[2] = bit}
    IN  strFault \/ (x.index < 0 /\ x.index % DwordBits # 0)
        \/ /\ CF = (this \subseteq on(x.from))
           /\ on(bytes) = CASE x.op = "BT" -> on(x.from)
                             [] x.op = "BTS" -> on(x.from) \cup this
                             [] x.op = "BTR" -> on(x.from) \ this
                             [] x.op = "BTC" -> (on(x.from) \ this) \cup (this \ on(x.from))

(* REP MOVS leaves at the destination what was at the source, in either    *)
(* direction, also when the two overlap the right way round, and repeats a *)
(* block when they overlap the other way; REP STOS fills; nothing else     *)
(* changes, the pointers stand behind the last element, and only a range   *)
(* that leaves memory is an error.  The BT group reads and changes exactly *)
(* the bit of memory that base and index name (excepted: a negative index  *)
(* that is not a multiple of a dword's bits).                              *)
StringsAreExact == \A x \in ran : IF x.op \in {"MOVS", "STOS"} THEN StringDone(x) ELSE BitDone(x)
=============================================================================
