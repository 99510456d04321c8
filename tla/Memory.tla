------------------------------- MODULE Memory -------------------------------
(***************************************************************************)
(* The guest address space (internal/i386/address_space.go) and the calls  *)
(* that change it: mmap2, munmap, mprotect, mremap and brk                 *)
(* (internal/kernel/syscall.go, internal/kernel/syscalls/memory), for one  *)
(* process after the loader has switched protection on.                    *)
(*                                                                         *)
(* Addresses and lengths are bytes of a machine word of Word values; the   *)
(* contents of memory are kept per page.                                   *)
(***************************************************************************)
EXTENDS Naturals, Sequences

CONSTANTS
    Page,       \* bytes per page
    Pages,      \* pages of guest memory
    Word,       \* the number of values of a machine word
    Image,      \* the mappings the loader leaves, in order of address
    Brk0,       \* the break the loader leaves
    BrkLimit,   \* FSRootLimit: breaks from here on are refused
    Hint0,      \* the first NextHint
    Addr,       \* the addresses calls are made with
    Length,     \* the lengths calls are made with
    Breaks,     \* the breaks asked for
    Prots,      \* the protections asked for: subsets of {"r", "w", "x"}
    Sources,    \* what mmap2 is asked to map: "anon", "file", "badfd"
    MaxLength,  \* the longest mmap2 accepted
    MaxMaps,    \* bound: mappings in the list
    MaySplit    \* do guests unmap the inside of a mapping?

Max == Page * Pages

Boundary == {k * Page : k \in 0..Pages}
Mapping == [start : Boundary, end : Boundary, prot : SUBSET {"r", "w", "x"}, name : {"image", "heap", "mmap2"}]

(* A list of mappings as Add leaves it: sorted, and no two overlap.        *)
InOrder(ms) ==
    /\ \A i \in 1..Len(ms) : ms[i].start < ms[i].end
    /\ \A i, j \in 1..Len(ms) : i < j => ms[i].end <= ms[j].start

(* The loader builds the image with Add from segments it has rounded to    *)
(* pages, and refuses one that has none, so that its break is not zero.    *)
ASSUME MemoryAssumption ==
    /\ Page \in Nat \ {0, 1}
    /\ Pages \in Nat \ {0}
    /\ Word \in Nat /\ Word % Page = 0 /\ Max < Word
    /\ Image \in Seq(Mapping) /\ InOrder(Image)
    /\ Brk0 \in 1..Max /\ BrkLimit \in 0..Max /\ Hint0 \in Page..(Word - 1)
    /\ Addr \subseteq 0..(Word - 1) /\ Length \subseteq 0..(Word - 1) /\ Breaks \subseteq 0..(Word - 1)
    /\ \A p \in Prots : p \subseteq {"r", "w", "x"}
    /\ Sources \subseteq {"anon", "file", "badfd"}
    /\ MaxLength \in Nat /\ MaxMaps \in Nat
    /\ MaySplit \in BOOLEAN

PageNo == 0..(Pages - 1)
Content == {"zero", "data"}

VARIABLES
    maps,       \* AddressSpace.Mappings
    mem,        \* mem[q]: the contents of page q
    hint,       \* AddressSpace.NextHint
    brk,        \* Kernel.Brk
    heapEnd,    \* Kernel.HeapEnd
    call        \* the call just made, what it asked for and got (history)

vars == <<maps, mem, hint, brk, heapEnd, call>>

(* The pages whose first byte lies in lo..hi-1.                            *)
PagesIn(lo, hi) == {q \in PageNo : lo <= q * Page /\ q * Page < hi}

(* A call that touched no page and moved none.                             *)
NoCall == [ok |-> TRUE, touched |-> {}, from |-> 0, old |-> 0, to |-> 0, new |-> 0]

Init ==
    /\ maps = Image
    /\ mem = [q \in PageNo |-> "zero"]
    /\ hint = Hint0
    /\ brk = Brk0
    /\ heapEnd = Brk0
    /\ call = NoCall

-----------------------------------------------------------------------------
(* PageLength and pageAlignUp, in word arithmetic.                         *)
Accepted(length) == length > 0 /\ length <= (Word - 1) - (Page - 2)
AlignDown(v) == v - (v % Page)
PageLength(length) == AlignDown((length + Page - 1) % Word)
pageAlignUp(v) == IF v > (Word - 1) - (Page - 1) THEN Word - 1 ELSE AlignDown(v + Page - 1)

Aligned(v) == v % Page = 0
Fits(lo, size) == lo <= Max /\ size <= Max - lo

isFree(ms, lo, hi) == \A i \in 1..Len(ms) : ~(lo < ms[i].end /\ hi > ms[i].start)

(* MappingAt: the first mapping that holds the address.                    *)
Holding(ms, a) == {i \in 1..Len(ms) : a >= ms[i].start /\ a < ms[i].end}
MappingAt(ms, a) == ms[CHOOSE i \in Holding(ms, a) : \A j \in Holding(ms, a) : i <= j]

(* checkRange: every page of the range is mapped and allows the access.    *)
checkRange(ms, lo, size, access) ==
    \A q \in PagesIn(lo, lo + size) :
        Holding(ms, q * Page) # {} /\ access \in MappingAt(ms, q * Page).prot

(* Mutant: the new mapping stays at the end of the list.                   *)
AddUnsorted(ms, lo, size, prot, name) ==
    Append(ms, [start |-> lo, end |-> lo + size, prot |-> prot, name |-> name])

(* Add: the list is kept in the order of the start addresses.              *)
Add(ms, lo, size, prot, name) ==
    LET before == {i \in 1..Len(ms) : ms[i].start < lo}
        k == IF before = {} THEN 0 ELSE CHOOSE i \in before : \A j \in before : j <= i
        m == [start |-> lo, end |-> lo + size, prot |-> prot, name |-> name]
    IN  SubSeq(ms, 1, k) \o <<m>> \o SubSeq(ms, k + 1, Len(ms))

(* Mutant: what lies behind the removed range is dropped as well.          *)
CutTail(m, lo, hi) ==
    IF hi <= m.start \/ lo >= m.end
    THEN <<m>>
    ELSE IF lo > m.start THEN <<[m EXCEPT !.end = lo]>> ELSE <<>>

(* What Remove keeps of one mapping.                                       *)
Cut(m, lo, hi) ==
    IF hi <= m.start \/ lo >= m.end
    THEN <<m>>
    ELSE (IF lo > m.start THEN <<[m EXCEPT !.end = lo]>> ELSE <<>>)
         \o (IF hi < m.end THEN <<[m EXCEPT !.start = hi]>> ELSE <<>>)

(* Remove filters the list in place: out shares the array of the list it   *)
(* walks, so the second piece of a split overwrites the mapping that is    *)
(* read next.                                                              *)
KeepPieces(prev, i, lo, hi) ==
    LET kept == Cut(prev.array[i], lo, hi)
        n == prev.out + Len(kept)
    IN  [array |-> SubSeq(prev.array, 1, prev.out) \o kept \o SubSeq(prev.array, n + 1, Len(prev.array)),
         out |-> n]

Passes(ms, lo, hi) ==
    LET pass[i \in 0..Len(ms)] ==
            IF i = 0 THEN [array |-> ms, out |-> 0] ELSE KeepPieces(pass[i - 1], i, lo, hi)
    IN  pass

Remove(ms, lo, size) ==
    LET last == Passes(ms, lo, lo + size)[Len(ms)]
    IN  SubSeq(last.array, 1, last.out)

(* The ranges Remove would split in two.                                   *)
Splits(ms, lo, size) == \E i \in 1..Len(ms) : lo > ms[i].start /\ lo + size < ms[i].end

(* Protect: only a range inside one mapping.                               *)
Covering(ms, lo, hi) == {i \in 1..Len(ms) : lo >= ms[i].start /\ hi <= ms[i].end}
Protect(ms, lo, hi, prot) ==
    LET i == CHOOSE k \in Covering(ms, lo, hi) : \A j \in Covering(ms, lo, hi) : k <= j
        m == ms[i]
    IN  SubSeq(ms, 1, i - 1)
        \o (IF lo > m.start THEN <<[m EXCEPT !.end = lo]>> ELSE <<>>)
        \o <<[m EXCEPT !.start = lo, !.end = hi, !.prot = prot]>>
        \o (IF hi < m.end THEN <<[m EXCEPT !.start = hi]>> ELSE <<>>)
        \o SubSeq(ms, i + 1, Len(ms))

(* FindHole: the hint if it is free, else the first gap that is large      *)
(* enough.  The result is 0 when there is none.                            *)
FindHole(ms, size, next) ==
    LET candidate == AlignDown(IF next < Page THEN Page ELSE next)
        ends(i) == {Page} \cup {ms[j].end : j \in 1..(i - 1)}
        cursor(i) == CHOOSE c \in ends(i) : \A e \in ends(i) : e <= c
        ceiling(i) == IF i <= Len(ms) THEN ms[i].start ELSE Max
        gaps == {i \in 1..(Len(ms) + 1) : cursor(i) <= ceiling(i) /\ size <= ceiling(i) - cursor(i)}
    IN  IF size = 0 \/ size > Max THEN 0
        ELSE IF Fits(candidate, size) /\ isFree(ms, candidate, candidate + size) THEN candidate
        ELSE IF gaps = {} THEN 0
        ELSE cursor(CHOOSE i \in gaps : \A j \in gaps : i <= j)

(* MapAnonymous: where a mapping of size bytes asked for at a goes, 0 when *)
(* it is refused.                                                          *)
Place(ms, a, size, next) ==
    IF a = 0 THEN FindHole(ms, size, next)
    ELSE IF Fits(a, size) /\ isFree(ms, a, a + size) THEN a ELSE 0

HintAfter(a, at, size) == IF a = 0 /\ at # 0 THEN at + size ELSE hint

-----------------------------------------------------------------------------
Fill(lo, size, c) == [q \in PageNo |-> IF q \in PagesIn(lo, lo + size) THEN c ELSE mem[q]]

(* A call succeeds that was given the bytes lo..hi-1 and returned size     *)
(* bytes at at; mremap also moves.                                         *)
Did(lo, hi, at, size) ==
    call' = [NoCall EXCEPT !.touched = PagesIn(lo, hi) \cup PagesIn(at, at + size)]

Moved(lo, hi, at, size) ==
    call' = [ok |-> TRUE, touched |-> PagesIn(lo, hi) \cup PagesIn(at, at + size),
             from |-> lo \div Page, old |-> (hi - lo) \div Page, to |-> at \div Page, new |-> size \div Page]

(* A call returns an error, with the mappings ms in the list.              *)
FailsWith(ms) ==
    /\ call' = [NoCall EXCEPT !.ok = FALSE]
    /\ maps' = ms
    /\ UNCHANGED <<mem, brk, heapEnd>>

Fails == FailsWith(maps)

(* A mapping that was added at lo, unless lo is 0, and is taken out again  *)
(* because it cannot be written.                                           *)
AddedAndRemoved(ms, lo, size, prot, name) ==
    IF lo = 0 THEN ms ELSE Remove(Add(ms, lo, size, prot, name), lo, size)

KeepBrk == UNCHANGED <<brk, heapEnd>>

(* A store by the guest program into a page it may write.                  *)
Store(q) ==
    /\ checkRange(maps, q * Page, 1, "w")
    /\ mem' = [mem EXCEPT ![q] = "data"]
    /\ Did(q * Page, (q + 1) * Page, 0, 0)
    /\ KeepBrk /\ UNCHANGED <<maps, hint>>

Munmap(a, length) ==
    LET size == PageLength(length) IN
    IF Accepted(length) /\ Aligned(a) /\ size > 0 /\ Fits(a, size)
    THEN /\ MaySplit \/ ~Splits(maps, a, size)
         /\ maps' = Remove(maps, a, size)
         /\ Did(a, a + size, a, 0)
         /\ KeepBrk /\ UNCHANGED <<mem, hint>>
    ELSE Fails /\ UNCHANGED hint

Mprotect(a, length, prot) ==
    LET size == PageLength(length)
        hi == (a + size) % Word
    IN  IF /\ Accepted(length) /\ Aligned(a) /\ size > 0 /\ hi >= a /\ hi <= Max
           /\ Covering(maps, a, hi) # {}
        THEN /\ maps' = Protect(maps, a, hi, prot)
             /\ Did(a, hi, a, 0)
             /\ KeepBrk /\ UNCHANGED <<mem, hint>>
        ELSE Fails /\ UNCHANGED hint

(* Mutant: a fixed mapping that fails is not put back.                     *)
Mmap2NoRollback(a, length, prot, fixed, source) ==
    LET size == pageAlignUp(length)
        base == IF fixed THEN Remove(maps, a, size) ELSE maps
        at == Place(base, IF fixed THEN a ELSE 0, size, hint)
    IN  /\ ~fixed \/ ~Splits(maps, a, size)
        /\ length \in 1..MaxLength /\ source # "badfd"
        /\ fixed => Fits(a, size) /\ Aligned(a) /\ checkRange(maps, a, size, "r")
        /\ hint' = HintAfter(IF fixed THEN a ELSE 0, at, size)
        /\ IF at # 0 /\ "w" \in prot
           THEN /\ maps' = Add(base, at, size, prot, "mmap2")
                /\ mem' = Fill(at, size, IF source = "anon" THEN "zero" ELSE "data")
                /\ Did(at, at + size, at, size)
                /\ KeepBrk
           ELSE FailsWith(AddedAndRemoved(base, at, size, prot, "mmap2"))

(* mmap2 of zeroed pages or of a file.  A fixed mapping first reads what   *)
(* is there, so that a failure can put it back, and replaces it.  The new  *)
(* pages are filled through the protection check of the new mapping; when  *)
(* it refuses, no byte has been written, and the new mapping is removed or *)
(* the saved list, a copy of its own, put back.                            *)
Mmap2(a, length, prot, fixed, source) ==
    LET size == pageAlignUp(length)
        usable == /\ a >= Page /\ Aligned(a) /\ Fits(a, size)
                  /\ isFree(maps, a, a + size)
        want == IF fixed \/ usable THEN a ELSE 0
        base == IF fixed THEN Remove(maps, a, size) ELSE maps
        at == Place(base, want, size, hint)
        replaceable == Fits(a, size) /\ Aligned(a) /\ checkRange(maps, a, size, "r")
    IN  /\ MaySplit \/ ~fixed \/ ~Splits(maps, a, size)
        /\ IF length = 0 \/ length > MaxLength \/ source = "badfd" \/ (fixed /\ ~replaceable)
           THEN Fails /\ UNCHANGED hint
           ELSE /\ hint' = HintAfter(want, at, size)
                /\ IF at # 0 /\ "w" \in prot
                   THEN /\ maps' = Add(base, at, size, prot, "mmap2")
                        /\ mem' = Fill(at, size, IF source = "anon" THEN "zero" ELSE "data")
                        /\ Did(IF fixed THEN a ELSE at, IF fixed THEN a + size ELSE at + size, at, size)
                        /\ KeepBrk
                   ELSE FailsWith(IF fixed THEN maps ELSE AddedAndRemoved(base, at, size, prot, "mmap2"))

(* mremap: shrink in place, grow in place when the pages behind are free,  *)
(* or move.                                                                *)
Mremap(a, oldLength, newLength, flags, target) ==
    LET old == PageLength(oldLength)
        new == PageLength(newLength)
        m == MappingAt(maps, a)
        oneMapping == \A q \in PagesIn(a, a + old) :
                          /\ Holding(maps, q * Page) # {}
                          /\ MappingAt(maps, q * Page).prot = m.prot
                          /\ MappingAt(maps, q * Page).name = m.name
        behind == Fits(a, new) /\ isFree(maps, a + old, a + new)
        list == IF behind THEN AddedAndRemoved(maps, a + old, new - old, m.prot, m.name) ELSE maps
        want == IF "fixed" \in flags THEN target ELSE 0
        at == Place(list, want, new, hint)
        targetOK == Aligned(target) /\ Fits(target, new) /\ isFree(list, target, target + new)
    IN  IF \/ ~Accepted(oldLength) \/ ~Accepted(newLength) \/ ~Aligned(a) \/ ~Fits(a, old)
           \/ Holding(maps, a) = {}
        THEN Fails /\ UNCHANGED hint
        ELSE IF ~oneMapping THEN Fails /\ UNCHANGED hint
        ELSE IF new <= old
        THEN /\ new = old \/ MaySplit \/ ~Splits(maps, a + new, old - new)
             /\ maps' = IF new = old THEN maps ELSE Remove(maps, a + new, old - new)
             /\ Moved(a, a + old, a, new)
             /\ KeepBrk /\ UNCHANGED <<mem, hint>>
        ELSE IF behind /\ "w" \in m.prot
        THEN /\ maps' = Add(maps, a + old, new - old, m.prot, m.name)
             /\ mem' = Fill(a + old, new - old, "zero")
             /\ Moved(a, a + old, a, new)
             /\ KeepBrk /\ UNCHANGED hint
        ELSE IF \/ "move" \notin flags
                \/ ~checkRange(list, a, old, "r")
                \/ "fixed" \in flags /\ ~targetOK
        THEN FailsWith(list) /\ UNCHANGED hint
        ELSE /\ hint' = HintAfter(want, at, new)
             /\ MaySplit \/ ~Splits(maps, a, old)
             /\ IF at # 0 /\ "w" \in m.prot /\ old > 0
                THEN /\ maps' = Remove(Add(list, at, new, m.prot, m.name), a, old)
                     /\ mem' = [q \in PageNo |->
                                  IF q \in PagesIn(at, at + old) THEN mem[q - at \div Page + a \div Page]
                                  ELSE Fill(at, new, "zero")[q]]
                     /\ Moved(a, a + old, at, new)
                     /\ KeepBrk
                ELSE FailsWith(AddedAndRemoved(list, at, new, m.prot, m.name))

(* brk: the pages between the old and the new break are mapped or unmapped.*)
Brk(requested) ==
    LET old == pageAlignUp(brk)
        new == pageAlignUp(requested)
        done == /\ brk' = requested
                /\ heapEnd' = IF requested > heapEnd THEN new ELSE heapEnd
                /\ UNCHANGED hint
    IN  IF requested < Brk0 \/ requested >= BrkLimit
        THEN Fails /\ UNCHANGED hint
        ELSE IF new > old
        THEN IF Place(maps, old, new - old, hint) = 0
             THEN Fails /\ UNCHANGED hint
             ELSE /\ maps' = Add(maps, old, new - old, {"r", "w"}, "heap")
                  /\ mem' = Fill(old, new - old, "zero")
                  /\ Did(old, new, old, new - old)
                  /\ done
        ELSE LET shrinks == new < old /\ heapEnd >= old IN
             /\ shrinks => MaySplit \/ ~Splits(maps, new, old - new)
             /\ maps' = IF shrinks THEN Remove(maps, new, old - new) ELSE maps
             /\ Did(new, old, old, 0)
             /\ done /\ UNCHANGED mem

Next ==
    /\ \/ \E q \in PageNo : Store(q)
       \/ \E a \in Addr, n \in Length :
            \/ Munmap(a, n)
            \/ \E p \in Prots :
                 \/ Mprotect(a, n, p)
                 \/ \E fixed \in BOOLEAN, source \in Sources : Mmap2(a, n, p, fixed, source)
            \/ \E m \in Length :
                 \/ \E flags \in {{}, {"move"}} : Mremap(a, n, m, flags, 0)
                 \/ \E b \in Addr : Mremap(a, n, m, {"move", "fixed"}, b)
       \/ \E r \in Breaks : Brk(r)
    /\ Len(maps') <= MaxMaps

Spec == Init /\ [][Next]_vars

-----------------------------------------------------------------------------
(* The list of mappings is sorted and no two overlap, which is what        *)
(* MappingAt, FindHole and mremap take for granted.                        *)
MappingsDisjoint ==
    /\ \A i \in 1..Len(maps) : maps[i].start < maps[i].end /\ maps[i].end <= Max
    /\ \A i \in 1..(Len(maps) - 1) : maps[i].end <= maps[i + 1].start

(* "mmap2 with MAP_FIXED is atomic for metadata and bytes": a call that    *)
(* fails, at whichever of its steps, leaves mappings and memory alone.     *)
FailureChangesNothing == [][~call'.ok => UNCHANGED <<maps, mem, brk, heapEnd>>]_vars

View(ms, q) == {ms[i].prot : i \in Holding(ms, q * Page)}

(* A call keeps what it is not about: neither the protection nor the       *)
(* contents of a page outside the range it was given and the range it      *)
(* returned change; and an mremap keeps the bytes of its mapping, shows    *)
(* zeros behind them, and leaves nothing mapped where it moved away from.  *)
BytesAreKept ==
    [][LET c == call' IN
       /\ \A q \in PageNo \ c.touched : View(maps', q) = View(maps, q) /\ mem'[q] = mem[q]
       /\ \A k \in 0..(c.new - 1) : mem'[c.to + k] = IF k < c.old THEN mem[c.from + k] ELSE "zero"
       /\ \A k \in 0..(c.old - 1) : c.from + k \notin c.to..(c.to + c.new - 1) => View(maps', c.from + k) = {}]_vars
=============================================================================
