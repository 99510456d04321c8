--------------------------- MODULE Loader_proofs ---------------------------
(***************************************************************************)
(* Proofs about module Loader: what loadSegments, pushString and           *)
(* pushInitialStack make of any program, interpreter, argv and envp, at    *)
(* any page size and stack reserve.                                        *)
(***************************************************************************)
EXTENDS Loader, WellFoundedInduction, TLAPS

(* Multiples and alignment.                                                *)

Multiple(x, n) == \E q \in Nat : x = n * q

(* A set of naturals has a smallest member.                                *)
LEMMA LeastOf ==
    ASSUME NEW S \in SUBSET Nat, S # {}
    PROVE  \E m \in S : \A k \in S : m <= k
  <1>1. IsWellFoundedOn(OpToRel(<, Nat), Nat)
    BY NatLessThanWellFounded, Zenon
  <1>2. PICK m \in S : \A k \in S : ~(<<k, m>> \in OpToRel(<, Nat))
    BY <1>1, WFMin, Zenon
  <1>3. \A k \in S : ~(k < m)
    BY <1>2, Zenon DEF OpToRel
  <1> QED BY <1>3

(* Division by any positive number.                                        *)
LEMMA DivMod ==
    ASSUME NEW n \in Nat \ {0}, NEW v \in Nat
    PROVE  v \div n \in Nat /\ v % n \in 0..(n - 1) /\ v = n * (v \div n) + (v % n)
  OBVIOUS

(* Products keep the order, strictly below by a whole factor.              *)
LEMMA Products ==
    ASSUME NEW n \in Nat, NEW p \in Nat, NEW q \in Nat
    PROVE  /\ n * p \in Nat /\ n * q \in Nat
           /\ p <= q => n * p <= n * q
           /\ p < q => n * p + n <= n * q
  <1>1. p <= q => n * p <= n * q
    OBVIOUS
  <1>2. n * (p + 1) = n * p + n
    OBVIOUS
  <1>3. p < q => n * (p + 1) <= n * q
    OBVIOUS
  <1> QED BY <1>1, <1>2, <1>3

(* The quotient and the remainder of a number are the only ones.           *)
LEMMA DivIs ==
    ASSUME NEW n \in Nat \ {0}, NEW q \in Nat, NEW r \in 0..(n - 1), NEW v, v = n * q + r
    PROVE  v \div n = q /\ v % n = r
  <1> DEFINE d == v \div n
             e == v % n
  <1>1. v \in Nat
    OBVIOUS
  <1>2. d \in Nat /\ e \in 0..(n - 1) /\ v = n * d + e
    BY <1>1
  <1> HIDE DEF d, e
  <1>3. n * d + e = n * q + r
    BY <1>2
  <1>4. n * d \in Nat /\ n * q \in Nat /\ (d < q => n * d + n <= n * q) /\ (q < d => n * q + n <= n * d)
    BY <1>2, Products
  <1>5. d = q
    BY <1>2, <1>3, <1>4
  <1>6. e = r
    BY <1>2, <1>3, <1>4, <1>5
  <1> QED BY <1>5, <1>6 DEF d, e

(* Remainder zero is what makes a multiple.                                *)
LEMMA MultipleIs ==
    ASSUME NEW n \in Nat \ {0}, NEW v \in Nat
    PROVE  Multiple(v, n) <=> v % n = 0
  <1>1. ASSUME v % n = 0 PROVE Multiple(v, n)
    <2>1. v \div n \in Nat /\ v = n * (v \div n)
      BY <1>1, DivMod
    <2> QED BY <2>1 DEF Multiple
  <1>2. ASSUME Multiple(v, n) PROVE v % n = 0
    <2>1. PICK q \in Nat : v = n * q
      BY <1>2 DEF Multiple
    <2>2. v = n * q + 0 /\ 0 \in 0..(n - 1)
      BY <2>1
    <2> QED BY <2>2, DivIs
  <1> QED BY <1>1, <1>2

(* Between a multiple and a larger one lies a whole step.                  *)
LEMMA MultiplesApart ==
    ASSUME NEW n \in Nat \ {0}, NEW x \in Nat, NEW y \in Nat, Multiple(x, n), Multiple(y, n), x < y
    PROVE  x + n <= y
  <1>1. PICK p \in Nat : x = n * p
    BY ZenonT(40), SMTT(20), SMTT(30) DEF Multiple
  <1>2. PICK q \in Nat : y = n * q
    BY DEF Multiple
  <1>3. /\ n * q <= n * p \/ p < q
        /\ p < q => n * p + n <= n * q
    BY Products
  <1> QED BY <1>1, <1>2, <1>3

(* Sums, differences and multiples of multiples are multiples.             *)
LEMMA MultiplesAdd ==
    ASSUME NEW n \in Nat \ {0}, NEW x \in Nat, NEW y \in Nat, Multiple(x, n), Multiple(y, n)
    PROVE  Multiple(x + y, n) /\ (y <= x => Multiple(x - y, n))
  <1>1. PICK p \in Nat : x = n * p
    BY ZenonT(40), SMTT(20), SMTT(30) DEF Multiple
  <1>2. PICK q \in Nat : y = n * q
    BY ZenonT(40), SMTT(20), SMTT(30) DEF Multiple
  <1>3. n * (p + q) = n * p + n * q /\ p + q \in Nat
    OBVIOUS
  <1>4. Multiple(x + y, n)
    BY <1>1, <1>2, <1>3, ZenonT(40), SMTT(20), SMTT(30) DEF Multiple
  <1>5. ASSUME y <= x PROVE Multiple(x - y, n)
    <2>1. q <= p \/ n * p + n <= n * q
      BY Products
    <2>2. q <= p
      BY <1>1, <1>2, <1>5, <2>1
    <2>3. p - q \in Nat /\ n * (p - q) = n * p - n * q
      BY <2>2
    <2> QED BY <1>1, <1>2, <2>3, ZenonT(40), SMTT(20), SMTT(30) DEF Multiple
  <1> QED BY <1>4, <1>5

(* A multiple of a multiple.                                               *)
LEMMA MultiplesCarry ==
    ASSUME NEW n \in Nat, NEW m \in Nat, NEW x \in Nat, Multiple(m, n), Multiple(x, m)
    PROVE  Multiple(x, n)
  <1>1. PICK p \in Nat : m = n * p
    BY ZenonT(40), SMTT(20), SMTT(30) DEF Multiple
  <1>2. PICK q \in Nat : x = m * q
    BY ZenonT(40), SMTT(20), SMTT(30) DEF Multiple
  <1>3. p * q \in Nat /\ (n * p) * q = n * (p * q)
    OBVIOUS
  <1> QED BY <1>1, <1>2, <1>3, ZenonT(40), SMTT(20), SMTT(30) DEF Multiple

(* Aligning down leads to the multiple at or below a number.               *)
LEMMA AlignedDown ==
    ASSUME NEW n \in Nat \ {0}, NEW v \in Nat
    PROVE  /\ AlignDown(v, n) \in Nat /\ AlignDown(v, n) <= v /\ v < AlignDown(v, n) + n
           /\ Multiple(AlignDown(v, n), n)
           /\ Multiple(v, n) => AlignDown(v, n) = v
  <1>1. v \div n \in Nat /\ v % n \in 0..(n - 1) /\ v = n * (v \div n) + (v % n)
    BY DivMod, ZenonT(40), SMTT(20), SMTT(30)
  <1>2. n * (v \div n) \in Nat
    BY <1>1, Products
  <1>3. v - (v % n) = n * (v \div n)
    BY <1>1, <1>2
  <1>4. Multiple(v, n) => v % n = 0
    BY MultipleIs
  <1>5. AlignDown(v, n) = n * (v \div n)
    BY <1>3 DEF AlignDown
  <1>6. Multiple(AlignDown(v, n), n)
    BY <1>1, <1>5, Zenon DEF Multiple
  <1> QED BY <1>1, <1>2, <1>4, <1>5, <1>6

(* The constants are page-aligned where the loader counts on it.           *)
LEMMA Sizes ==
    /\ {Page, Word, Cell, Align, DefaultMemory, StackReserve, InterpBase} \subseteq Nat \ {0}
    /\ Multiple(Word, Page) /\ Multiple(Page, Align) /\ Multiple(Align, Cell) /\ Multiple(DefaultMemory, Page)
    /\ Multiple(StackReserve, Page) /\ Multiple(InterpBase, Page)
    /\ Page < StackReserve /\ StackReserve < DefaultMemory /\ DefaultMemory < Word
  BY LoaderAssumption, MultipleIs

(* Rounding up to a page, with the last address when there is no page any  *)
(* more.                                                                   *)
LEMMA AlignedUp ==
    ASSUME NEW v \in 0..(Word - 1)
    PROVE  /\ pageAlignUp(v) \in Nat /\ v <= pageAlignUp(v) /\ pageAlignUp(v) <= Word - 1
           /\ \/ pageAlignUp(v) = Word - 1 /\ v > Word - Page
              \/ Multiple(pageAlignUp(v), Page) /\ pageAlignUp(v) < v + Page
  <1>1. Page \in Nat \ {0} /\ Word \in Nat \ {0} /\ v \in Nat /\ Page < Word
    BY Sizes
  <1>2. CASE v > (Word - 1) - (Page - 1)
    BY <1>1, <1>2 DEF pageAlignUp
  <1>3. CASE ~(v > (Word - 1) - (Page - 1))
    <2> DEFINE w == v + Page - 1
    <2>1. w \in Nat /\ pageAlignUp(v) = AlignDown(w, Page)
      BY <1>1, <1>3 DEF pageAlignUp
    <2>2. AlignDown(w, Page) \in Nat /\ AlignDown(w, Page) <= w /\ w < AlignDown(w, Page) + Page /\ Multiple(AlignDown(w, Page), Page)
      BY <1>1, <2>1, AlignedDown
    <2> QED BY <1>1, <1>3, <2>1, <2>2
  <1> QED BY <1>2, <1>3

(* A page inside the mapping of a segment is a page of the segment.        *)
LEMMA PageInside ==
    ASSUME NEW at \in Nat, NEW end \in 0..(Word - 1), at < end,
           NEW q \in Nat, Multiple(q, Page), AlignDown(at, Page) <= q, q < pageAlignUp(end)
    PROVE  \E a \in at..(end - 1) : AlignDown(a, Page) = q
  <1>1. Page \in Nat \ {0} /\ Word \in Nat \ {0} /\ end \in Nat
    BY Sizes
  <1>2. CASE q <= at
    <2>1. /\ AlignDown(at, Page) \in Nat /\ at < AlignDown(at, Page) + Page /\ Multiple(AlignDown(at, Page), Page)
      BY <1>1, AlignedDown
    <2>2. AlignDown(at, Page) < q => AlignDown(at, Page) + Page <= q
      BY <1>1, <2>1, MultiplesApart
    <2>3. AlignDown(at, Page) = q
      BY <1>1, <1>2, <2>1, <2>2
    <2> QED BY <1>1, <2>3
  <1>3. CASE q > at
    <2> DEFINE u == pageAlignUp(end)
    <2>1. /\ u \in Nat
          /\ \/ u = Word - 1 /\ end > Word - Page
             \/ Multiple(u, Page) /\ u < end + Page
      BY AlignedUp
    <2>2. Multiple(Word, Page)
      BY Sizes
    <2>3. q < end
      <3>1. CASE u = Word - 1 /\ end > Word - Page
        <4>1. q < Word
          BY <1>1, <3>1
        <4>2. q + Page <= Word
          BY <1>1, <2>2, <4>1, MultiplesApart
        <4> QED BY <1>1, <3>1, <4>2
      <3>2. CASE Multiple(u, Page) /\ u < end + Page
        <4>1. q + Page <= u
          BY <1>1, <2>1, <3>2, MultiplesApart
        <4> QED BY <1>1, <2>1, <3>2, <4>1
      <3> QED BY <2>1, <3>1, <3>2
    <2>4. AlignDown(q, Page) = q
      BY <1>1, AlignedDown
    <2> QED BY <1>1, <1>3, <2>3, <2>4
  <1> QED BY <1>1, <1>2, <1>3

-----------------------------------------------------------------------------
(* The loops of the loader, each as the function its definition takes the  *)
(* last value of.                                                          *)

(* The spaces of loadSegments, one per segment.                            *)
Loading(f, sp, e, base, label, n) ==
    f = [k \in 0..n |-> IF k = 0 THEN sp ELSE loadSegment(f[k - 1], e.segs[k], base, label)]

(* There is one, by induction on its length.                               *)
LEMMA LoadingExists ==
    ASSUME NEW sp, NEW e, NEW base, NEW label, NEW n \in Nat
    PROVE  \E f : Loading(f, sp, e, base, label, n)
  <1> DEFINE S0 == sp
             G(s, k) == loadSegment(s, e.segs[k], base, label)
             Bad == {m \in Nat : ~\E f : Loading(f, sp, e, base, label, m)}
  <1>0. \A f, m : Loading(f, sp, e, base, label, m) <=> f = [i \in 0..m |-> IF i = 0 THEN S0 ELSE G(f[i - 1], i)]
    BY Zenon DEF Loading
  <1> HIDE DEF G, S0
  <1> SUFFICES ASSUME Bad # {} PROVE FALSE
    OBVIOUS
  <1>1. PICK m \in Bad : \A j \in Bad : m <= j
    BY LeastOf, Zenon
  <1>2. CASE m = 0
    <2> DEFINE g == [i \in 0..0 |-> S0]
    <2>1. g = [i \in 0..0 |-> IF i = 0 THEN S0 ELSE G(g[i - 1], i)]
      OBVIOUS
    <2> QED BY <1>0, <1>1, <1>2, <2>1, Zenon
  <1>3. CASE m # 0
    <2>0. m - 1 \in Nat /\ ~(m <= m - 1)
      BY <1>1, <1>3
    <2>1. PICK f : Loading(f, sp, e, base, label, m - 1)
      BY <1>1, <2>0
    <2> DEFINE g == [i \in 0..m |-> IF i = m THEN G(f[m - 1], m) ELSE f[i]]
    <2>3. \A i \in 0..m : g[i] = IF i = 0 THEN S0 ELSE G(g[i - 1], i)
      <3> TAKE i \in 0..m
      <3>1. CASE i = m
        <4>1. m - 1 \in 0..m /\ m - 1 # m
          BY <1>1, <2>0
        <4> QED BY <1>3, <3>1, <4>1
      <3>2. CASE i # m
        <4>1. i \in 0..(m - 1)
          BY <1>1, <3>2
        <4>2. f[i] = IF i = 0 THEN S0 ELSE G(f[i - 1], i)
          BY <1>0, <2>1, <4>1
        <4>3. i # 0 => i - 1 \in 0..m /\ i - 1 # m
          BY <1>1, <4>1
        <4> QED BY <3>2, <4>1, <4>2, <4>3
      <3> QED BY <3>1, <3>2
    <2>4. g = [i \in 0..m |-> IF i = 0 THEN S0 ELSE G(g[i - 1], i)]
      BY <2>3
    <2> QED BY <1>0, <1>1, <2>4, Zenon
  <1> QED BY <1>2, <1>3

(* The states of pushStrings, one per string.                              *)
Pushing(f, sp, top, values, n) ==
    f = [k \in 0..n |-> IF k = 0 THEN [sp |-> sp, low |-> top, ptrs |-> <<>>]
                        ELSE pushString(f[k - 1], values[Len(values) + 1 - k])]

(* There is one, by induction on its length.                               *)
LEMMA PushingExists ==
    ASSUME NEW sp, NEW top, NEW values, NEW n \in Nat
    PROVE  \E f : Pushing(f, sp, top, values, n)
  <1> DEFINE S0 == [sp |-> sp, low |-> top, ptrs |-> <<>>]
             G(s, k) == pushString(s, values[Len(values) + 1 - k])
             Bad == {m \in Nat : ~\E f : Pushing(f, sp, top, values, m)}
  <1>0. \A f, m : Pushing(f, sp, top, values, m) <=> f = [i \in 0..m |-> IF i = 0 THEN S0 ELSE G(f[i - 1], i)]
    BY Zenon DEF Pushing
  <1> HIDE DEF G, S0
  <1> SUFFICES ASSUME Bad # {} PROVE FALSE
    OBVIOUS
  <1>1. PICK m \in Bad : \A j \in Bad : m <= j
    BY LeastOf, Zenon
  <1>2. CASE m = 0
    <2> DEFINE g == [i \in 0..0 |-> S0]
    <2>1. g = [i \in 0..0 |-> IF i = 0 THEN S0 ELSE G(g[i - 1], i)]
      OBVIOUS
    <2> QED BY <1>0, <1>1, <1>2, <2>1, Zenon
  <1>3. CASE m # 0
    <2>0. m - 1 \in Nat /\ ~(m <= m - 1)
      BY <1>1, <1>3
    <2>1. PICK f : Pushing(f, sp, top, values, m - 1)
      BY <1>1, <2>0, SMTT(20), SMTT(30)
    <2> DEFINE g == [i \in 0..m |-> IF i = m THEN G(f[m - 1], m) ELSE f[i]]
    <2>3. \A i \in 0..m : g[i] = IF i = 0 THEN S0 ELSE G(g[i - 1], i)
      <3> TAKE i \in 0..m
      <3>1. CASE i = m
        <4>1. m - 1 \in 0..m /\ m - 1 # m
          BY <1>1, <2>0
        <4> QED BY <1>3, <3>1, <4>1
      <3>2. CASE i # m
        <4>1. i \in 0..(m - 1)
          BY <1>1, <3>2
        <4>2. f[i] = IF i = 0 THEN S0 ELSE G(f[i - 1], i)
          BY <1>0, <2>1, <4>1
        <4>3. i # 0 => i - 1 \in 0..m /\ i - 1 # m
          BY <1>1, <4>1
        <4> QED BY <3>2, <4>1, <4>2, <4>3
      <3> QED BY <3>1, <3>2
    <2>4. g = [i \in 0..m |-> IF i = 0 THEN S0 ELSE G(g[i - 1], i)]
      BY <2>3
    <2> QED BY <1>0, <1>1, <2>4, Zenon
  <1> QED BY <1>2, <1>3

(* The bytes of the last strings of a vector.                              *)
Adding(f, vs, n) == f = [k \in 0..n |-> IF k = 0 THEN 0 ELSE f[k - 1] + Len(vs[Len(vs) + 1 - k]) + 1]

(* There is one, by induction on its length.                               *)
LEMMA AddingExists ==
    ASSUME NEW vs, NEW n \in Nat
    PROVE  \E f : Adding(f, vs, n)
  <1> DEFINE S0 == 0
             G(s, k) == s + Len(vs[Len(vs) + 1 - k]) + 1
             Bad == {m \in Nat : ~\E f : Adding(f, vs, m)}
  <1>0. \A f, m : Adding(f, vs, m) <=> f = [i \in 0..m |-> IF i = 0 THEN S0 ELSE G(f[i - 1], i)]
    BY Zenon DEF Adding
  <1> HIDE DEF G, S0
  <1> SUFFICES ASSUME Bad # {} PROVE FALSE
    OBVIOUS
  <1>1. PICK m \in Bad : \A j \in Bad : m <= j
    BY LeastOf, Zenon
  <1>2. CASE m = 0
    <2> DEFINE g == [i \in 0..0 |-> S0]
    <2>1. g = [i \in 0..0 |-> IF i = 0 THEN S0 ELSE G(g[i - 1], i)]
      OBVIOUS
    <2> QED BY <1>0, <1>1, <1>2, <2>1, Zenon
  <1>3. CASE m # 0
    <2>0. m - 1 \in Nat /\ ~(m <= m - 1)
      BY <1>1, <1>3
    <2>1. PICK f : Adding(f, vs, m - 1)
      BY <1>1, <2>0
    <2> DEFINE g == [i \in 0..m |-> IF i = m THEN G(f[m - 1], m) ELSE f[i]]
    <2>3. \A i \in 0..m : g[i] = IF i = 0 THEN S0 ELSE G(g[i - 1], i)
      <3> TAKE i \in 0..m
      <3>1. CASE i = m
        <4>1. m - 1 \in 0..m /\ m - 1 # m
          BY <1>1, <2>0
        <4> QED BY <1>3, <3>1, <4>1
      <3>2. CASE i # m
        <4>1. i \in 0..(m - 1)
          BY <1>1, <3>2
        <4>2. f[i] = IF i = 0 THEN S0 ELSE G(f[i - 1], i)
          BY <1>0, <2>1, <4>1
        <4>3. i # 0 => i - 1 \in 0..m /\ i - 1 # m
          BY <1>1, <4>1, SMTT(20), SMTT(30)
        <4> QED BY <3>2, <4>1, <4>2, <4>3
      <3> QED BY <3>1, <3>2
    <2>4. g = [i \in 0..m |-> IF i = 0 THEN S0 ELSE G(g[i - 1], i)]
      BY <2>3
    <2> QED BY <1>0, <1>1, <2>4, Zenon
  <1> QED BY <1>2, <1>3

-----------------------------------------------------------------------------
(* Spaces: what Add and WriteBytes make of one.                            *)

IsSpace(sp, size) == sp = SpaceOf(size, sp.maps, sp.mem) /\ DOMAIN sp.mem = 0..(size - 1)
Over(size, mem, a, bytes) ==
    [x \in 0..(size - 1) |-> IF a <= x /\ x < a + Len(bytes) THEN bytes[x - a + 1] ELSE mem[x]]
Overlaps(m, start, end) == start < m.end /\ end > m.start

(* An error of any step is the error of all that follow.                   *)
LEMMA FailedStays ==
    ASSUME NEW a, NEW b, NEW c, NEW d
    PROVE  /\ Failed.ok = FALSE
           /\ Add(Failed, a, b, c, d) = Failed /\ WriteBytes(Failed, a, b) = Failed
           /\ loadSegment(Failed, a, b, c) = Failed
  <1>1. Failed.ok = FALSE
    BY DEF Failed
  <1> QED BY <1>1, Zenon DEF Add, WriteBytes, loadSegment

(* A space is no error, and its fields are what it is made of.             *)
LEMMA SpaceParts ==
    ASSUME NEW size, NEW maps, NEW mem, NEW sp, sp = SpaceOf(size, maps, mem),
           DOMAIN mem = 0..(size - 1)
    PROVE  IsSpace(sp, size) /\ sp.ok = TRUE /\ sp.size = size /\ sp.maps = maps /\ sp.mem = mem
  BY DEF SpaceOf, IsSpace

(* A space is not an error.                                                *)
LEMMA SpaceIsOk ==
    ASSUME NEW sp, NEW size, IsSpace(sp, size)
    PROVE  sp.ok = TRUE /\ sp.size = size /\ sp = SpaceOf(size, sp.maps, sp.mem) /\ DOMAIN sp.mem = 0..(size - 1)
  <1>1. sp = SpaceOf(size, sp.maps, sp.mem) /\ DOMAIN sp.mem = 0..(size - 1)
    BY DEF IsSpace
  <1>2. sp.ok = TRUE /\ sp.size = size
    BY <1>1, SMT DEF SpaceOf
  <1> QED BY <1>1, <1>2, Zenon

(* The outcome r of Add that is no error.                                  *)
Added(sp, size, start, n, prot, name, r) ==
    /\ n > 0 /\ start + n <= size
    /\ \A m \in sp.maps : ~Overlaps(m, start, start + n)
    /\ IsSpace(r, size) /\ r.mem = sp.mem
    /\ r.maps = sp.maps \cup {[start |-> start, end |-> start + n, prot |-> prot, name |-> name]}

(* Add gives a mapping inside the space that overlaps no other, or fails.  *)
LEMMA AddIs ==
    ASSUME NEW size \in Nat, NEW sp, IsSpace(sp, size), NEW start \in Nat, NEW n \in Nat, NEW prot, NEW name,
           NEW r, r = Add(sp, start, n, prot, name)
    PROVE  r = Failed \/ Added(sp, size, start, n, prot, name, r)
  <1> DEFINE new == [start |-> start, end |-> start + n, prot |-> prot, name |-> name]
  <1>1. sp.ok = TRUE /\ sp.size = size /\ sp = SpaceOf(size, sp.maps, sp.mem)
    BY SpaceIsOk, ZenonT(40), SMTT(20), SMTT(30)
  <1>3. \/ r = Failed
        \/ /\ ~(n = 0 \/ start > sp.size \/ n > sp.size - start \/ \E m \in sp.maps : Overlaps(m, start, start + n))
           /\ r = SpaceOf(sp.size, sp.maps \cup {new}, sp.mem)
    BY Zenon DEF Add, Overlaps
  <1> HIDE DEF new
  <1>4. CASE r # Failed
    <2>1. n > 0 /\ start + n <= size
      BY <1>1, <1>3, <1>4
    <2> DEFINE maps == sp.maps \cup {new}
    <2>2. r = SpaceOf(size, maps, sp.mem) /\ \A m \in sp.maps : ~Overlaps(m, start, start + n)
      BY <1>1, <1>3, <1>4, Zenon
    <2> HIDE DEF maps
    <2>3. r = SpaceOf(size, maps, sp.mem) /\ DOMAIN sp.mem = 0..(size - 1)
      BY <2>2, SpaceIsOk, ZenonT(40), SMTT(20), SMTT(30)
    <2>a. r.maps = maps /\ r.mem = sp.mem
      BY <2>3, SMT DEF SpaceOf
    <2>4. IsSpace(r, size) /\ r.maps = maps /\ r.mem = sp.mem
      BY <2>3, <2>a, Zenon DEF IsSpace
    <2> QED BY <2>1, <2>2, <2>4, Zenon DEF new, maps, Added
  <1> QED BY <1>4

(* The outcome r of WriteBytes that is no error.                           *)
Wrote(sp, size, a, bytes, r) ==
    a + Len(bytes) <= size /\ IsSpace(r, size) /\ r.maps = sp.maps /\ r.mem = Over(size, sp.mem, a, bytes)

(* WriteBytes writes inside the space and nowhere else, or fails.          *)
LEMMA WriteIs ==
    ASSUME NEW size \in Nat, NEW sp, IsSpace(sp, size), NEW a \in Nat, NEW bytes, Len(bytes) \in Nat,
           NEW r, r = WriteBytes(sp, a, bytes)
    PROVE  r = Failed \/ Wrote(sp, size, a, bytes, r)
  <1> DEFINE new == [x \in DOMAIN sp.mem |-> IF a <= x /\ x < a + Len(bytes) THEN bytes[x - a + 1] ELSE sp.mem[x]]
  <1>1. sp.ok = TRUE /\ sp.size = size /\ sp = SpaceOf(size, sp.maps, sp.mem) /\ DOMAIN sp.mem = 0..(size - 1)
    BY SpaceIsOk, ZenonT(40), SMTT(20), SMTT(30)
  <1>2. new = Over(size, sp.mem, a, bytes)
    BY <1>1, Zenon DEF Over
  <1>3. \/ r = Failed
        \/ ~(a > sp.size \/ Len(bytes) > sp.size - a) /\ r = SpaceOf(sp.size, sp.maps, new)
    BY Zenon DEF WriteBytes
  <1> HIDE DEF new
  <1>5. CASE r # Failed
    <2>1. a + Len(bytes) <= size
      BY <1>1, <1>3, <1>5
    <2>2. r = SpaceOf(size, sp.maps, Over(size, sp.mem, a, bytes))
      BY <1>1, <1>2, <1>3, <1>5, Zenon
    <2>3. DOMAIN Over(size, sp.mem, a, bytes) = 0..(size - 1)
      BY Zenon DEF Over
    <2>4. r.mem = Over(size, sp.mem, a, bytes) /\ r.maps = sp.maps
      BY <2>2, SMT DEF SpaceOf
    <2> QED BY <2>1, <2>2, <2>3, <2>4, Zenon DEF IsSpace, Wrote
  <1> QED BY <1>5

-----------------------------------------------------------------------------
(* One segment.                                                            *)

IsSegment(p) == p.vaddr \in Nat /\ p.memsz \in Nat /\ Len(p.file) \in Nat

(* Reducing an address to a machine word.                                  *)
LEMMA WordOf ==
    ASSUME NEW v \in Nat
    PROVE  v % Word \in 0..(Word - 1) /\ (v < Word => v % Word = v) /\ (v = Word => v % Word = 0)
  <1>1. Word \in Nat \ {0}
    BY Sizes
  <1>2. v % Word \in 0..(Word - 1)
    BY <1>1
  <1>3. v < Word => v % Word = v
    <2> SUFFICES ASSUME v < Word PROVE v % Word = v
      OBVIOUS
    <2>1. v \in 0..(Word - 1) /\ v = Word * 0 + v
      BY <1>1
    <2> QED BY <1>1, <2>1, DivIs
  <1>4. v = Word => v % Word = 0
    <2> SUFFICES ASSUME v = Word PROVE v % Word = 0
      OBVIOUS
    <2>1. 0 \in 0..(Word - 1) /\ v = Word * 1 + 0
      BY <1>1
    <2> QED BY <1>1, <2>1, DivIs
  <1> QED BY <1>2, <1>3, <1>4

(* The outcome r of loadSegment that is no error.                          *)
SegmentRun(sp, p, label, lo, start, n, r) ==
    /\ ~(lo + p.memsz > Word)
    /\ \E mapped : /\ mapped = (IF MappingAt(sp, start) = {} THEN Add(sp, start, n, p.flags, label) ELSE sp)
                   /\ \/ p.file = <<>> /\ r = mapped
                      \/ p.file # <<>> /\ r = WriteBytes(mapped, lo % Word, p.file)

(* The steps of loadSegment with names for its parts.                      *)
LEMMA SegmentSteps ==
    ASSUME NEW size, NEW sp, IsSpace(sp, size), NEW p, NEW base, NEW label,
           NEW lo, lo = base + p.vaddr, NEW start, start = AlignDown(lo % Word, Page),
           NEW n, n = (pageAlignUp((lo + p.memsz) % Word) + Word - start) % Word,
           NEW r, r = loadSegment(sp, p, base, label), r # Failed
    PROVE  SegmentRun(sp, p, label, lo, start, n, r)
  <1>1. sp.ok = TRUE
    BY SpaceIsOk, ZenonT(40), SMTT(20), SMTT(30)
  <1> QED BY <1>1, Zenon DEF loadSegment, SegmentRun

(* The numbers of loadSegment are natural.                                 *)
LEMMA SegmentNumbers ==
    ASSUME NEW p, IsSegment(p), NEW base \in Nat,
           NEW lo, lo = base + p.vaddr, NEW start, start = AlignDown(lo % Word, Page),
           NEW n, n = (pageAlignUp((lo + p.memsz) % Word) + Word - start) % Word
    PROVE  lo \in Nat /\ lo % Word \in Nat /\ start \in Nat /\ n \in Nat /\ start <= lo % Word
  <1>1. Word \in Nat \ {0} /\ Page \in Nat \ {0}
    BY Sizes
  <1>2. lo \in Nat /\ lo + p.memsz \in Nat
    BY SMTT(20), SMTT(30) DEF IsSegment
  <1>3. lo % Word \in 0..(Word - 1) /\ (lo + p.memsz) % Word \in 0..(Word - 1)
    BY <1>2, WordOf
  <1>4. start \in Nat /\ start <= lo % Word
    BY <1>1, <1>3, AlignedDown
  <1>5. pageAlignUp((lo + p.memsz) % Word) \in Nat
    BY <1>3, AlignedUp, SMTT(20), SMTT(30)
  <1> DEFINE u == pageAlignUp((lo + p.memsz) % Word)
  <1> HIDE DEF u
  <1>6. u + Word - start \in Nat
    BY <1>1, <1>3, <1>4, <1>5, SMTT(20), SMTT(30) DEF u
  <1>7. n \in Nat
    BY <1>6, WordOf DEF u
  <1> QED BY <1>2, <1>3, <1>4, <1>7, SMTT(20), SMTT(30)

(* A segment never changes the size of the space.                          *)
LEMMA SegmentKeeps ==
    ASSUME NEW size \in Nat, NEW sp, sp = Failed \/ IsSpace(sp, size), NEW p, IsSegment(p), NEW base \in Nat, NEW label
    PROVE  loadSegment(sp, p, base, label) = Failed \/ IsSpace(loadSegment(sp, p, base, label), size)
  <1>1. CASE sp = Failed
    BY <1>1, FailedStays, Zenon
  <1>2. CASE IsSpace(sp, size) /\ loadSegment(sp, p, base, label) # Failed
    <2> DEFINE r == loadSegment(sp, p, base, label)
    <2>a. PICK lo : lo = base + p.vaddr
      OBVIOUS
    <2>b. PICK start : start = AlignDown(lo % Word, Page)
      OBVIOUS
    <2>c. PICK n : n = (pageAlignUp((lo + p.memsz) % Word) + Word - start) % Word
      OBVIOUS
    <2>1. lo \in Nat /\ lo % Word \in Nat /\ start \in Nat /\ n \in Nat
      BY <2>a, <2>b, <2>c, SegmentNumbers, Zenon
    <2> HIDE DEF r
    <2>d. SegmentRun(sp, p, label, lo, start, n, r)
      BY <1>2, <2>a, <2>b, <2>c, SegmentSteps, Zenon DEF r
    <2>2. PICK mapped : /\ mapped = (IF MappingAt(sp, start) = {} THEN Add(sp, start, n, p.flags, label) ELSE sp)
                        /\ \/ p.file = <<>> /\ r = mapped
                           \/ p.file # <<>> /\ r = WriteBytes(mapped, lo % Word, p.file)
      BY <2>d, Zenon DEF SegmentRun
    <2>3. mapped = Failed \/ IsSpace(mapped, size)
      <3>1. CASE mapped = sp
        BY <1>2, <3>1
      <3>2. CASE mapped = Add(sp, start, n, p.flags, label) /\ mapped # Failed
        <4>1. Added(sp, size, start, n, p.flags, label, mapped)
          BY <1>2, <2>1, <3>2, AddIs, Zenon
        <4> QED BY <4>1, Zenon DEF Added
      <3> QED BY <2>2, <3>1, <3>2, Zenon
    <2>4. mapped # Failed
      BY <1>2, <2>2, FailedStays, Zenon DEF r
    <2>5. CASE r = mapped
      BY <2>3, <2>4, <2>5, Zenon DEF r
    <2>6. CASE r = WriteBytes(mapped, lo % Word, p.file)
      <3>1. Len(p.file) \in Nat
        BY Zenon DEF IsSegment
      <3>2. r = Failed \/ Wrote(mapped, size, lo % Word, p.file, r)
        BY <2>1, <2>3, <2>4, <2>6, <3>1, WriteIs, Zenon
      <3> QED BY <3>2, Zenon DEF r, Wrote
    <2> QED BY <2>2, <2>5, <2>6, Zenon
  <1> QED BY <1>1, <1>2, Zenon

(* A number below n is its own remainder.                                  *)
LEMMA SmallMod ==
    ASSUME NEW n \in Nat \ {0}, NEW v \in 0..(n - 1)
    PROVE  v % n = v
  <1>1. v = n * 0 + v /\ 0 \in Nat
    OBVIOUS
  <1> QED BY <1>1, DivIs

(* The length of the mapping of a segment: up to the last address it is    *)
(* what the pages take; a segment that ends at the last address has none   *)
(* that Add accepts.                                                       *)
LEMMA SegmentLength ==
    ASSUME NEW start \in Nat, NEW end \in Nat, start < end, end <= Word,
           NEW n, n = (pageAlignUp(end % Word) + Word - start) % Word
    PROVE  /\ end < Word => n = pageAlignUp(end) - start
           /\ end = Word => n = 0 \/ start + n = Word
  <1>1. Word \in Nat \ {0}
    BY Sizes, SMTT(20), SMTT(30)
  <1>2. ASSUME end < Word PROVE n = pageAlignUp(end) - start
    <2> DEFINE u == pageAlignUp(end)
    <2>1. end % Word = end /\ end \in 0..(Word - 1)
      BY <1>1, <1>2, WordOf, ZenonT(40), SMTT(20), SMTT(30)
    <2>2. u \in Nat /\ end <= u /\ u <= Word - 1
      BY <2>1, AlignedUp
    <2>3. n = (u + Word - start) % Word
      BY <2>1
    <2> HIDE DEF u
    <2>a. PICK d : d = u - start
      OBVIOUS
    <2>b. PICK w : w = u + Word - start
      OBVIOUS
    <2>4. d \in 0..(Word - 1) /\ 1 \in Nat /\ w = Word * 1 + d
      BY <1>1, <2>2, <2>a, <2>b, SMTT(20), SMTT(30)
    <2>5. w % Word = d
      BY <1>1, <2>4, DivIs, Zenon
    <2> QED BY <2>3, <2>5, <2>a, <2>b, SMTT(20), SMTT(30) DEF u
  <1>3. ASSUME end = Word PROVE n = 0 \/ start + n = Word
    <2>1. end % Word = 0
      BY <1>3, WordOf
    <2>2. pageAlignUp(0) = 0
      <3>1. Page \in Nat \ {0} /\ Page < Word
        BY Sizes
      <3>2. pageAlignUp(0) = AlignDown(0 + Page - 1, Page)
        BY <1>1, <3>1 DEF pageAlignUp
      <3>a. PICK w : w = Page - 1
        OBVIOUS
      <3>3. w \in 0..(Page - 1) /\ w \in Nat
        BY <3>1, <3>a
      <3>4. w % Page = w
        BY <3>1, <3>3, SmallMod, Zenon
      <3>5. 0 + Page - 1 = w
        BY <3>1, <3>a, SMTT(20), SMTT(30)
      <3> QED BY <3>2, <3>3, <3>4, <3>5, SMTT(20), SMTT(30) DEF AlignDown
    <2>3. n = (0 + Word - start) % Word
      BY <2>1, <2>2
    <2>4. 0 + Word - start \in Nat /\ 0 + Word - start <= Word
      BY <1>1, <1>3
    <2> DEFINE w == 0 + Word - start
    <2> HIDE DEF w
    <2>5. (w < Word => w % Word = w) /\ (w = Word => w % Word = 0)
      BY <2>4, WordOf DEF w
    <2>6. w < Word \/ w = Word
      BY <1>1, <2>4 DEF w
    <2>7. n = w % Word
      BY <2>3 DEF w
    <2>8. n = 0 \/ n = w
      BY <2>5, <2>6, <2>7
    <2> QED BY <1>1, <2>8 DEF w
  <1> QED BY <1>2, <1>3

(* What a segment whose first page is not mapped yet leaves.               *)
SegmentIn(sp, size, p, label, lo, start, end, r) ==
    /\ end < Word /\ pageAlignUp(end) <= size /\ IsSpace(r, size)
    /\ \A m \in sp.maps : ~Overlaps(m, start, pageAlignUp(end))
    /\ r.maps = sp.maps \cup {[start |-> start, end |-> pageAlignUp(end), prot |-> p.flags, name |-> label]}
    /\ \A x \in 0..(size - 1) :
          r.mem[x] = IF lo <= x /\ x < lo + Len(p.file) THEN p.file[x - lo + 1] ELSE sp.mem[x]

(* A segment gets its pages and its bytes there, or loading fails.         *)
LEMMA SegmentIs ==
    ASSUME NEW size \in Nat, size <= Word - 1, NEW sp, IsSpace(sp, size),
           NEW p, IsSegment(p), p.memsz > 0, NEW base \in Nat, NEW label,
           NEW lo, lo = base + p.vaddr, NEW end, end = lo + p.memsz, NEW start, start = AlignDown(lo, Page),
           MappingAt(sp, start) = {}, NEW r, r = loadSegment(sp, p, base, label), r # Failed
    PROVE  SegmentIn(sp, size, p, label, lo, start, end, r)
  <1>0. Word \in Nat \ {0} /\ Page \in Nat \ {0} /\ lo \in Nat /\ end \in Nat /\ p.memsz \in Nat /\ Len(p.file) \in Nat
    <2>1. p.vaddr \in Nat /\ p.memsz \in Nat /\ Len(p.file) \in Nat
      BY SMTT(20), SMTT(30) DEF IsSegment
    <2>2. Word \in Nat \ {0} /\ Page \in Nat \ {0}
      BY Sizes
    <2>3. lo \in Nat /\ end \in Nat
      BY <2>1, SMTT(20), SMTT(30)
    <2> QED BY <2>1, <2>2, <2>3, Zenon
  <1>a. PICK begin : begin = AlignDown(lo % Word, Page)
    OBVIOUS
  <1>b. PICK n : n = (pageAlignUp((lo + p.memsz) % Word) + Word - begin) % Word
    OBVIOUS
  <1>1. SegmentRun(sp, p, label, lo, begin, n, r)
    BY <1>a, <1>b, SegmentSteps, Zenon
  <1>2. end <= Word /\ lo < Word
    BY <1>0, <1>1, SMTT(20), SMTT(30) DEF SegmentRun
  <1>3. lo % Word = lo /\ begin = start
    BY <1>0, <1>2, <1>a, WordOf, ZenonT(40), SMTT(20), SMTT(30)
  <1>4. start \in Nat /\ start <= lo
    BY <1>0, AlignedDown, ZenonT(40), SMTT(20), SMTT(30)
  <1>5. /\ end < Word => n = pageAlignUp(end) - start
        /\ end = Word => n = 0 \/ start + n = Word
    <2>1. start < end
      BY <1>0, <1>4, SMTT(20), SMTT(30)
    <2>2. n = (pageAlignUp(end % Word) + Word - start) % Word
      BY <1>3, <1>b, SMTT(20), SMTT(30)
    <2>3. start \in Nat /\ end \in Nat /\ end <= Word
      BY <1>0, <1>2, <1>4
    <2> QED BY <2>1, <2>2, <2>3, SegmentLength, SMTT(20), SMTT(30)
  <1>6. n \in Nat
    BY <1>a, <1>b, SegmentNumbers, Zenon
  <1>7. PICK mapped : /\ mapped = (IF MappingAt(sp, start) = {} THEN Add(sp, start, n, p.flags, label) ELSE sp)
                      /\ \/ p.file = <<>> /\ r = mapped
                         \/ p.file # <<>> /\ r = WriteBytes(mapped, lo, p.file)
    BY <1>1, <1>3, Zenon DEF SegmentRun
  <1>8. mapped = Add(sp, start, n, p.flags, label) /\ mapped # Failed
    BY <1>7, FailedStays, Zenon
  <1>9. Added(sp, size, start, n, p.flags, label, mapped)
    BY <1>4, <1>6, <1>8, AddIs, Zenon
  <1>10. n > 0 /\ start + n <= size
    BY <1>9, Zenon DEF Added
  <1>11. end < Word /\ start + n = pageAlignUp(end)
    <2>1. end < Word
      BY <1>0, <1>2, <1>4, <1>5, <1>6, <1>10, SMTT(20), SMTT(30)
    <2>2. pageAlignUp(end) \in Nat
      BY <1>0, <2>1, AlignedUp, SMTT(20), SMTT(30)
    <2> QED BY <1>4, <1>5, <2>1, <2>2, SMTT(20), SMTT(30)
  <1> DEFINE maps == sp.maps \cup {[start |-> start, end |-> pageAlignUp(end), prot |-> p.flags, name |-> label]}
  <1>12. /\ \A m \in sp.maps : ~Overlaps(m, start, pageAlignUp(end))
         /\ IsSpace(mapped, size) /\ mapped.maps = maps /\ mapped.mem = sp.mem
    BY <1>9, <1>11, Zenon DEF Added
  <1> HIDE DEF maps
  <1>13. /\ IsSpace(r, size) /\ r.maps = maps
         /\ \A x \in 0..(size - 1) :
               r.mem[x] = IF lo <= x /\ x < lo + Len(p.file) THEN p.file[x - lo + 1] ELSE sp.mem[x]
    <2>1. CASE p.file = <<>> /\ r = mapped
      <3>1. \A x \in 0..(size - 1) : ~(lo <= x /\ x < lo + Len(p.file))
        <4>1. Len(p.file) = 0
          BY <2>1
        <4> QED BY <1>0, <4>1, SMTT(20), SMTT(30)
      <3> QED BY <1>12, <2>1, <3>1, Zenon
    <2>2. CASE r = WriteBytes(mapped, lo, p.file)
      <3>1. lo \in Nat /\ Len(p.file) \in Nat /\ IsSpace(mapped, size)
        BY <1>0, <1>12, Zenon
      <3>2. Wrote(mapped, size, lo, p.file, r)
        BY <2>2, <3>1, WriteIs, Zenon
      <3> QED BY <1>12, <3>2, Zenon DEF Wrote, Over
    <2> QED BY <1>7, <2>1, <2>2, Zenon
  <1>14. pageAlignUp(end) <= size
    BY <1>10, <1>11, Zenon
  <1> QED BY <1>11, <1>12, <1>13, <1>14, Zenon DEF SegmentIn, maps

-----------------------------------------------------------------------------
(* The segments of a list, each with pages of its own.                     *)

EndOf(s) == s.at + s.memsz
InSegment(s, a) == s.at <= a /\ a < EndOf(s)

OwnList(L) ==
    /\ Len(L) \in Nat
    /\ \A i \in 1..Len(L) : /\ L[i].at \in Nat /\ L[i].memsz \in Nat /\ L[i].memsz > 0
                            /\ Len(L[i].file) \in Nat /\ Len(L[i].file) <= L[i].memsz
    /\ \A i, j \in 1..Len(L) : i # j => PagesOf(L[i]) \cap PagesOf(L[j]) = {}

(* The page of an address of a segment is a page of the segment.           *)
LEMMA PageOf ==
    ASSUME NEW s, s.at \in Nat, s.memsz \in Nat, NEW a \in Nat, InSegment(s, a)
    PROVE  AlignDown(a, Page) \in PagesOf(s)
  <1>1. a \in s.at..(s.at + s.memsz - 1)
    BY DEF InSegment, EndOf
  <1> QED BY <1>1, Zenon DEF PagesOf

(* Two segments of the list share no address.                              *)
LEMMA SegmentsApart ==
    ASSUME NEW L, OwnList(L), NEW i \in 1..Len(L), NEW j \in 1..Len(L), i # j, NEW a \in Nat, InSegment(L[i], a)
    PROVE  ~InSegment(L[j], a)
  <1> SUFFICES ASSUME InSegment(L[j], a) PROVE FALSE
    BY SMTT(20), SMTT(30)
  <1>1. L[i].at \in Nat /\ L[i].memsz \in Nat /\ L[j].at \in Nat /\ L[j].memsz \in Nat
    BY Zenon DEF OwnList
  <1>2. AlignDown(a, Page) \in PagesOf(L[i]) /\ AlignDown(a, Page) \in PagesOf(L[j])
    BY <1>1, PageOf, Zenon
  <1>3. PagesOf(L[i]) \cap PagesOf(L[j]) = {}
    BY Zenon DEF OwnList
  <1> QED BY <1>2, <1>3, Zenon

(* What the first c segments of the list have left in the space.           *)
Ranges(maps, L, c) ==
    \A m \in maps : /\ m.start \in Nat /\ m.end \in Nat /\ m.name # StackName
                    /\ \E j \in 1..c : m.start = AlignDown(L[j].at, Page) /\ m.end = pageAlignUp(EndOf(L[j]))
Apart(maps) == \A m, o \in maps : m # o => ~Overlaps(m, o.start, o.end)
Fits(size, L, c) == \A j \in 1..c : EndOf(L[j]) < Word /\ EndOf(L[j]) <= size
Covered(maps, L, c) ==
    \A j \in 1..c : \E m \in maps : m.start <= L[j].at /\ EndOf(L[j]) <= m.end /\ m.prot = L[j].flags
Filled(mem, L, c) ==
    \A j \in 1..c : \A k \in 0..(L[j].memsz - 1) :
        mem[L[j].at + k] = IF k < Len(L[j].file) THEN L[j].file[k + 1] ELSE Zero
Blank(mem, size, L, c) == \A a \in 0..(size - 1) : (\A j \in 1..c : ~InSegment(L[j], a)) => mem[a] = Zero

Loaded(sp, size, L, c) ==
    /\ IsSpace(sp, size) /\ Fits(size, L, c)
    /\ Ranges(sp.maps, L, c) /\ Apart(sp.maps) /\ Covered(sp.maps, L, c)
    /\ Filled(sp.mem, L, c) /\ Blank(sp.mem, size, L, c)

(* The first page of a segment is in no mapping of the segments before it. *)
LEMMA FirstPageFree ==
    ASSUME NEW L, OwnList(L), NEW c \in Nat, c + 1 \in 1..Len(L), NEW size \in Nat, NEW sp,
           Ranges(sp.maps, L, c), Fits(size, L, c)
    PROVE  MappingAt(sp, AlignDown(L[c + 1].at, Page)) = {}
  <1> DEFINE q == AlignDown(L[c + 1].at, Page)
             s == L[c + 1]
  <1>1. s.at \in Nat /\ s.memsz \in Nat /\ s.memsz > 0
    BY Zenon DEF OwnList
  <1>2. Page \in Nat \ {0}
    BY Sizes
  <1>3. q \in Nat /\ Multiple(q, Page)
    BY <1>1, <1>2, AlignedDown, Zenon
  <1>4. q \in PagesOf(s)
    <2>1. InSegment(s, s.at)
      BY <1>1 DEF InSegment, EndOf
    <2> QED BY <1>1, <2>1, PageOf, Zenon
  <1> SUFFICES ASSUME NEW m \in sp.maps, m.start <= q, q < m.end PROVE FALSE
    BY Zenon DEF MappingAt
  <1>5. PICK j \in 1..c : m.start = AlignDown(L[j].at, Page) /\ m.end = pageAlignUp(EndOf(L[j]))
    BY Zenon DEF Ranges
  <1>6. j \in 1..Len(L) /\ j # c + 1
    <2>1. Len(L) \in Nat
      BY Zenon DEF OwnList
    <2> QED BY <1>5, <2>1
  <1>7. L[j].at \in Nat /\ L[j].memsz \in Nat /\ L[j].memsz > 0 /\ EndOf(L[j]) < Word
    BY <1>5, <1>6, Zenon DEF OwnList, Fits
  <1>8. EndOf(L[j]) \in 0..(Word - 1) /\ L[j].at < EndOf(L[j])
    <2>1. Word \in Nat
      BY Sizes
    <2> QED BY <1>7, <2>1, SMTT(20), SMTT(30) DEF EndOf
  <1> DEFINE at == L[j].at
             end == EndOf(L[j])
  <1> HIDE DEF q, at, end
  <1>9. PICK a \in at..(end - 1) : AlignDown(a, Page) = q
    <2>1. at \in Nat /\ end \in 0..(Word - 1) /\ at < end /\ AlignDown(at, Page) <= q /\ q < pageAlignUp(end)
      BY <1>5, <1>7, <1>8, Zenon DEF at, end
    <2> QED BY <1>3, <2>1, PageInside, SMTT(20), SMTT(30)
  <1>10. q \in PagesOf(L[j])
    <2>0. end - 1 = L[j].at + L[j].memsz - 1
      BY <1>7, SMTT(20), SMTT(30) DEF end, EndOf
    <2>1. a \in L[j].at..(L[j].at + L[j].memsz - 1)
      BY <1>9, <2>0, Zenon DEF at
    <2> QED BY <1>9, <2>1, Zenon DEF PagesOf
  <1>11. PagesOf(L[j]) \cap PagesOf(s) = {}
    BY <1>6, Zenon DEF OwnList
  <1> QED BY <1>4, <1>10, <1>11, Zenon

(* The segment s of the list is the header p, placed at base.              *)
IsPlaced(s, p, base) ==
    s.at = base + p.vaddr /\ s.memsz = p.memsz /\ s.file = p.file /\ s.flags = p.flags

(* Loading the next segment of the list.                                   *)
LEMMA SegmentLoads ==
    ASSUME NEW size \in Nat, size <= Word - 1, NEW L, OwnList(L), NEW c \in Nat, c + 1 \in 1..Len(L),
           NEW sp, Loaded(sp, size, L, c), NEW p, IsSegment(p), NEW base \in Nat, IsPlaced(L[c + 1], p, base),
           NEW label, label # StackName, NEW r, r = loadSegment(sp, p, base, label), r # Failed
    PROVE  Loaded(r, size, L, c + 1)
  <1>a. PICK s : s = L[c + 1]
    OBVIOUS
  <1>b. PICK start : start = AlignDown(s.at, Page)
    BY SMTT(20), SMTT(30)
  <1>c. PICK end : end = EndOf(s)
    BY SMTT(20), SMTT(30)
  <1>d. PICK up : up = pageAlignUp(end)
    OBVIOUS
  <1>0. /\ s.at \in Nat /\ s.memsz \in Nat /\ s.memsz > 0
        /\ Len(s.file) \in Nat /\ Len(s.file) <= s.memsz
    BY <1>a, Zenon DEF OwnList
  <1>1. s.at = base + p.vaddr /\ s.memsz = p.memsz /\ s.file = p.file /\ s.flags = p.flags
    BY <1>a, Zenon DEF IsPlaced
  <1>2. /\ IsSpace(sp, size) /\ Fits(size, L, c)
        /\ Ranges(sp.maps, L, c) /\ Apart(sp.maps) /\ Covered(sp.maps, L, c)
        /\ Filled(sp.mem, L, c) /\ Blank(sp.mem, size, L, c)
    BY Zenon DEF Loaded
  <1>3. MappingAt(sp, start) = {}
    BY <1>2, <1>a, <1>b, FirstPageFree, Zenon
  <1>4. SegmentIn(sp, size, p, label, s.at, start, end, r)
    <2>1. p.memsz > 0 /\ s.at = base + p.vaddr /\ end = s.at + p.memsz
      BY <1>0, <1>1, <1>c, Zenon DEF EndOf
    <2> QED BY <1>2, <1>3, <1>b, <2>1, SegmentIs, Zenon
  <1> DEFINE new == [start |-> start, end |-> up, prot |-> s.flags, name |-> label]
  <1>5. /\ end < Word /\ up <= size /\ IsSpace(r, size)
        /\ \A m \in sp.maps : ~Overlaps(m, start, up)
        /\ r.maps = sp.maps \cup {new}
        /\ \A x \in 0..(size - 1) :
              r.mem[x] = IF s.at <= x /\ x < s.at + Len(s.file) THEN s.file[x - s.at + 1] ELSE sp.mem[x]
    BY <1>1, <1>4, <1>d, Zenon DEF SegmentIn
  <1>6. new.start = start /\ new.end = up /\ new.prot = s.flags /\ new.name = label
    BY Zenon
  <1> HIDE DEF new
  <1>7. /\ start \in Nat /\ start <= s.at /\ end \in Nat /\ up \in Nat /\ end <= up /\ s.at < end
    <2>1. Page \in Nat \ {0} /\ Word \in Nat \ {0}
      BY Sizes, SMTT(20), SMTT(30)
    <2>2. end \in Nat /\ s.at < end
      BY <1>0, <1>c, SMTT(20), SMTT(30) DEF EndOf
    <2>3. end \in 0..(Word - 1)
      BY <1>5, <2>1, <2>2
    <2>4. start \in Nat /\ start <= s.at
      BY <1>0, <1>b, <2>1, AlignedDown, Zenon
    <2>5. up \in Nat /\ end <= up
      BY <1>d, <2>3, AlignedUp, Zenon
    <2> QED BY <2>2, <2>4, <2>5, Zenon
  <1>8. \A j \in 1..(c + 1) : j \in 1..c \/ j = c + 1
    BY SMTT(20), SMTT(30)
  <1>9. 1..c \subseteq 1..(c + 1) /\ c + 1 \in 1..(c + 1)
    OBVIOUS
  <1>10. Fits(size, L, c + 1)
    <2>1. end <= size
      BY <1>5, <1>7
    <2> QED BY <1>2, <1>5, <1>8, <1>a, <1>c, <2>1, Zenon DEF Fits
  <1>11. Ranges(r.maps, L, c + 1)
    <2> SUFFICES ASSUME NEW m \in r.maps
                 PROVE  /\ m.start \in Nat /\ m.end \in Nat /\ m.name # StackName
                        /\ \E j \in 1..(c + 1) : m.start = AlignDown(L[j].at, Page) /\ m.end = pageAlignUp(EndOf(L[j]))
      BY Zenon DEF Ranges
    <2>1. CASE m \in sp.maps
      BY <1>2, <1>9, <2>1, Zenon DEF Ranges
    <2>2. CASE m = new
      BY <1>6, <1>7, <1>9, <1>a, <1>b, <1>c, <1>d, <2>2, Zenon
    <2> QED BY <1>5, <2>1, <2>2, Zenon
  <1>12. Apart(r.maps)
    <2> SUFFICES ASSUME NEW m \in r.maps, NEW o \in r.maps, m # o PROVE ~Overlaps(m, o.start, o.end)
      BY Zenon DEF Apart
    <2>1. CASE m \in sp.maps /\ o \in sp.maps
      BY <1>2, <2>1, Zenon DEF Apart
    <2>2. CASE m \in sp.maps /\ o = new
      BY <1>5, <1>6, <2>2, Zenon
    <2>3. CASE m = new /\ o \in sp.maps
      <3>1. ~(start < o.end /\ up > o.start)
        BY <1>5, <2>3, Zenon DEF Overlaps
      <3>2. o.start \in Nat /\ o.end \in Nat
        BY <1>2, <2>3, Zenon DEF Ranges
      <3>3. ~(o.start < up /\ o.end > start)
        BY <1>7, <3>1, <3>2
      <3> QED BY <1>6, <2>3, <3>3, Zenon DEF Overlaps
    <2> QED BY <1>5, <2>1, <2>2, <2>3, Zenon
  <1>13. Covered(r.maps, L, c + 1)
    <2> SUFFICES ASSUME NEW j \in 1..(c + 1)
                 PROVE  \E m \in r.maps : m.start <= L[j].at /\ EndOf(L[j]) <= m.end /\ m.prot = L[j].flags
      BY Zenon DEF Covered
    <2>1. CASE j \in 1..c
      BY <1>2, <1>5, <2>1, Zenon DEF Covered
    <2>2. CASE j = c + 1
      BY <1>5, <1>6, <1>7, <1>a, <1>c, <2>2, Zenon
    <2> QED BY <1>8, <2>1, <2>2, Zenon
  <1>14. \A j \in 1..c, a \in Nat : InSegment(s, a) => ~InSegment(L[j], a)
    <2> SUFFICES ASSUME NEW j \in 1..c, NEW a \in Nat, InSegment(s, a) PROVE ~InSegment(L[j], a)
      BY Zenon
    <2>1. Len(L) \in Nat
      BY Zenon DEF OwnList
    <2>2. j \in 1..Len(L) /\ j # c + 1
      BY <2>1
    <2> QED BY <1>a, <2>2, SegmentsApart, Zenon
  <1>15. \A a \in 0..(size - 1) : ~InSegment(s, a) => r.mem[a] = sp.mem[a]
    <2> SUFFICES ASSUME NEW a \in 0..(size - 1), ~InSegment(s, a) PROVE r.mem[a] = sp.mem[a]
      BY Zenon
    <2>1. ~(s.at <= a /\ a < s.at + Len(s.file))
      BY <1>0, SMTT(20), SMTT(30) DEF InSegment, EndOf
    <2> QED BY <1>5, <2>1, Zenon
  <1>16. Filled(r.mem, L, c + 1)
    <2> SUFFICES ASSUME NEW j \in 1..(c + 1), NEW k \in 0..(L[j].memsz - 1)
                 PROVE  r.mem[L[j].at + k] = IF k < Len(L[j].file) THEN L[j].file[k + 1] ELSE Zero
      BY Zenon DEF Filled
    <2>a. PICK a : a = L[j].at + k
      BY SMTT(20), SMTT(30)
    <2>0. L[j].at \in Nat /\ L[j].memsz \in Nat /\ EndOf(L[j]) <= size
      <3>1. Len(L) \in Nat
        BY Zenon DEF OwnList
      <3>2. j \in 1..Len(L)
        BY <3>1
      <3> QED BY <1>10, <3>2, Zenon DEF OwnList, Fits
    <2>1. a \in Nat /\ a \in 0..(size - 1) /\ InSegment(L[j], a) /\ k \in Nat
      <3>1. PICK at, n : at = L[j].at /\ n = L[j].memsz
        BY ZenonT(40), SMTT(20), SMTT(30)
      <3>2. at \in Nat /\ n \in Nat /\ at + n <= size /\ k \in 0..(n - 1) /\ a = at + k
        BY <2>0, <2>a, <3>1, Zenon DEF EndOf
      <3>3. a \in Nat /\ a \in 0..(size - 1) /\ k \in Nat /\ at <= a /\ a < at + n
        BY <3>2
      <3> QED BY <3>1, <3>3, Zenon DEF InSegment, EndOf
    <2>2. CASE j \in 1..c
      <3>1. ~InSegment(s, a)
        BY <1>14, <2>1, <2>2, Zenon
      <3>2. sp.mem[a] = IF k < Len(L[j].file) THEN L[j].file[k + 1] ELSE Zero
        BY <1>2, <2>2, <2>a, Zenon DEF Filled
      <3> QED BY <1>15, <2>1, <2>a, <3>1, <3>2, Zenon
    <2>3. CASE j = c + 1
      <3>0. InSegment(s, a) /\ a = s.at + k /\ L[j] = s
        BY <1>a, <2>1, <2>3, <2>a, Zenon
      <3>1. CASE k < Len(s.file)
        <4>1. s.at <= a /\ a < s.at + Len(s.file) /\ a - s.at + 1 = k + 1
          <5>1. PICK at, n : at = s.at /\ n = Len(s.file)
            BY ZenonT(40), SMTT(20), SMTT(30)
          <5>2. at \in Nat /\ n \in Nat /\ k \in Nat /\ a = at + k /\ k < n
            BY <1>0, <2>1, <3>0, <3>1, <5>1, Zenon
          <5>3. at <= a /\ a < at + n /\ a - at + 1 = k + 1
            BY <5>2, SMTT(20), SMTT(30)
          <5> QED BY <5>1, <5>3, Zenon
        <4> QED BY <1>5, <2>1, <2>a, <3>0, <3>1, <4>1, Zenon
      <3>2. CASE ~(k < Len(s.file))
        <4>1. ~(s.at <= a /\ a < s.at + Len(s.file))
          BY <1>0, <2>1, <3>0, <3>2, SMTT(20), SMTT(30)
        <4>2. sp.mem[a] = Zero
          BY <1>2, <1>14, <2>1, <3>0, Zenon DEF Blank
        <4> QED BY <1>5, <2>1, <2>a, <3>0, <3>2, <4>1, <4>2, Zenon
      <3> QED BY <3>1, <3>2, Zenon
    <2> QED BY <1>8, <2>2, <2>3, Zenon
  <1>17. Blank(r.mem, size, L, c + 1)
    BY <1>2, <1>9, <1>15, <1>a, Zenon DEF Blank
  <1> QED BY <1>5, <1>10, <1>11, <1>12, <1>13, <1>16, <1>17, Zenon DEF Loaded

-----------------------------------------------------------------------------
(* All segments of a program.                                              *)

(* The loop of loadSegments, step by step.                                 *)
LoadingRun(f, sp, e, base, label, n, r) ==
    /\ f[0] = sp /\ r = f[n]
    /\ \A k \in 1..n : f[k] = loadSegment(f[k - 1], e.segs[k], base, label)

(* loadSegments is such a loop.                                            *)
LEMMA LoadingSteps ==
    ASSUME NEW sp, NEW e, NEW base, NEW label, NEW n \in Nat, n = Len(e.segs)
    PROVE  \E f : LoadingRun(f, sp, e, base, label, n, loadSegments(sp, e, base, label))
  <1> DEFINE f == CHOOSE g : Loading(g, sp, e, base, label, n)
  <1>1. Loading(f, sp, e, base, label, n)
    BY LoadingExists, Zenon
  <1>2. loadSegments(sp, e, base, label) = f[n]
    BY Zenon DEF loadSegments, Loading
  <1> HIDE DEF f
  <1>3. f = [k \in 0..n |-> IF k = 0 THEN sp ELSE loadSegment(f[k - 1], e.segs[k], base, label)]
    BY <1>1, Zenon DEF Loading
  <1>4. 0 \in 0..n /\ \A k \in 1..n : k \in 0..n /\ k # 0
    OBVIOUS
  <1>5. f[0] = sp /\ \A k \in 1..n : f[k] = loadSegment(f[k - 1], e.segs[k], base, label)
    BY <1>3, <1>4, Zenon
  <1> QED BY <1>2, <1>5, Zenon DEF LoadingRun

(* What holds at the start and is kept by every step holds at the end.     *)
LEMMA Reaches ==
    ASSUME NEW n \in Nat, NEW S \in SUBSET Nat, 0 \in S, \A k \in 1..n : k - 1 \in S => k \in S
    PROVE  n \in S
  <1> DEFINE Bad == {k \in 0..n : k \notin S}
  <1> SUFFICES ASSUME n \notin S PROVE FALSE
    OBVIOUS
  <1>1. Bad \in SUBSET Nat /\ Bad # {}
    OBVIOUS
  <1>2. PICK m \in Bad : \A k \in Bad : m <= k
    <2> HIDE DEF Bad
    <2> QED BY <1>1, LeastOf, Zenon
  <1>3. m \in Nat /\ m <= n /\ m \notin S /\ m # 0
    BY <1>2
  <1>4. m \in 1..n /\ m - 1 \in 0..n /\ ~(m <= m - 1)
    BY <1>3
  <1> QED BY <1>2, <1>3, <1>4

(* The segments of a program are segments.                                 *)
LEMMA ProgramSegments ==
    ASSUME NEW e, IsProgram(e), NEW k \in 1..Len(e.segs)
    PROVE  IsSegment(e.segs[k])
  <1>1. {e.segs[k].vaddr, e.segs[k].memsz, Len(e.segs[k].file)} \subseteq Nat
    BY Zenon DEF IsProgram
  <1> QED BY <1>1, Zenon DEF IsSegment

(* Loading never changes the size of the space.                            *)
LEMMA SegmentsKeep ==
    ASSUME NEW size \in Nat, NEW sp, sp = Failed \/ IsSpace(sp, size), NEW e, IsProgram(e),
           NEW base \in Nat, NEW label
    PROVE  loadSegments(sp, e, base, label) = Failed \/ IsSpace(loadSegments(sp, e, base, label), size)
  <1>a. PICK n \in Nat : n = Len(e.segs)
    BY Zenon DEF IsProgram
  <1>1. PICK f : /\ f[0] = sp /\ loadSegments(sp, e, base, label) = f[n]
                 /\ \A k \in 1..n : f[k] = loadSegment(f[k - 1], e.segs[k], base, label)
    <2>1. PICK f : LoadingRun(f, sp, e, base, label, n, loadSegments(sp, e, base, label))
      BY <1>a, LoadingSteps, Zenon
    <2> QED BY <2>1, Zenon DEF LoadingRun
  <1> DEFINE S == {k \in Nat : f[k] = Failed \/ IsSpace(f[k], size)}
  <1>2. 0 \in S
    BY <1>1
  <1>3. ASSUME NEW k \in 1..n, k - 1 \in S PROVE k \in S
    <2>1. IsSegment(e.segs[k])
      BY <1>a, ProgramSegments, Zenon
    <2>2. f[k - 1] = Failed \/ IsSpace(f[k - 1], size)
      BY <1>3
    <2>3. f[k] = Failed \/ IsSpace(f[k], size)
      BY <1>1, <2>1, <2>2, SegmentKeeps, Zenon
    <2>4. k \in Nat
      OBVIOUS
    <2> QED BY <2>3, <2>4, Zenon
  <1>4. S \in SUBSET Nat
    OBVIOUS
  <1> HIDE DEF S
  <1>5. n \in S
    BY <1>2, <1>3, <1>4, Reaches, Zenon
  <1> QED BY <1>1, <1>5, Zenon DEF S

(* The segments of a program are loaded after those before them.           *)
LEMMA SegmentsLoad ==
    ASSUME NEW size \in Nat, size <= Word - 1, NEW L, OwnList(L), NEW off \in Nat, NEW e, IsProgram(e),
           off + Len(e.segs) <= Len(L), NEW base \in Nat,
           \A i \in 1..Len(e.segs) : IsPlaced(L[off + i], e.segs[i], base),
           NEW label, label # StackName, NEW sp, Loaded(sp, size, L, off),
           NEW r, r = loadSegments(sp, e, base, label), r # Failed
    PROVE  Loaded(r, size, L, off + Len(e.segs))
  <1>a. PICK n \in Nat : n = Len(e.segs)
    BY Zenon DEF IsProgram
  <1>b. Len(L) \in Nat
    BY Zenon DEF OwnList
  <1>1. PICK f : /\ f[0] = sp /\ loadSegments(sp, e, base, label) = f[n]
                 /\ \A k \in 1..n : f[k] = loadSegment(f[k - 1], e.segs[k], base, label)
    <2>1. PICK f : LoadingRun(f, sp, e, base, label, n, loadSegments(sp, e, base, label))
      BY <1>a, LoadingSteps, Zenon
    <2> QED BY <2>1, Zenon DEF LoadingRun
  <1> DEFINE S == {k \in Nat : f[k] = Failed \/ Loaded(f[k], size, L, off + k)}
  <1>2. 0 \in S
    <2>1. off + 0 = off
      OBVIOUS
    <2>2. Loaded(f[0], size, L, off + 0)
      BY <1>1, <2>1, Zenon
    <2> QED BY <2>2
  <1>3. ASSUME NEW k \in 1..n, k - 1 \in S PROVE k \in S
    <2>0. PICK c \in Nat : c = off + (k - 1)
      OBVIOUS
    <2>1. IsSegment(e.segs[k]) /\ IsPlaced(L[off + k], e.segs[k], base)
      BY <1>a, ProgramSegments, Zenon
    <2>2. c + 1 = off + k /\ c + 1 \in 1..Len(L) /\ k \in Nat
      BY <1>a, <1>b, <2>0
    <2>3. f[k - 1] = Failed \/ Loaded(f[k - 1], size, L, c)
      BY <1>3, <2>0, Zenon
    <2>4. f[k] = loadSegment(f[k - 1], e.segs[k], base, label)
      BY <1>1, Zenon
    <2>5. CASE f[k - 1] = Failed
      <3>1. f[k] = Failed
        BY <2>4, <2>5, FailedStays, Zenon
      <3> QED BY <2>2, <3>1, Zenon
    <2>6. CASE Loaded(f[k - 1], size, L, c) /\ f[k] # Failed
      <3>0. IsPlaced(L[c + 1], e.segs[k], base)
        BY <2>1, <2>2, Zenon
      <3>1. Loaded(f[k], size, L, c + 1)
        BY <2>1, <2>2, <2>4, <2>6, <3>0, SegmentLoads, Zenon
      <3> QED BY <2>2, <3>1, Zenon
    <2> QED BY <2>2, <2>3, <2>5, <2>6, Zenon
  <1>4. S \in SUBSET Nat
    OBVIOUS
  <1> HIDE DEF S
  <1>5. n \in S
    BY <1>2, <1>3, <1>4, Reaches, Zenon
  <1> QED BY <1>1, <1>5, <1>a, Zenon DEF S

(* A new space holds nothing.                                              *)
LEMMA SpaceIsLoaded ==
    ASSUME NEW size \in Nat, NEW L
    PROVE  IsSpace(Space(size), size) /\ Loaded(Space(size), size, L, 0)
  <1> DEFINE mem == [a \in 0..(size - 1) |-> Zero]
  <1>1. Space(size) = SpaceOf(size, {}, mem) /\ DOMAIN mem = 0..(size - 1) /\ \A a \in 0..(size - 1) : mem[a] = Zero
    BY Zenon DEF Space
  <1> HIDE DEF mem
  <1>2. PICK sp : sp = Space(size)
    OBVIOUS
  <1>3. IsSpace(sp, size) /\ sp.maps = {} /\ sp.mem = mem
    <2>1. sp = SpaceOf(size, {}, mem) /\ DOMAIN mem = 0..(size - 1)
      BY <1>1, <1>2, Zenon
    <2>2. sp.maps = {} /\ sp.mem = mem
      BY <2>1, SMT DEF SpaceOf
    <2> QED BY <2>1, <2>2, Zenon DEF IsSpace
  <1>4. 1..0 = {}
    OBVIOUS
  <1>5. /\ Fits(size, L, 0) /\ Ranges({}, L, 0) /\ Apart({}) /\ Covered({}, L, 0)
        /\ Filled(mem, L, 0) /\ Blank(mem, size, L, 0)
    BY <1>1, <1>4, Zenon DEF Fits, Ranges, Apart, Covered, Filled, Blank
  <1> QED BY <1>2, <1>3, <1>5, Zenon DEF Loaded

-----------------------------------------------------------------------------
(* The strings of the stack.                                               *)

StringIn(mem, a, v) ==
    /\ \A i \in 1..Len(v) : mem[a + i - 1] = Byte(v[i])
    /\ mem[a + Len(v)] = Zero

StringOf(v, n) == Append([i \in 1..n |-> Byte(v[i])], Zero)

(* The bytes of a string with its zero.                                    *)
LEMMA StringBytes ==
    ASSUME NEW v, NEW n \in Nat, n = Len(v), NEW b, b = StringOf(v, n)
    PROVE  Len(b) = n + 1 /\ (\A i \in 1..n : b[i] = Byte(v[i])) /\ b[n + 1] = Zero
  <1> DEFINE S == {Byte(v[i]) : i \in 1..n} \cup {Zero}
             q == [i \in 1..n |-> Byte(v[i])]
  <1>1. q \in [1..n -> S] /\ Zero \in S
    BY Zenon
  <1>2. \A i \in 1..n : q[i] = Byte(v[i])
    BY Zenon
  <1> HIDE DEF q, S
  <1>3. q \in Seq(S) /\ Len(q) = n
    BY <1>1
  <1>4. b = Append(q, Zero)
    BY Zenon DEF q, StringOf
  <1>5. Len(b) = n + 1 /\ (\A i \in 1..n : b[i] = q[i]) /\ b[n + 1] = Zero
    BY <1>1, <1>3, <1>4
  <1> QED BY <1>2, <1>5, Zenon

(* What pushing the string v below low leaves.                             *)
OnePushed(s, size, v, at, r) ==
    /\ at \in Nat /\ s.low = at + (Len(v) + 1) /\ s.low <= size
    /\ r.low = at /\ r.ptrs = <<at>> \o s.ptrs
    /\ IsSpace(r.sp, size) /\ r.sp.maps = s.sp.maps
    /\ StringIn(r.sp.mem, at, v)
    /\ \A x \in 0..(size - 1) : ~(at <= x /\ x < s.low) => r.sp.mem[x] = s.sp.mem[x]

(* Pushing one string.                                                     *)
LEMMA PushOne ==
    ASSUME NEW size \in Nat, NEW s, IsSpace(s.sp, size), s.low \in Nat, NEW v, Len(v) \in Nat,
           NEW r, r = pushString(s, v), r.sp # Failed
    PROVE  \E at : OnePushed(s, size, v, at, r)
  <1>a. PICK n \in Nat : n = Len(v)
    OBVIOUS
  <1>b. PICK low \in Nat : low = s.low
    OBVIOUS
  <1>c. PICK at : at = low - (n + 1)
    OBVIOUS
  <1>d. PICK b : b = StringOf(v, n)
    OBVIOUS
  <1>1. s.sp.ok = TRUE
    BY SpaceIsOk, Zenon
  <1>e. PICK w, ptrs : w = WriteBytes(s.sp, at, b) /\ ptrs = <<at>> \o s.ptrs
    BY ZenonT(40), SMTT(20), SMTT(30)
  <1>2. r = [sp |-> Failed] \/ (r = [sp |-> w, low |-> at, ptrs |-> ptrs] /\ ~(n + 1 > low))
    BY <1>1, <1>a, <1>b, <1>c, <1>d, <1>e, Zenon DEF pushString, StringOf
  <1>3. r # [sp |-> Failed]
    <2>1. [sp |-> Failed].sp = Failed
      BY Zenon
    <2> QED BY <2>1, Zenon
  <1>4. ~(n + 1 > low) /\ r.sp = w /\ r.low = at /\ r.ptrs = ptrs
    <2>1. r = [sp |-> w, low |-> at, ptrs |-> ptrs]
      BY <1>2, <1>3, Zenon
    <2>2. r.sp = w /\ r.low = at /\ r.ptrs = ptrs
      BY <2>1, SMT
    <2> QED BY <1>2, <1>3, <2>2, Zenon
  <1>5. at \in Nat /\ low = at + (n + 1)
    BY <1>4, <1>c
  <1>6. Len(b) = n + 1 /\ (\A i \in 1..n : b[i] = Byte(v[i])) /\ b[n + 1] = Zero
    BY <1>a, <1>d, StringBytes, Zenon
  <1>7. Len(b) \in Nat
    BY <1>6
  <1>8. Wrote(s.sp, size, at, b, r.sp)
    BY <1>4, <1>5, <1>7, <1>e, WriteIs, Zenon
  <1>9. /\ low <= size /\ IsSpace(r.sp, size) /\ r.sp.maps = s.sp.maps
        /\ \A x \in 0..(size - 1) : r.sp.mem[x] = IF at <= x /\ x < low THEN b[x - at + 1] ELSE s.sp.mem[x]
    BY <1>5, <1>6, <1>8, Zenon DEF Wrote, Over
  <1>10. StringIn(r.sp.mem, at, v)
    <2>1. ASSUME NEW i \in 1..(n + 1)
          PROVE  r.sp.mem[at + i - 1] = b[i]
      <3>1. PICK x : x = at + i - 1
        OBVIOUS
      <3>2. x \in 0..(size - 1) /\ at <= x /\ x < low /\ x - at + 1 = i
        BY <1>5, <1>9, <3>1
      <3> QED BY <1>9, <3>1, <3>2, Zenon
    <2>2. n + 1 \in 1..(n + 1) /\ 1..n \subseteq 1..(n + 1) /\ at + (n + 1) - 1 = at + n
      BY <1>5
    <2> QED BY <1>6, <1>a, <2>1, <2>2, Zenon DEF StringIn
  <1> QED BY <1>4, <1>5, <1>9, <1>10, <1>a, <1>b, <1>e, Zenon DEF OnePushed

(* A string stays where no byte of it is written.                          *)
LEMMA StringStays ==
    ASSUME NEW mem, NEW new, NEW a \in Nat, NEW v, NEW n \in Nat, n = Len(v), StringIn(mem, a, v),
           \A x \in a..(a + n) : new[x] = mem[x]
    PROVE  StringIn(new, a, v)
  <1>1. \A i \in 1..n : a + i - 1 \in a..(a + n)
    OBVIOUS
  <1>2. a + n \in a..(a + n)
    OBVIOUS
  <1> QED BY <1>1, <1>2, Zenon DEF StringIn

(* The string v is in the memory of s, where its j-th pointer leads.       *)
Kept(s, top, j, v) ==
    s.low <= s.ptrs[j] /\ s.ptrs[j] + Len(v) < top /\ StringIn(s.sp.mem, s.ptrs[j], v)

(* The last k of n strings are pushed below top, total bytes of them.      *)
Pushed(s, sp, size, top, values, n, k, total) ==
    /\ s.low \in Nat /\ total \in Nat /\ s.low + total = top
    /\ IsSpace(s.sp, size) /\ s.sp.maps = sp.maps
    /\ s.ptrs \in Seq(Nat) /\ Len(s.ptrs) = k
    /\ \A x \in 0..(size - 1) : ~(s.low <= x /\ x < top) => s.sp.mem[x] = sp.mem[x]
    /\ \A j \in 1..k : Kept(s, top, j, values[n - k + j])

(* A pointer in front of the others.                                       *)
LEMMA InFront ==
    ASSUME NEW at \in Nat, NEW ptrs \in Seq(Nat), NEW k \in Nat, Len(ptrs) = k, NEW q, q = <<at>> \o ptrs
    PROVE  q \in Seq(Nat) /\ Len(q) = k + 1 /\ q[1] = at /\ \A j \in 2..(k + 1) : q[j] = ptrs[j - 1]
  <1>1. <<at>> \in Seq(Nat) /\ Len(<<at>>) = 1 /\ <<at>>[1] = at
    OBVIOUS
  <1> QED BY <1>1

(* Pushing the next string.                                                *)
LEMMA PushNext ==
    ASSUME NEW size \in Nat, NEW sp, NEW top \in Nat, top <= size, NEW values, NEW n \in Nat, NEW k \in Nat, NEW total, k < n,
           NEW s, Pushed(s, sp, size, top, values, n, k, total), NEW v, v = values[n - k],
           \A i \in 1..n : Len(values[i]) \in Nat,
           NEW r, r = pushString(s, v), r.sp # Failed
    PROVE  Pushed(r, sp, size, top, values, n, k + 1, total + Len(v) + 1)
  <1>0. n - k \in 1..n
    OBVIOUS
  <1>a. PICK len \in Nat : len = Len(v)
    BY <1>0, Zenon
  <1>1. /\ s.low \in Nat /\ total \in Nat /\ s.low + total = top
        /\ IsSpace(s.sp, size) /\ s.sp.maps = sp.maps
        /\ s.ptrs \in Seq(Nat) /\ Len(s.ptrs) = k
        /\ \A x \in 0..(size - 1) : ~(s.low <= x /\ x < top) => s.sp.mem[x] = sp.mem[x]
        /\ \A j \in 1..k : Kept(s, top, j, values[n - k + j])
    BY Zenon DEF Pushed
  <1>2. PICK at : OnePushed(s, size, v, at, r)
    BY <1>1, <1>a, PushOne, Zenon
  <1>3. /\ at \in Nat /\ s.low = at + (len + 1) /\ s.low <= size
        /\ r.low = at /\ r.ptrs = <<at>> \o s.ptrs
        /\ IsSpace(r.sp, size) /\ r.sp.maps = s.sp.maps
        /\ StringIn(r.sp.mem, at, v)
        /\ \A x \in 0..(size - 1) : ~(at <= x /\ x < s.low) => r.sp.mem[x] = s.sp.mem[x]
    BY <1>2, <1>a, Zenon DEF OnePushed
  <1>b. PICK low \in Nat : low = s.low
    BY <1>1
  <1>4. r.ptrs \in Seq(Nat) /\ Len(r.ptrs) = k + 1 /\ r.ptrs[1] = at /\ \A j \in 2..(k + 1) : r.ptrs[j] = s.ptrs[j - 1]
    <2>1. PICK old, new : old = s.ptrs /\ new = r.ptrs
      OBVIOUS
    <2>2. at \in Nat /\ old \in Seq(Nat) /\ Len(old) = k /\ new = <<at>> \o old
      BY <1>1, <1>3, <2>1, Zenon
    <2>3. new \in Seq(Nat) /\ Len(new) = k + 1 /\ new[1] = at /\ \A j \in 2..(k + 1) : new[j] = old[j - 1]
      BY <2>2, InFront
    <2> QED BY <2>1, <2>3, Zenon
  <1>5. at \in Nat /\ total + len + 1 \in Nat /\ at + (total + len + 1) = top /\ low <= top /\ at < low
    <2>1. total \in Nat /\ low + total = top /\ at \in Nat /\ low = at + (len + 1)
      BY <1>1, <1>3, <1>b, Zenon
    <2> QED BY <2>1
  <1>6. \A x \in 0..(size - 1) : ~(at <= x /\ x < top) => r.sp.mem[x] = sp.mem[x]
    <2> SUFFICES ASSUME NEW x \in 0..(size - 1), ~(at <= x /\ x < top) PROVE r.sp.mem[x] = sp.mem[x]
      BY Zenon
    <2>1. ~(at <= x /\ x < low) /\ ~(low <= x /\ x < top)
      BY <1>5
    <2> QED BY <1>1, <1>3, <1>b, <2>1, Zenon
  <1>7. ASSUME NEW j \in 1..(k + 1) PROVE Kept(r, top, j, values[n - (k + 1) + j])
    <2>1. CASE j = 1
      <3>1. n - (k + 1) + j = n - k /\ at <= at /\ at + len < top
        BY <1>3, <1>5, <1>b, <2>1
      <3> QED BY <1>3, <1>4, <1>a, <2>1, <3>1, Zenon DEF Kept
    <2>2. CASE j # 1
      <3>0. j - 1 \in 1..k /\ j \in 2..(k + 1) /\ n - (k + 1) + j = n - k + (j - 1)
        BY <2>2, SMTT(20), SMTT(30)
      <3>a. PICK w, q : w = values[n - (k + 1) + j] /\ q = r.ptrs[j]
        OBVIOUS
      <3>1. Kept(s, top, j - 1, w) /\ q = s.ptrs[j - 1]
        BY <1>1, <1>4, <3>0, <3>a, Zenon
      <3>2. low <= q /\ q + Len(w) < top /\ StringIn(s.sp.mem, q, w)
        BY <1>b, <3>1, Zenon DEF Kept
      <3>3. Len(w) \in Nat /\ q \in Nat
        <4>1. n - (k + 1) + j \in 1..n
          BY <3>0
        <4>2. q \in Nat
          BY <1>4, <3>a, SMTT(20), SMTT(30)
        <4> QED BY <3>a, <4>1, <4>2, Zenon
      <3>b. PICK m \in Nat : m = Len(w)
        BY <3>3
      <3>4. at <= q /\ q + m < top
        BY <1>5, <3>2, <3>3, <3>b
      <3>5. \A x \in q..(q + m) : r.sp.mem[x] = s.sp.mem[x]
        <4> SUFFICES ASSUME NEW x \in q..(q + m) PROVE r.sp.mem[x] = s.sp.mem[x]
          BY Zenon
        <4>1. x \in 0..(size - 1) /\ ~(at <= x /\ x < low)
          BY <1>5, <3>2, <3>3, <3>b
        <4> QED BY <1>3, <1>b, <4>1, Zenon
      <3>6. StringIn(r.sp.mem, q, w)
        <4>1. PICK old, new : old = s.sp.mem /\ new = r.sp.mem
          OBVIOUS
        <4>2. StringIn(old, q, w) /\ q \in Nat /\ \A x \in q..(q + m) : new[x] = old[x]
          BY <3>2, <3>3, <3>5, <4>1, Zenon
        <4>3. StringIn(new, q, w)
          BY <3>b, <4>2, StringStays
        <4> QED BY <4>1, <4>3, Zenon
      <3> QED BY <1>3, <3>4, <3>6, <3>a, <3>b, Zenon DEF Kept
    <2> QED BY <2>1, <2>2, Zenon
  <1> QED BY <1>1, <1>3, <1>4, <1>5, <1>6, <1>7, <1>a, Zenon DEF Pushed

(* The loops of pushStrings and of Bytes, step by step.                    *)
PushingRun(f, sp, top, values, n, r) ==
    /\ f[0] = [sp |-> sp, low |-> top, ptrs |-> <<>>] /\ r = f[n]
    /\ \A k \in 1..n : f[k] = pushString(f[k - 1], values[n + 1 - k])
AddingRun(g, vs, n, r) ==
    g[0] = 0 /\ r = g[n] /\ \A k \in 1..n : g[k] = g[k - 1] + Len(vs[n + 1 - k]) + 1

(* pushStrings is such a loop.                                             *)
LEMMA PushingSteps ==
    ASSUME NEW sp, NEW top, NEW values, NEW n \in Nat, n = Len(values)
    PROVE  \E f : PushingRun(f, sp, top, values, n, pushStrings(sp, top, values))
  <1> DEFINE f == CHOOSE g : Pushing(g, sp, top, values, n)
  <1>1. Pushing(f, sp, top, values, n)
    BY PushingExists, Zenon
  <1>2. pushStrings(sp, top, values) = f[n]
    BY Zenon DEF pushStrings, Pushing
  <1> HIDE DEF f
  <1>a. PICK start : start = [sp |-> sp, low |-> top, ptrs |-> <<>>]
    BY ZenonT(40), SMTT(20), SMTT(30)
  <1>3. f = [k \in 0..n |-> IF k = 0 THEN start ELSE pushString(f[k - 1], values[n + 1 - k])]
    BY <1>1, <1>a, Zenon DEF Pushing
  <1>4. 0 \in 0..n /\ \A k \in 1..n : k \in 0..n /\ k # 0
    OBVIOUS
  <1>5. f[0] = start /\ \A k \in 1..n : f[k] = pushString(f[k - 1], values[n + 1 - k])
    BY <1>3, <1>4, Zenon
  <1> QED BY <1>2, <1>5, <1>a, Zenon DEF PushingRun

(* So is Bytes.                                                            *)
LEMMA AddingSteps ==
    ASSUME NEW vs, NEW n \in Nat, n = Len(vs)
    PROVE  \E g : AddingRun(g, vs, n, Bytes(vs))
  <1> DEFINE f == CHOOSE g : Adding(g, vs, n)
  <1>1. Adding(f, vs, n)
    BY AddingExists, Zenon
  <1>2. Bytes(vs) = f[n]
    BY Zenon DEF Bytes, Adding
  <1> HIDE DEF f
  <1>3. f = [k \in 0..n |-> IF k = 0 THEN 0 ELSE f[k - 1] + Len(vs[n + 1 - k]) + 1]
    BY <1>1, Zenon DEF Adding
  <1>4. 0 \in 0..n /\ \A k \in 1..n : k \in 0..n /\ k # 0
    OBVIOUS
  <1>5. f[0] = 0 /\ \A k \in 1..n : f[k] = f[k - 1] + Len(vs[n + 1 - k]) + 1
    BY <1>3, <1>4, Zenon
  <1> QED BY <1>2, <1>5, Zenon DEF AddingRun

(* After an error nothing more is pushed.                                  *)
LEMMA PushAfterError ==
    ASSUME NEW s, s.sp = Failed, NEW v
    PROVE  pushString(s, v).sp = Failed
  <1>1. s.sp.ok = FALSE
    BY FailedStays, Zenon
  <1>2. pushString(s, v) = [sp |-> Failed]
    BY <1>1, Zenon DEF pushString
  <1> QED BY <1>2

(* All strings of a vector are pushed, or pushStrings fails.               *)
LEMMA PushAll ==
    ASSUME NEW size \in Nat, NEW sp, IsSpace(sp, size), NEW top \in Nat, top <= size,
           NEW values, IsStrings(values), NEW r, r = pushStrings(sp, top, values), r.sp # Failed
    PROVE  Pushed(r, sp, size, top, values, Len(values), Len(values), Bytes(values))
  <1>a. PICK n \in Nat : n = Len(values)
    BY Zenon DEF IsStrings
  <1>b. \A i \in 1..n : Len(values[i]) \in Nat
    BY <1>a, Zenon DEF IsStrings
  <1>1. PICK f : PushingRun(f, sp, top, values, n, r)
    BY <1>a, PushingSteps, Zenon
  <1>2. PICK g : AddingRun(g, values, n, Bytes(values))
    BY <1>a, AddingSteps, Zenon
  <1> DEFINE S == {k \in Nat : f[k].sp = Failed \/ Pushed(f[k], sp, size, top, values, n, k, g[k])}
  <1>3. 0 \in S
    <2>1. PICK s : s = f[0]
      OBVIOUS
    <2>2. s.sp = sp /\ s.low = top /\ s.ptrs = <<>>
      <3>1. s = [sp |-> sp, low |-> top, ptrs |-> <<>>]
        BY <1>1, <2>1, Zenon DEF PushingRun
      <3> QED BY <3>1
    <2>3. g[0] = 0 /\ 0 \in Nat /\ top + 0 = top
      BY <1>2 DEF AddingRun
    <2>4. <<>> \in Seq(Nat) /\ Len(<<>>) = 0 /\ 1..0 = {}
      OBVIOUS
    <2>5. Pushed(s, sp, size, top, values, n, 0, g[0])
      BY <2>2, <2>3, <2>4, Zenon DEF Pushed
    <2> QED BY <2>1, <2>3, <2>5, Zenon
  <1>4. ASSUME NEW k \in 1..n, k - 1 \in S PROVE k \in S
    <2>a. PICK c \in Nat : c = k - 1
      OBVIOUS
    <2>0. k \in Nat /\ c + 1 = k /\ c < n /\ n + 1 - k = n - c /\ n - c \in 1..n
      BY <2>a
    <2>b. PICK v : v = values[n - c]
      OBVIOUS
    <2>1. f[k] = pushString(f[c], v) /\ g[k] = g[c] + Len(v) + 1
      BY <1>1, <1>2, <2>0, <2>a, <2>b, Zenon DEF PushingRun, AddingRun
    <2>2. f[c].sp = Failed \/ Pushed(f[c], sp, size, top, values, n, c, g[c])
      BY <1>4, <2>a, Zenon
    <2>3. CASE f[c].sp = Failed
      BY <2>0, <2>1, <2>3, PushAfterError, Zenon
    <2>4. CASE Pushed(f[c], sp, size, top, values, n, c, g[c]) /\ f[k].sp # Failed
      <3>1. Pushed(f[k], sp, size, top, values, n, c + 1, g[c] + Len(v) + 1)
        BY <1>b, <2>0, <2>1, <2>4, <2>b, PushNext, Zenon
      <3> QED BY <2>0, <2>1, <3>1, Zenon
    <2> QED BY <2>0, <2>2, <2>3, <2>4, Zenon
  <1>5. S \in SUBSET Nat
    OBVIOUS
  <1> HIDE DEF S
  <1>6. n \in S
    BY <1>3, <1>4, <1>5, Reaches, Zenon
  <1>7. r = f[n] /\ Bytes(values) = g[n]
    BY <1>1, <1>2, Zenon DEF PushingRun, AddingRun
  <1> QED BY <1>6, <1>7, <1>a, Zenon DEF S

-----------------------------------------------------------------------------
(* The words of the stack.                                                 *)

WordIn(mem, a, v) == \A i \in 1..Cell : mem[a + i - 1] = <<"word", v, i>>

WordByteIs(w, n, j, i, k) == k \in 1..(Cell * n) /\ WordBytes(w)[k] = <<"word", w[j], i>>

(* The i-th byte of the j-th word.                                         *)
LEMMA WordByte ==
    ASSUME NEW w, NEW n \in Nat, n = Len(w), NEW j \in 1..n, NEW i \in 1..Cell, NEW k, k = Cell * (j - 1) + i
    PROVE  WordByteIs(w, n, j, i, k)
  <1>0. Cell \in Nat \ {0} /\ j - 1 \in Nat /\ i - 1 \in 0..(Cell - 1) /\ i \in Nat /\ j \in Nat
    BY Sizes
  <1>a. PICK q \in Nat : q = j - 1
    BY <1>0
  <1>b. PICK d \in 0..(Cell - 1) : d = i - 1
    BY <1>0
  <1>1. Cell * q \in Nat /\ Cell * n \in Nat /\ Cell * q + Cell <= Cell * n
    <2>1. q < n
      BY <1>a
    <2> QED BY <1>0, <2>1, Products
  <1>2. k \in 1..(Cell * n) /\ k - 1 = Cell * q + d
    <2>1. PICK x, y : x = Cell * q /\ y = Cell * n
      OBVIOUS
    <2>2. x \in Nat /\ y \in Nat /\ x + Cell <= y /\ k = x + i
      BY <1>1, <1>a, <2>1, Zenon
    <2>3. k \in 1..y /\ k - 1 = x + d
      BY <1>0, <1>b, <2>2
    <2> QED BY <2>1, <2>3, Zenon
  <1>c. PICK u : u = k - 1
    OBVIOUS
  <1>3. u \div Cell = q /\ u % Cell = d
    <2>1. u = Cell * q + d
      BY <1>2, <1>c, Zenon
    <2> QED BY <1>0, <2>1, DivIs, ZenonT(40), SMTT(20), SMTT(30)
  <1>4. q + 1 = j /\ d + 1 = i
    BY <1>0, <1>a, <1>b
  <1>5. WordBytes(w)[k] = <<"word", w[(u \div Cell) + 1], (u % Cell) + 1>>
    <2>1. WordBytes(w) = [x \in 1..(Cell * n) |-> <<"word", w[((x - 1) \div Cell) + 1], ((x - 1) % Cell) + 1>>]
      BY Zenon DEF WordBytes
    <2>2. WordBytes(w)[k] = <<"word", w[((k - 1) \div Cell) + 1], ((k - 1) % Cell) + 1>>
      BY <1>2, <2>1, Zenon
    <2> QED BY <1>c, <2>2, Zenon
  <1> QED BY <1>2, <1>3, <1>4, <1>5, Zenon DEF WordByteIs

WordsShown(size, mem, new, stack, w, n) ==
    /\ \A j \in 1..n : WordIn(new, stack + Cell * (j - 1), w[j])
    /\ \A x \in 0..(size - 1) : ~(stack <= x /\ x < stack + Cell * n) => new[x] = mem[x]

(* The words are in memory, one after the other, from stack on.            *)
LEMMA WordsWritten ==
    ASSUME NEW size \in Nat, NEW w, NEW n \in Nat, n = Len(w), NEW stack \in Nat, stack + Cell * n <= size,
           NEW mem, NEW new, new = Over(size, mem, stack, WordBytes(w))
    PROVE  WordsShown(size, mem, new, stack, w, n)
  <1>0. Cell \in Nat \ {0}
    BY Sizes
  <1>a. PICK b : b = WordBytes(w)
    OBVIOUS
  <1>b. PICK m : m = Cell * n
    OBVIOUS
  <1>1. m \in Nat /\ Len(b) = m
    <2>1. m \in Nat
      BY <1>0, <1>b, Products
    <2>2. b = [k \in 1..m |-> <<"word", w[((k - 1) \div Cell) + 1], ((k - 1) % Cell) + 1>>]
      BY <1>a, <1>b, Zenon DEF WordBytes
    <2>3. Len(b) = m
      BY <2>1, <2>2
    <2> QED BY <2>1, <2>3
  <1>2. \A x \in 0..(size - 1) : new[x] = IF stack <= x /\ x < stack + m THEN b[x - stack + 1] ELSE mem[x]
    BY <1>1, <1>a, Zenon DEF Over
  <1>3. ASSUME NEW j \in 1..n PROVE WordIn(new, stack + Cell * (j - 1), w[j])
    <2> SUFFICES ASSUME NEW i \in 1..Cell PROVE new[stack + Cell * (j - 1) + i - 1] = <<"word", w[j], i>>
      BY Zenon DEF WordIn
    <2>1. PICK k : k = Cell * (j - 1) + i
      OBVIOUS
    <2>2. k \in 1..m /\ b[k] = <<"word", w[j], i>>
      <3>1. WordByteIs(w, n, j, i, k)
        BY <2>1, WordByte, Zenon
      <3> QED BY <1>a, <1>b, <3>1, Zenon DEF WordByteIs
    <2>3. PICK x : x = stack + Cell * (j - 1) + i - 1
      OBVIOUS
    <2>4. x = stack + (k - 1)
      <3>1. PICK y : y = Cell * (j - 1)
        OBVIOUS
      <3>2. y \in Nat
        BY <1>0, <3>1, Products
      <3>3. x = stack + y + i - 1 /\ k = y + i
        BY <2>1, <2>3, <3>1, Zenon
      <3> QED BY <1>0, <3>2, <3>3
    <2>5. x \in 0..(size - 1) /\ stack <= x /\ x < stack + m /\ x - stack + 1 = k
      BY <1>1, <1>b, <2>2, <2>4
    <2> QED BY <1>2, <2>2, <2>3, <2>5, Zenon
  <1> QED BY <1>2, <1>3, <1>b, Zenon DEF WordsShown

(* w is t behind s.                                                        *)
Follows(S, s, t, m, n, w) ==
    /\ w \in Seq(S) /\ Len(w) = m + n
    /\ (\A i \in 1..m : w[i] = s[i]) /\ (\A i \in 1..n : w[m + i] = t[i])

(* The length of two sequences, one behind the other.                      *)
LEMMA JoinedLength ==
    ASSUME NEW S, NEW s \in Seq(S), NEW t \in Seq(S)
    PROVE  Len(s \o t) = Len(s) + Len(t)
  OBVIOUS

(* Putting one sequence behind another.                                    *)
LEMMA Behind ==
    ASSUME NEW S, NEW s \in Seq(S), NEW t \in Seq(S), NEW m, NEW n, Len(s) = m, Len(t) = n, NEW w, w = s \o t
    PROVE  Follows(S, s, t, m, n, w)
  <1>1. /\ m \in Nat /\ n \in Nat /\ w \in Seq(S) /\ Len(w) = m + n
        /\ \A i \in 1..(m + n) : w[i] = IF i <= m THEN s[i] ELSE t[i - m]
    <2>1. m \in Nat /\ n \in Nat /\ w \in Seq(S) /\ Len(w) = m + n
      <3>1. s \o t \in Seq(S)
        OBVIOUS
      <3>2. Len(s \o t) = Len(s) + Len(t)
        BY JoinedLength, Zenon
      <3>3. Len(s) \in Nat /\ Len(t) \in Nat
        OBVIOUS
      <3> QED BY <3>1, <3>2, <3>3, Zenon
    <2>2. ASSUME NEW i \in 1..(m + n) PROVE w[i] = IF i <= m THEN s[i] ELSE t[i - m]
      <3>1. CASE i <= m
        BY <3>1
      <3>2. CASE ~(i <= m)
        BY <3>2
      <3> QED BY <3>1, <3>2
    <2> QED BY <2>1, <2>2
  <1>2. \A i \in 1..m : i \in 1..(m + n) /\ i <= m
    BY <1>1
  <1>3. \A i \in 1..n : m + i \in 1..(m + n) /\ ~(m + i <= m) /\ (m + i) - m = i
    BY <1>1
  <1>4. \A i \in 1..m : w[i] = s[i]
    BY <1>1, <1>2, Zenon
  <1>5. ASSUME NEW i \in 1..n PROVE w[m + i] = t[i]
    <2>1. PICK k : k = m + i
      OBVIOUS
    <2>2. k \in 1..(m + n) /\ ~(k <= m) /\ k - m = i
      BY <1>3, <2>1, Zenon
    <2>3. w[k] = t[i]
      BY <1>1, <2>2, Zenon
    <2> QED BY <2>1, <2>3, Zenon
  <1> QED BY <1>1, <1>4, <1>5, Zenon DEF Follows

(* The words: the count, the pointers p and q, each closed by zero, and    *)
(* the auxiliary vector with two zeros.                                    *)
WordsAre(w, na, ne, nx, count, p, q, aux) ==
    /\ Len(w) = na + ne + nx + 5 /\ w[1] = count
    /\ \A i \in 1..na : w[1 + i] = p[i]
    /\ w[na + 2] = 0
    /\ \A i \in 1..ne : w[na + 2 + i] = q[i]
    /\ w[na + ne + 3] = 0
    /\ \A i \in 1..nx : w[na + ne + 3 + i] = aux[i]
    /\ w[na + ne + nx + 4] = 0 /\ w[na + ne + nx + 5] = 0

StackWords(count, p, q, aux) == <<count>> \o p \o <<0>> \o q \o <<0>> \o aux \o <<0, 0>>
IsVector(aux, nx) == aux = [i \in 1..nx |-> aux[i]]

(* Where the words are in the sequence the loader builds.                  *)
LEMMA WordsJoined ==
    ASSUME NEW na \in Nat, NEW ne \in Nat, NEW nx \in Nat, NEW count \in Nat,
           NEW p \in Seq(Nat), Len(p) = na, NEW q \in Seq(Nat), Len(q) = ne,
           NEW aux, IsVector(aux, nx),
           NEW w, w = StackWords(count, p, q, aux)
    PROVE  WordsAre(w, na, ne, nx, count, p, q, aux)
  <1>0. PICK S : S = Nat \cup {aux[i] : i \in 1..nx}
    BY ZenonT(40), SMTT(20), SMTT(30)
  <1>1. p \in Seq(S) /\ q \in Seq(S)
    <2>1. p \in [1..na -> Nat] /\ q \in [1..ne -> Nat]
      OBVIOUS
    <2>2. p \in [1..na -> S] /\ q \in [1..ne -> S]
      BY <1>0, <2>1
    <2> QED BY <2>2
  <1>2. aux \in Seq(S) /\ Len(aux) = nx
    <2>1. aux \in [1..nx -> S]
      BY <1>0, Zenon DEF IsVector
    <2> QED BY <2>1
  <1>3. PICK z, zz, c : z = <<0>> /\ zz = <<0, 0>> /\ c = <<count>>
    BY ZenonT(40), SMTT(20), SMTT(30)
  <1>4. /\ c \in Seq(S) /\ Len(c) = 1 /\ c[1] = count /\ z \in Seq(S) /\ Len(z) = 1 /\ z[1] = 0
        /\ zz \in Seq(S) /\ Len(zz) = 2 /\ zz[1] = 0 /\ zz[2] = 0
    <2>1. 0 \in S /\ count \in S
      BY <1>0
    <2> QED BY <1>3, <2>1
  <1>a. PICK a1 : a1 = c \o p
    BY ZenonT(40), SMTT(20), SMTT(30)
  <1>b. PICK a2 : a2 = a1 \o z
    BY ZenonT(40), SMTT(20), SMTT(30)
  <1>c. PICK a3 : a3 = a2 \o q
    BY ZenonT(40), SMTT(20), SMTT(30)
  <1>d. PICK a4 : a4 = a3 \o z
    BY ZenonT(40), SMTT(20), SMTT(30)
  <1>e. PICK a5 : a5 = a4 \o aux
    BY ZenonT(40), SMTT(20), SMTT(30)
  <1>f. w = a5 \o zz
    BY <1>3, <1>a, <1>b, <1>c, <1>d, <1>e, Zenon DEF StackWords
  <1>5. /\ a1 \in Seq(S) /\ Len(a1) = 1 + na /\ a1[1] = count /\ \A i \in 1..na : a1[1 + i] = p[i]
    <2>1. /\ a1 \in Seq(S) /\ Len(a1) = 1 + na /\ (\A i \in 1..1 : a1[i] = c[i]) /\ \A i \in 1..na : a1[1 + i] = p[i]
      <3>1. Follows(S, c, p, 1, na, a1)
        BY <1>1, <1>2, <1>4, <1>a, Behind, Zenon
      <3> QED BY <3>1, Zenon DEF Follows
    <2>2. 1 \in 1..1
      OBVIOUS
    <2> QED BY <1>4, <2>1, <2>2, Zenon
  <1>6. /\ a2 \in Seq(S) /\ Len(a2) = na + 2 /\ (\A i \in 1..(1 + na) : a2[i] = a1[i]) /\ a2[na + 2] = 0
    <2>1. /\ a2 \in Seq(S) /\ Len(a2) = (1 + na) + 1 /\ (\A i \in 1..(1 + na) : a2[i] = a1[i])
          /\ \A i \in 1..1 : a2[(1 + na) + i] = z[i]
      <3>1. Follows(S, a1, z, 1 + na, 1, a2)
        BY <1>4, <1>5, <1>b, Behind, Zenon
      <3> QED BY <3>1, Zenon DEF Follows
    <2>2. 1 \in 1..1 /\ (1 + na) + 1 = na + 2
      OBVIOUS
    <2> QED BY <1>4, <2>1, <2>2, Zenon
  <1>7. /\ a3 \in Seq(S) /\ Len(a3) = na + 2 + ne /\ (\A i \in 1..(na + 2) : a3[i] = a2[i])
        /\ \A i \in 1..ne : a3[na + 2 + i] = q[i]
    <2>1. Follows(S, a2, q, na + 2, ne, a3)
      BY <1>1, <1>6, <1>c, Behind, Zenon
    <2> QED BY <2>1, Zenon DEF Follows
  <1>8. /\ a4 \in Seq(S) /\ Len(a4) = na + ne + 3 /\ (\A i \in 1..(na + 2 + ne) : a4[i] = a3[i]) /\ a4[na + ne + 3] = 0
    <2>1. /\ a4 \in Seq(S) /\ Len(a4) = (na + 2 + ne) + 1 /\ (\A i \in 1..(na + 2 + ne) : a4[i] = a3[i])
          /\ \A i \in 1..1 : a4[(na + 2 + ne) + i] = z[i]
      <3>1. Follows(S, a3, z, na + 2 + ne, 1, a4)
        BY <1>4, <1>7, <1>d, Behind, Zenon
      <3> QED BY <3>1, Zenon DEF Follows
    <2>2. 1 \in 1..1 /\ (na + 2 + ne) + 1 = na + ne + 3
      OBVIOUS
    <2> QED BY <1>4, <2>1, <2>2, Zenon
  <1>9. /\ a5 \in Seq(S) /\ Len(a5) = na + ne + 3 + nx /\ (\A i \in 1..(na + ne + 3) : a5[i] = a4[i])
        /\ \A i \in 1..nx : a5[na + ne + 3 + i] = aux[i]
    <2>1. Follows(S, a4, aux, na + ne + 3, nx, a5)
      BY <1>2, <1>8, <1>e, Behind, Zenon
    <2> QED BY <2>1, Zenon DEF Follows
  <1>10. /\ Len(w) = na + ne + nx + 5 /\ (\A i \in 1..(na + ne + 3 + nx) : w[i] = a5[i])
         /\ w[na + ne + nx + 4] = 0 /\ w[na + ne + nx + 5] = 0
    <2>1. /\ Len(w) = (na + ne + 3 + nx) + 2 /\ (\A i \in 1..(na + ne + 3 + nx) : w[i] = a5[i])
          /\ \A i \in 1..2 : w[(na + ne + 3 + nx) + i] = zz[i]
      <3>1. Follows(S, a5, zz, na + ne + 3 + nx, 2, w)
        BY <1>4, <1>9, <1>f, Behind, Zenon
      <3> QED BY <3>1, Zenon DEF Follows
    <2>2. /\ 1 \in 1..2 /\ 2 \in 1..2 /\ (na + ne + 3 + nx) + 2 = na + ne + nx + 5
          /\ (na + ne + 3 + nx) + 1 = na + ne + nx + 4
      OBVIOUS
    <2> QED BY <1>4, <2>1, <2>2, Zenon
  <1>11. \A i \in 1..(na + ne + 3) : w[i] = a4[i]
    <2>1. \A i \in 1..(na + ne + 3) : i \in 1..(na + ne + 3 + nx)
      OBVIOUS
    <2> QED BY <1>9, <1>10, <2>1, Zenon
  <1>12. \A i \in 1..(na + 2 + ne) : w[i] = a3[i]
    <2>1. \A i \in 1..(na + 2 + ne) : i \in 1..(na + ne + 3)
      OBVIOUS
    <2> QED BY <1>8, <1>11, <2>1, Zenon
  <1>13. \A i \in 1..(na + 2) : w[i] = a2[i]
    <2>1. \A i \in 1..(na + 2) : i \in 1..(na + 2 + ne)
      OBVIOUS
    <2> QED BY <1>7, <1>12, <2>1, Zenon
  <1>14. \A i \in 1..(1 + na) : w[i] = a1[i]
    <2>1. \A i \in 1..(1 + na) : i \in 1..(na + 2)
      OBVIOUS
    <2> QED BY <1>6, <1>13, <2>1, Zenon
  <1>15. w[1] = count /\ \A i \in 1..na : w[1 + i] = p[i]
    <2>1. 1 \in 1..(1 + na) /\ \A i \in 1..na : 1 + i \in 1..(1 + na)
      OBVIOUS
    <2> QED BY <1>5, <1>14, <2>1, Zenon
  <1>16. w[na + 2] = 0 /\ \A i \in 1..ne : w[na + 2 + i] = q[i]
    <2>1. na + 2 \in 1..(na + 2) /\ \A i \in 1..ne : na + 2 + i \in 1..(na + 2 + ne)
      OBVIOUS
    <2> QED BY <1>6, <1>7, <1>12, <1>13, <2>1, Zenon
  <1>17. w[na + ne + 3] = 0 /\ \A i \in 1..nx : w[na + ne + 3 + i] = aux[i]
    <2>1. na + ne + 3 \in 1..(na + ne + 3) /\ \A i \in 1..nx : na + ne + 3 + i \in 1..(na + ne + 3 + nx)
      OBVIOUS
    <2> QED BY <1>8, <1>9, <1>10, <1>11, <2>1, Zenon
  <1> QED BY <1>10, <1>15, <1>16, <1>17, Zenon DEF WordsAre

-----------------------------------------------------------------------------
(* The initial stack.                                                      *)

AuxOf(auxv, first) ==
    [i \in 1..(2 * Len(auxv)) |->
        LET entry == auxv[(i + 1) \div 2]
        IN  IF i % 2 = 1 THEN entry[1] ELSE IF entry[1] = 31 THEN first ELSE entry[2]]

(* The steps of pushInitialStack with the outcome r.                       *)
StackRun(sp, top, argv, envp, auxv, A, E, w, r) ==
    /\ A = pushStrings(sp, top, argv) /\ A.sp.ok
    /\ E = pushStrings(A.sp, A.low, envp) /\ E.sp.ok
    /\ w = StackWords(Len(argv), A.ptrs, E.ptrs, AuxOf(auxv, A.ptrs[1]))
    /\ r.stack = (AlignDown(E.low, Align) + Word - Cell * Len(w)) % Word
    /\ r.sp = WriteBytes(E.sp, r.stack, WordBytes(w))

(* A stack that is no error comes from these steps.                        *)
LEMMA StackSteps ==
    ASSUME NEW sp, NEW top, NEW argv, NEW envp, NEW auxv,
           NEW r, r = pushInitialStack(sp, top, argv, envp, auxv), r.sp # Failed
    PROVE  \E A, E, w : StackRun(sp, top, argv, envp, auxv, A, E, w, r)
  <1>1. PICK A : A = pushStrings(sp, top, argv)
    OBVIOUS
  <1>2. PICK E : E = pushStrings(A.sp, A.low, envp)
    OBVIOUS
  <1>3. PICK w : w = StackWords(Len(argv), A.ptrs, E.ptrs, AuxOf(auxv, A.ptrs[1]))
    OBVIOUS
  <1>4. PICK stack : stack = (AlignDown(E.low, Align) + Word - Cell * Len(w)) % Word
    OBVIOUS
  <1>5. PICK written : written = WriteBytes(E.sp, stack, WordBytes(w))
    OBVIOUS
  <1>6. r = IF ~A.sp.ok \/ ~E.sp.ok THEN [sp |-> Failed] ELSE [stack |-> stack, sp |-> written]
    BY <1>1, <1>2, <1>3, <1>4, <1>5, Zenon DEF pushInitialStack, StackWords, AuxOf
  <1>7. r # [sp |-> Failed]
    <2>1. [sp |-> Failed].sp = Failed
      BY Zenon
    <2> QED BY <2>1, Zenon
  <1>8. A.sp.ok /\ E.sp.ok /\ r = [stack |-> stack, sp |-> written]
    BY <1>6, <1>7, Zenon
  <1>9. r.stack = stack /\ r.sp = written
    BY <1>8, SMT
  <1> QED BY <1>1, <1>2, <1>3, <1>4, <1>5, <1>8, <1>9, Zenon DEF StackRun

(* The stack has room above floor for the strings and the words.           *)
RoomAbove(floor, top, a, e, words) == floor + a + e + Align + Cell * words <= top

(* The address of the words.                                               *)
LEMMA StackAddress ==
    ASSUME NEW low \in Nat, low <= Word - 1, NEW n \in Nat, NEW floor \in Nat, floor + Align + Cell * n <= low,
           NEW stack, stack = (AlignDown(low, Align) + Word - Cell * n) % Word
    PROVE  /\ stack \in Nat /\ floor <= stack /\ stack + Cell * n <= low /\ Multiple(stack, Cell)
           /\ stack <= AlignDown(low, Align)
  <1>0. Word \in Nat \ {0} /\ Align \in Nat \ {0} /\ Cell \in Nat \ {0} /\ Multiple(Align, Cell)
    BY Sizes
  <1>a. PICK c : c = Cell * n
    OBVIOUS
  <1>b. PICK d : d = AlignDown(low, Align)
    OBVIOUS
  <1>1. c \in Nat
    BY <1>0, <1>a, Products
  <1>2. d \in Nat /\ d <= low /\ low < d + Align /\ Multiple(d, Align)
    BY <1>0, <1>b, AlignedDown, Zenon
  <1>c. PICK t, u : t = d - c /\ u = d + Word - c
    OBVIOUS
  <1>d. floor + Align + c <= low
    BY <1>a, Zenon
  <1>3. t \in 0..(Word - 1) /\ u = Word * 1 + t /\ 1 \in Nat /\ floor <= t /\ t + c = d /\ t \in Nat /\ c <= d
    BY <1>0, <1>1, <1>2, <1>c, <1>d
  <1>4. u % Word = t
    BY <1>0, <1>3, DivIs, Zenon
  <1>5. stack = u % Word
    BY <1>a, <1>b, <1>c, Zenon
  <1>6. Multiple(t, Cell)
    <2>1. Multiple(d, Cell)
      BY <1>0, <1>2, MultiplesCarry
    <2>2. Multiple(c, Cell)
      BY <1>a, Zenon DEF Multiple
    <2> QED BY <1>0, <1>1, <1>2, <1>3, <1>c, <2>1, <2>2, MultiplesAdd, SMTT(20), SMTT(30)
  <1>7. t + c <= low /\ t <= d
    BY <1>1, <1>2, <1>3
  <1> QED BY <1>3, <1>4, <1>5, <1>6, <1>7, <1>a, <1>b, Zenon

(* The strings vs are in memory where the pointers lead.                   *)
Shown(mem, stack, top, ptrs, vs) ==
    \A j \in 1..Len(vs) : /\ ptrs[j] \in Nat /\ stack <= ptrs[j] /\ ptrs[j] + Len(vs[j]) < top
                          /\ StringIn(mem, ptrs[j], vs[j])

(* Pushed strings stay while only memory below or above them is written.   *)
LEMMA StringsStay ==
    ASSUME NEW size \in Nat, NEW sp, NEW top \in Nat, top <= size, NEW vs, IsStrings(vs),
           NEW s, Pushed(s, sp, size, top, vs, Len(vs), Len(vs), Bytes(vs)),
           NEW stack \in Nat, stack <= s.low, NEW end \in Nat, top <= end,
           NEW mem, \A x \in 0..(size - 1) : s.low <= x /\ x < top => mem[x] = s.sp.mem[x]
    PROVE  Shown(mem, stack, end, s.ptrs, vs)
  <1>a. PICK n \in Nat : n = Len(vs)
    BY Zenon DEF IsStrings
  <1> SUFFICES ASSUME NEW j \in 1..n
               PROVE  /\ s.ptrs[j] \in Nat /\ stack <= s.ptrs[j] /\ s.ptrs[j] + Len(vs[j]) < end
                      /\ StringIn(mem, s.ptrs[j], vs[j])
    BY <1>a, Zenon DEF Shown
  <1>1. /\ s.low \in Nat /\ s.ptrs \in Seq(Nat) /\ Len(s.ptrs) = n
        /\ Kept(s, top, j, vs[n - n + j])
    BY <1>a, Zenon DEF Pushed
  <1>b. PICK low \in Nat : low = s.low
    BY <1>1
  <1>c. PICK q, v : q = s.ptrs[j] /\ v = vs[j]
    OBVIOUS
  <1>d. PICK len \in Nat : len = Len(v)
    BY <1>a, <1>c, Zenon DEF IsStrings
  <1>2. n - n + j = j
    OBVIOUS
  <1>3. q \in Nat
    BY <1>1, <1>c, SMTT(20), SMTT(30)
  <1>4. low <= q /\ q + len < top /\ StringIn(s.sp.mem, q, v)
    BY <1>1, <1>2, <1>b, <1>c, <1>d, Zenon DEF Kept
  <1>e. PICK old : old = s.sp.mem
    OBVIOUS
  <1>f. stack <= low
    BY <1>b, Zenon
  <1>5. stack <= q /\ q + len < end
    BY <1>3, <1>4, <1>f
  <1>6. \A x \in q..(q + len) : mem[x] = old[x]
    <2> SUFFICES ASSUME NEW x \in q..(q + len) PROVE mem[x] = old[x]
      BY Zenon
    <2>1. x \in 0..(size - 1) /\ low <= x /\ x < top
      BY <1>3, <1>4, SMTT(20), SMTT(30)
    <2> QED BY <1>b, <1>e, <2>1, Zenon
  <1>7. StringIn(mem, q, v)
    <2>1. StringIn(old, q, v)
      BY <1>4, <1>e, Zenon
    <2> QED BY <1>3, <1>6, <1>d, <2>1, StringStays, SMTT(20), SMTT(30)
  <1> QED BY <1>3, <1>5, <1>7, <1>c, <1>d, Zenon

(* What the stack shows: the words at stack, the strings above them, and   *)
(* the rest of the memory as it was.                                       *)
StackShows(sp, size, top, argv, envp, auxv, floor, p, q, w, r) ==
    /\ r.stack \in Nat /\ floor <= r.stack /\ r.stack < top /\ Multiple(r.stack, Cell)
    /\ IsSpace(r.sp, size) /\ r.sp.maps = sp.maps
    /\ WordsAre(w, Len(argv), Len(envp), 2 * Len(auxv), Len(argv), p, q, AuxOf(auxv, p[1]))
    /\ \A j \in 1..Len(w) : WordIn(r.sp.mem, r.stack + Cell * (j - 1), w[j])
    /\ Shown(r.sp.mem, r.stack, top, p, argv) /\ Shown(r.sp.mem, r.stack, top, q, envp)
    /\ \E d \in Nat : Multiple(d, Align) /\ r.stack <= d /\ Shown(r.sp.mem, d, top, p, argv)
    /\ \A x \in 0..(size - 1) : ~(r.stack <= x /\ x < top) => r.sp.mem[x] = sp.mem[x]

(* The initial stack holds what pushInitialStack is given.                 *)
LEMMA StackIs ==
    ASSUME NEW size \in Nat, size <= Word - 1, NEW sp, IsSpace(sp, size), NEW top \in Nat, top <= size,
           NEW argv, IsStrings(argv), NEW envp, IsStrings(envp), NEW auxv, Len(auxv) \in Nat, NEW floor \in Nat,
           RoomAbove(floor, top, Bytes(argv), Bytes(envp), Len(argv) + Len(envp) + 2 * Len(auxv) + 5),
           NEW r, r = pushInitialStack(sp, top, argv, envp, auxv), r.sp # Failed
    PROVE  \E p, q, w : StackShows(sp, size, top, argv, envp, auxv, floor, p, q, w, r)
  <1>1. PICK A, E, w : StackRun(sp, top, argv, envp, auxv, A, E, w, r)
    BY StackSteps, Zenon
  <1>2. /\ A = pushStrings(sp, top, argv) /\ A.sp.ok
        /\ E = pushStrings(A.sp, A.low, envp) /\ E.sp.ok
        /\ w = StackWords(Len(argv), A.ptrs, E.ptrs, AuxOf(auxv, A.ptrs[1]))
        /\ r.stack = (AlignDown(E.low, Align) + Word - Cell * Len(w)) % Word
        /\ r.sp = WriteBytes(E.sp, r.stack, WordBytes(w))
    BY <1>1, Zenon DEF StackRun
  <1>3. A.sp # Failed /\ E.sp # Failed
    BY <1>2, FailedStays, Zenon
  <1>4. Pushed(A, sp, size, top, argv, Len(argv), Len(argv), Bytes(argv))
    BY <1>2, <1>3, PushAll, Zenon
  <1>a. PICK na \in Nat, ne \in Nat, nx \in Nat : na = Len(argv) /\ ne = Len(envp) /\ nx = 2 * Len(auxv)
    <2>1. Len(argv) \in Nat /\ Len(envp) \in Nat
      BY Zenon DEF IsStrings
    <2>2. 2 * Len(auxv) \in Nat
      OBVIOUS
    <2> QED BY <2>1, <2>2, Zenon
  <1>5. /\ A.low \in Nat /\ Bytes(argv) \in Nat /\ A.low + Bytes(argv) = top
        /\ IsSpace(A.sp, size) /\ A.sp.maps = sp.maps /\ A.ptrs \in Seq(Nat) /\ Len(A.ptrs) = na
        /\ \A x \in 0..(size - 1) : ~(A.low <= x /\ x < top) => A.sp.mem[x] = sp.mem[x]
    BY <1>4, <1>a, Zenon DEF Pushed
  <1>6. A.low \in Nat /\ A.low <= size /\ A.low <= top
    BY <1>5
  <1>7. Pushed(E, A.sp, size, A.low, envp, Len(envp), Len(envp), Bytes(envp))
    BY <1>2, <1>3, <1>5, <1>6, PushAll, Zenon
  <1>8. /\ E.low \in Nat /\ Bytes(envp) \in Nat /\ E.low + Bytes(envp) = A.low
        /\ IsSpace(E.sp, size) /\ E.sp.maps = A.sp.maps /\ E.ptrs \in Seq(Nat) /\ Len(E.ptrs) = ne
        /\ \A x \in 0..(size - 1) : ~(E.low <= x /\ x < A.low) => E.sp.mem[x] = A.sp.mem[x]
    BY <1>7, <1>a, Zenon DEF Pushed
  <1>9. WordsAre(w, na, ne, nx, na, A.ptrs, E.ptrs, AuxOf(auxv, A.ptrs[1]))
    <2>1. PICK p, q, aux : p = A.ptrs /\ q = E.ptrs /\ aux = AuxOf(auxv, A.ptrs[1])
      OBVIOUS
    <2>2. IsVector(aux, nx)
      BY <1>a, <2>1, Zenon DEF IsVector, AuxOf
    <2>3. p \in Seq(Nat) /\ Len(p) = na /\ q \in Seq(Nat) /\ Len(q) = ne /\ w = StackWords(na, p, q, aux)
      BY <1>2, <1>5, <1>8, <1>a, <2>1, Zenon
    <2>4. WordsAre(w, na, ne, nx, na, p, q, aux)
      BY <2>2, <2>3, WordsJoined, Zenon
    <2> QED BY <2>1, <2>4, Zenon
  <1>b. PICK n : n = Len(w)
    BY ZenonT(40), SMTT(20), SMTT(30)
  <1>10. n \in Nat /\ n = na + ne + nx + 5
    <2>1. n = na + ne + nx + 5
      BY <1>9, <1>b, Zenon DEF WordsAre
    <2> QED BY <2>1
  <1>z. PICK c : c = Cell * n
    OBVIOUS
  <1>c. PICK low \in Nat, mid \in Nat : low = E.low /\ mid = A.low
    BY <1>5, <1>8, SMTT(20), SMTT(30)
  <1>d. PICK a \in Nat, e \in Nat : a = Bytes(argv) /\ e = Bytes(envp)
    BY <1>5, <1>8, SMTT(20), SMTT(30)
  <1>11. Cell \in Nat \ {0} /\ Align \in Nat \ {0} /\ Word \in Nat \ {0}
    BY Sizes
  <1>12. c \in Nat /\ c > 0
    <2>1. c \in Nat /\ Cell * 0 + Cell <= c /\ 0 < n
      BY <1>10, <1>11, <1>z, Products
    <2> QED BY <1>11, <2>1
  <1>13. floor + a + e + Align + c <= top /\ mid + a = top /\ low + e = mid
    BY <1>5, <1>8, <1>10, <1>a, <1>c, <1>d, <1>z, Zenon DEF RoomAbove
  <1>14. floor + Align + c <= low /\ low <= Word - 1 /\ low <= mid /\ mid <= top
    BY <1>11, <1>12, <1>13, SMTT(20), SMTT(30)
  <1>e. PICK stack : stack = r.stack
    OBVIOUS
  <1>g. PICK d : d = AlignDown(low, Align)
    OBVIOUS
  <1>h. d \in Nat /\ d <= low /\ Multiple(d, Align)
    BY <1>11, <1>g, AlignedDown, Zenon
  <1>15. stack \in Nat /\ floor <= stack /\ stack + c <= low /\ Multiple(stack, Cell) /\ stack <= d
    <2>1. stack = (AlignDown(low, Align) + Word - Cell * n) % Word /\ floor + Align + Cell * n <= low
      BY <1>2, <1>14, <1>b, <1>c, <1>e, <1>z, Zenon
    <2>2. /\ stack \in Nat /\ floor <= stack /\ stack + Cell * n <= low /\ Multiple(stack, Cell)
          /\ stack <= AlignDown(low, Align)
      BY <1>10, <1>14, <2>1, StackAddress, Zenon
    <2> QED BY <1>g, <1>z, <2>2, Zenon
  <1>16. stack < top
    BY <1>12, <1>14, <1>15
  <1>17. Wrote(E.sp, size, stack, WordBytes(w), r.sp)
    <2>1. Len(WordBytes(w)) \in Nat
      <3>1. WordBytes(w) = [k \in 1..c |-> <<"word", w[((k - 1) \div Cell) + 1], ((k - 1) % Cell) + 1>>]
        BY <1>b, <1>z, Zenon DEF WordBytes
      <3> QED BY <1>12, <3>1
    <2> QED BY <1>2, <1>8, <1>15, <1>e, <2>1, WriteIs, Zenon
  <1>f. PICK mem : mem = r.sp.mem
    OBVIOUS
  <1>18. /\ \A j \in 1..n : WordIn(mem, stack + Cell * (j - 1), w[j])
         /\ \A x \in 0..(size - 1) : ~(stack <= x /\ x < stack + c) => mem[x] = E.sp.mem[x]
    <2>1. PICK old : old = E.sp.mem
      OBVIOUS
    <2>2. mem = Over(size, old, stack, WordBytes(w)) /\ stack + Cell * n <= size
      <3>1. stack + c <= size
        BY <1>12, <1>14, <1>15
      <3> QED BY <1>17, <1>f, <1>z, <2>1, <3>1, Zenon DEF Wrote
    <2>3. /\ \A j \in 1..n : WordIn(mem, stack + Cell * (j - 1), w[j])
          /\ \A x \in 0..(size - 1) : ~(stack <= x /\ x < stack + Cell * n) => mem[x] = old[x]
      <3>1. n \in Nat /\ n = Len(w) /\ stack \in Nat
        BY <1>10, <1>15, <1>b, Zenon
      <3>2. WordsShown(size, old, mem, stack, w, n)
        BY <2>2, <3>1, WordsWritten, Zenon
      <3> QED BY <3>2, Zenon DEF WordsShown
    <2> QED BY <1>z, <2>1, <2>3, Zenon
  <1>19. Shown(mem, stack, top, E.ptrs, envp)
    <2>1. \A x \in 0..(size - 1) : low <= x /\ x < mid => mem[x] = E.sp.mem[x]
      <3> SUFFICES ASSUME NEW x \in 0..(size - 1), low <= x, x < mid PROVE mem[x] = E.sp.mem[x]
        BY Zenon
      <3>1. ~(stack <= x /\ x < stack + c)
        BY <1>12, <1>15, SMTT(20), SMTT(30)
      <3> QED BY <1>18, <3>1, Zenon
    <2>2. stack <= low /\ mid <= size
      BY <1>12, <1>14, <1>15, SMTT(20), SMTT(30)
    <2> QED BY <1>7, <1>14, <1>15, <1>c, <2>1, <2>2, StringsStay, Zenon
  <1>20. Shown(mem, stack, top, A.ptrs, argv) /\ Shown(mem, d, top, A.ptrs, argv)
    <2>1. \A x \in 0..(size - 1) : mid <= x /\ x < top => mem[x] = A.sp.mem[x]
      <3> SUFFICES ASSUME NEW x \in 0..(size - 1), mid <= x, x < top PROVE mem[x] = A.sp.mem[x]
        BY Zenon
      <3>1. ~(stack <= x /\ x < stack + c) /\ ~(low <= x /\ x < mid)
        BY <1>12, <1>14, <1>15, SMTT(20), SMTT(30)
      <3> QED BY <1>8, <1>18, <1>c, <3>1, Zenon
    <2>2. stack <= mid /\ top <= top /\ d <= mid
      BY <1>12, <1>14, <1>15, <1>h
    <2>3. Shown(mem, stack, top, A.ptrs, argv)
      BY <1>4, <1>15, <1>c, <2>1, <2>2, StringsStay, Zenon
    <2>4. Shown(mem, d, top, A.ptrs, argv)
      BY <1>4, <1>h, <1>c, <2>1, <2>2, StringsStay, Zenon
    <2> QED BY <2>3, <2>4
  <1>21. \A x \in 0..(size - 1) : ~(stack <= x /\ x < top) => mem[x] = sp.mem[x]
    <2> SUFFICES ASSUME NEW x \in 0..(size - 1), ~(stack <= x /\ x < top) PROVE mem[x] = sp.mem[x]
      BY Zenon
    <2>1. ~(stack <= x /\ x < stack + c) /\ ~(low <= x /\ x < mid) /\ ~(mid <= x /\ x < top)
      BY <1>12, <1>14, <1>15
    <2> QED BY <1>5, <1>8, <1>18, <1>c, <2>1, Zenon
  <1>22. IsSpace(r.sp, size) /\ r.sp.maps = sp.maps
    BY <1>5, <1>8, <1>17, Zenon DEF Wrote
  <1>23. StackShows(sp, size, top, argv, envp, auxv, floor, A.ptrs, E.ptrs, w, r)
    BY <1>9, <1>15, <1>16, <1>18, <1>19, <1>20, <1>21, <1>22, <1>a, <1>b, <1>e, <1>f, <1>h, Zenon DEF StackShows
  <1> QED BY <1>23, Zenon

-----------------------------------------------------------------------------
(* The size of the image.                                                  *)

(* A bounded set of naturals has a greatest member, and Max names it.      *)
LEMMA MaxIs ==
    ASSUME NEW b \in Nat, NEW S \in SUBSET (0..b), S # {}
    PROVE  Max(S) \in S /\ Max(S) \in Nat /\ \A x \in S : x <= Max(S)
  <1> DEFINE T == {k \in 0..b : b - k \in S}
  <1>1. T \in SUBSET Nat /\ T # {}
    <2>1. PICK x \in S : TRUE
      BY ZenonT(40), SMTT(20), SMTT(30)
    <2>2. x \in 0..b
      BY <2>1
    <2>3. b - x \in 0..b /\ b - (b - x) = x
      BY <2>2
    <2>4. b - x \in T
      BY <2>1, <2>3
    <2> QED BY <2>4
  <1>2. PICK m \in T : \A k \in T : m <= k
    <2> HIDE DEF T
    <2> QED BY <1>1, LeastOf, Zenon
  <1>3. b - m \in S /\ \A y \in S : b - m >= y
    <2>1. m \in 0..b /\ b - m \in S
      BY <1>2
    <2>2. ASSUME NEW y \in S PROVE b - m >= y
      <3>1. y \in 0..b
        OBVIOUS
      <3>2. b - y \in 0..b /\ b - (b - y) = y
        BY <3>1
      <3>3. b - y \in T
        BY <3>2, Zenon
      <3>4. m <= b - y
        BY <1>2, <3>3, Zenon
      <3> QED BY <2>1, <3>1, <3>4
    <2> QED BY <2>1, <2>2, Zenon
  <1> HIDE DEF T
  <1>4. Max(S) \in S /\ \A y \in S : Max(S) >= y
    BY <1>3, Zenon DEF Max
  <1>5. Max(S) \in 0..b /\ \A y \in S : y \in 0..b
    BY <1>4, Zenon
  <1>6. ASSUME NEW M \in 0..b, NEW x \in 0..b, M >= x PROVE x <= M
    BY <1>6
  <1>7. \A M \in 0..b : M \in Nat
    OBVIOUS
  <1> QED BY <1>4, <1>5, <1>6, <1>7, Zenon

(* A page boundary, or the last address.                                   *)
IsBound(x) == x \in 0..(Word - 1) /\ (x = Word - 1 \/ Multiple(x, Page))

(* The bounds of an image.                                                 *)
LEMMA BoundsAre ==
    ASSUME NEW e, IsProgram(e), validateELF(e), NEW base \in Nat, imageBounds(e, base).ok
    PROVE  IsBound(imageBounds(e, base).max)
  <1>0. Word \in Nat \ {0} /\ Page \in Nat \ {0}
    BY Sizes
  <1>1. PICK S : S = Ends(e, base, {})
    OBVIOUS
  <1>2. S \in SUBSET (0..(base + Word)) /\ S # {}
    <2>1. 0 \in S
      BY <1>1, Zenon DEF Ends
    <2>2. ASSUME NEW x \in S PROVE x \in 0..(base + Word)
      <3>1. CASE x = 0
        BY <1>0, <3>1
      <3>2. CASE \E i \in 1..Len(e.segs) : x = base + e.segs[i].vaddr + e.segs[i].memsz
        <4>1. PICK i \in 1..Len(e.segs) : x = base + e.segs[i].vaddr + e.segs[i].memsz
          BY <3>2
        <4>2. PICK v, m : v = e.segs[i].vaddr /\ m = e.segs[i].memsz
          BY ZenonT(40), SMTT(20), SMTT(30)
        <4>3. v \in Nat /\ m \in Nat
          BY <4>2, ProgramSegments, Zenon DEF IsSegment
        <4>4. v + m <= Word /\ x = base + v + m
          BY <4>1, <4>2, Zenon DEF validateELF
        <4> QED BY <1>0, <4>3, <4>4, SMTT(20), SMTT(30)
      <3> QED BY <1>1, <3>1, <3>2, Zenon DEF Ends
    <2> QED BY <2>1, <2>2, Zenon
  <1>3. PICK max : max = Max(S)
    OBVIOUS
  <1>4. base + Word \in Nat
    BY <1>0
  <1>5. max \in Nat
    BY <1>2, <1>3, <1>4, MaxIs, Zenon
  <1>6. PICK b, up : up = pageAlignUp(max % Word) /\ imageBounds(e, base) = IF max = 0 THEN Failed ELSE [ok |-> TRUE, max |-> up, brk |-> b]
    BY <1>1, <1>3, Zenon DEF imageBounds
  <1>7. imageBounds(e, base) # Failed
    BY FailedStays, Zenon
  <1>8. imageBounds(e, base).max = up
    <2>1. imageBounds(e, base) = [ok |-> TRUE, max |-> up, brk |-> b]
      BY <1>6, <1>7, Zenon
    <2> QED BY <2>1
  <1>9. max % Word \in 0..(Word - 1)
    BY <1>5, WordOf
  <1>10. /\ up \in Nat /\ up <= Word - 1
         /\ up = Word - 1 \/ Multiple(up, Page)
    <2>1. PICK v \in 0..(Word - 1) : v = max % Word
      BY <1>9
    <2>2. up = pageAlignUp(v)
      BY <1>6, <2>1, Zenon
    <2> QED BY <2>2, AlignedUp
  <1>11. up \in 0..(Word - 1)
    BY <1>0, <1>10
  <1> QED BY <1>8, <1>10, <1>11, Zenon DEF IsBound

(* The size of the address space is a number of whole pages, unless it is  *)
(* refused.                                                                *)
LEMMA SizeIs ==
    ASSUME NEW a, IsBound(a), NEW b, IsBound(b), NEW size, size = SizeFor(Max({a, b})), ~(size > Word - 1)
    PROVE  size \in Nat /\ size <= Word - 1 /\ Multiple(size, Page) /\ DefaultMemory <= size
  <1>0. /\ {Page, Word, DefaultMemory, StackReserve} \subseteq Nat \ {0}
        /\ Multiple(DefaultMemory, Page) /\ Multiple(StackReserve, Page)
        /\ Page < StackReserve /\ StackReserve < DefaultMemory /\ DefaultMemory < Word
    BY Sizes
  <1>1. PICK S : S = {a, b}
    OBVIOUS
  <1>2. S \in SUBSET (0..(Word - 1)) /\ S # {} /\ Word - 1 \in Nat
    BY <1>0, <1>1 DEF IsBound
  <1>3. PICK max : max = Max(S)
    OBVIOUS
  <1>4. max \in S /\ max \in Nat
    BY <1>2, <1>3, MaxIs, Zenon
  <1>5. max = Word - 1 \/ Multiple(max, Page)
    <2>1. max = a \/ max = b
      BY <1>1, <1>4
    <2>2. (a = Word - 1 \/ Multiple(a, Page)) /\ (b = Word - 1 \/ Multiple(b, Page))
      BY Zenon DEF IsBound
    <2>3. CASE max = a
      BY <2>2, <2>3
    <2>4. CASE max = b
      BY <2>2, <2>4
    <2> QED BY <2>1, <2>3, <2>4
  <1>6. size = IF max + StackReserve + Page > DefaultMemory THEN max + StackReserve + Page ELSE DefaultMemory
    BY <1>1, <1>3, Zenon DEF SizeFor
  <1>7. size \in Nat /\ size <= Word - 1 /\ DefaultMemory <= size
    BY <1>0, <1>4, <1>6
  <1>8. Multiple(size, Page)
    <2>1. CASE size = DefaultMemory
      BY <1>0, <2>1, Zenon
    <2>2. CASE size = max + StackReserve + Page
      <3>1. max # Word - 1
        BY <1>0, <1>7, <2>2
      <3>2. Multiple(max, Page)
        BY <1>5, <3>1, Zenon
      <3>3. Multiple(max + StackReserve, Page)
        BY <1>0, <1>4, <3>2, MultiplesAdd
      <3>4. Multiple(Page, Page)
        <4>1. Page = Page * 1 /\ 1 \in Nat
          BY <1>0
        <4> QED BY <4>1, Zenon DEF Multiple
      <3>5. max + StackReserve \in Nat
        BY <1>0, <1>4
      <3>6. PICK y : y = max + StackReserve
        OBVIOUS
      <3>7. Multiple(y + Page, Page)
        BY <1>0, <3>3, <3>4, <3>5, <3>6, MultiplesAdd, ZenonT(40), SMTT(20), SMTT(30)
      <3> QED BY <2>2, <3>6, <3>7, Zenon
    <2> QED BY <1>6, <2>1, <2>2, Zenon
  <1> QED BY <1>7, <1>8

-----------------------------------------------------------------------------
(* The whole loader.                                                       *)

RandomBytes == [i \in 1..Align |-> Byte("random")]
AuxvOf(e, dynamic, at) ==
    << <<3, e.phdr>>, <<9, e.entry>>, <<25, at>>, <<31, 0>> >> \o (IF dynamic THEN << <<7, InterpBase>> >> ELSE <<>>)
ArgsOf(argv) == IF argv = <<>> THEN << <<"ish-go">> >> ELSE argv
SecondOf(e, interp) == IF e.interp # NoName THEN imageBounds(interp, InterpBase) ELSE imageBounds(e, 0)

(* What the loader accepts.                                                *)
Accepted(e, interp, size) ==
    /\ validateELF(e) /\ (e.interp # NoName => interp.ok /\ validateELF(interp))
    /\ imageBounds(e, 0).ok /\ SecondOf(e, interp).ok
    /\ size = SizeFor(Max({imageBounds(e, 0).max, SecondOf(e, interp).max})) /\ ~(size > Word - 1)

(* The outcome of the loader: the stack in the space of the two images.    *)
LoadRun(e, argv, envp, interp, size, loaded, pushed, img) ==
    /\ loaded = LoadImages(e, interp, size)
    /\ pushed = LoadStack(loaded, e, argv, envp) /\ pushed.sp.ok
    /\ img.ok = TRUE /\ img.size = size /\ img.maps = pushed.sp.maps /\ img.mem = pushed.sp.mem /\ img.stack = pushed.stack

(* An image that is no error comes from these steps.                       *)
LEMMA LoadSteps ==
    ASSUME NEW e, NEW argv, NEW envp, NEW interp, NEW img, img = LoadWithEnvResolver(e, argv, envp, interp), img.ok
    PROVE  \E size, loaded, pushed :
               Accepted(e, interp, size) /\ LoadRun(e, argv, envp, interp, size, loaded, pushed, img)
  <1>1. PICK second : second = SecondOf(e, interp)
    OBVIOUS
  <1>2. PICK max : max = Max({imageBounds(e, 0).max, second.max})
    OBVIOUS
  <1>3. PICK size : size = SizeFor(max)
    OBVIOUS
  <1>4. PICK loaded : loaded = LoadImages(e, interp, size)
    OBVIOUS
  <1>5. PICK pushed : pushed = LoadStack(loaded, e, argv, envp)
    OBVIOUS
  <1>6. PICK start : start = IF e.interp # NoName THEN InterpBase + interp.entry ELSE e.entry
    OBVIOUS
  <1>7. PICK brk : brk = imageBounds(e, 0).brk
    OBVIOUS
  <1>8. PICK made : made = [ok |-> TRUE, size |-> size, maps |-> pushed.sp.maps, mem |-> pushed.sp.mem,
                            start |-> start, stack |-> pushed.stack, brk |-> brk]
    BY ZenonT(40), SMTT(20), SMTT(30)
  <1>9. img = IF ~validateELF(e) THEN Failed
              ELSE IF e.interp # NoName /\ (~interp.ok \/ ~validateELF(interp)) THEN Failed
              ELSE IF ~imageBounds(e, 0).ok \/ ~second.ok THEN Failed
              ELSE IF max = 0 \/ size > Word - 1 THEN Failed
              ELSE IF ~pushed.sp.ok THEN Failed
              ELSE made
    BY <1>1, <1>2, <1>3, <1>4, <1>5, <1>6, <1>7, <1>8, ZenonT(40) DEF LoadWithEnvResolver, SecondOf
  <1>10. img # Failed
    BY FailedStays, Zenon
  <1>11. /\ validateELF(e) /\ (e.interp # NoName => interp.ok /\ validateELF(interp))
         /\ imageBounds(e, 0).ok /\ second.ok /\ ~(size > Word - 1) /\ pushed.sp.ok /\ img = made
    BY <1>9, <1>10, Zenon
  <1>12. /\ img.ok = TRUE /\ img.size = size /\ img.maps = pushed.sp.maps /\ img.mem = pushed.sp.mem
         /\ img.stack = pushed.stack
    BY <1>8, <1>11
  <1>13. Accepted(e, interp, size)
    BY <1>1, <1>2, <1>3, <1>11, Zenon DEF Accepted
  <1>14. LoadRun(e, argv, envp, interp, size, loaded, pushed, img)
    BY <1>4, <1>5, <1>11, <1>12, Zenon DEF LoadRun
  <1> QED BY <1>13, <1>14, Zenon

(* The steps that fill the stack of a space of the given size.             *)
FillRun(sp, size, e, argv, envp, mapped, top, random, pushed) ==
    /\ mapped = Add(sp, size - StackReserve, StackReserve - Page, {"r", "w"}, StackName)
    /\ top = AlignDown(size - Page, Align)
    /\ random = WriteBytes(mapped, top - Align, RandomBytes) /\ random # Failed
    /\ pushed = pushInitialStack(random, top, ArgsOf(argv), envp, AuxvOf(e, e.interp # NoName, top - Align))

(* A stack that is no error comes from these steps.                        *)
LEMMA FillSteps ==
    ASSUME NEW sp, NEW e, NEW argv, NEW envp, NEW pushed, pushed = LoadStack(sp, e, argv, envp), pushed.sp.ok
    PROVE  sp.ok /\ \E mapped, top, random : FillRun(sp, sp.size, e, argv, envp, mapped, top, random, pushed)
  <1>1. PICK size : size = sp.size
    OBVIOUS
  <1>2. PICK mapped : mapped = Add(sp, size - StackReserve, StackReserve - Page, {"r", "w"}, StackName)
    OBVIOUS
  <1>3. PICK top : top = AlignDown(size - Page, Align)
    OBVIOUS
  <1>4. PICK random : random = WriteBytes(mapped, top - Align, RandomBytes)
    OBVIOUS
  <1>5. PICK args : args = ArgsOf(argv)
    OBVIOUS
  <1>6. PICK auxv : auxv = AuxvOf(e, e.interp # NoName, top - Align)
    OBVIOUS
  <1>7. pushed = IF sp.ok /\ random.ok THEN pushInitialStack(random, top, args, envp, auxv) ELSE [sp |-> Failed]
    BY <1>1, <1>2, <1>3, <1>4, <1>5, <1>6, ZenonT(40) DEF LoadStack, RandomBytes, ArgsOf, AuxvOf
  <1>8. pushed # [sp |-> Failed]
    <2>1. [sp |-> Failed].sp = Failed
      BY Zenon
    <2> QED BY <2>1, FailedStays, Zenon
  <1>9. sp.ok /\ random.ok /\ pushed = pushInitialStack(random, top, args, envp, auxv)
    BY <1>7, <1>8, Zenon
  <1>10. random # Failed
    BY <1>9, FailedStays, Zenon
  <1>11. FillRun(sp, size, e, argv, envp, mapped, top, random, pushed)
    BY <1>2, <1>3, <1>4, <1>5, <1>6, <1>9, <1>10, Zenon DEF FillRun
  <1> QED BY <1>1, <1>9, <1>11, Zenon

-----------------------------------------------------------------------------
(* The stack in the space of the images.                                   *)

(* The strings and the vectors leave room in the stack.                    *)
Enough(args, envp) ==
    Bytes(args) + Bytes(envp) + Align + Cell * (Len(args) + Len(envp) + 15) <= StackReserve - Page

StackMapping(size) ==
    [start |-> size - StackReserve, end |-> size - Page, prot |-> {"r", "w"}, name |-> StackName]
InReserve(size, a) == size - StackReserve <= a /\ a < size - Page

(* What the image shows of its stack, the mappings and the memory.         *)
Stacked(sp, size, args, envp, auxv, p, q, w, img) ==
    /\ img.size = size /\ img.stack \in Nat /\ InReserve(size, img.stack) /\ Multiple(img.stack, Cell)
    /\ WordsAre(w, Len(args), Len(envp), 2 * Len(auxv), Len(args), p, q, AuxOf(auxv, p[1]))
    /\ \A j \in 1..Len(w) : WordIn(img.mem, img.stack + Cell * (j - 1), w[j])
    /\ Shown(img.mem, img.stack, size - Page, p, args) /\ Shown(img.mem, img.stack, size - Page, q, envp)
    /\ \E d \in Nat : Multiple(d, Align) /\ img.stack <= d /\ Shown(img.mem, d, size - Page, p, args)
    /\ DOMAIN img.mem = 0..(size - 1)
    /\ \A x \in 0..(size - 1) : ~InReserve(size, x) => img.mem[x] = sp.mem[x]
    /\ img.maps = sp.maps \cup {StackMapping(size)}
    /\ \A m \in sp.maps : ~Overlaps(m, size - StackReserve, size - Page)

(* The sizes of the stack in a space of whole pages.                       *)
LEMMA StackSizes ==
    ASSUME NEW size \in Nat, Multiple(size, Page), DefaultMemory <= size
    PROVE  /\ size - StackReserve \in Nat /\ size - Page \in Nat /\ StackReserve - Page \in Nat
           /\ (size - StackReserve) + (StackReserve - Page) = size - Page
           /\ Multiple(size - Page, Align) /\ AlignDown(size - Page, Align) = size - Page
           /\ (size - Page) - Align \in Nat /\ size - StackReserve <= (size - Page) - Align
           /\ ((size - Page) - Align) + Align = size - Page /\ size - Page < size
  <1>1. /\ Page \in Nat \ {0} /\ Align \in Nat \ {0} /\ StackReserve \in Nat /\ DefaultMemory \in Nat
        /\ Multiple(Page, Align) /\ Multiple(StackReserve, Page) /\ Page < StackReserve /\ StackReserve < DefaultMemory
    BY Sizes
  <1>2. PICK top : top = size - Page
    OBVIOUS
  <1>3. top \in Nat /\ Page <= size
    BY <1>1, <1>2
  <1>4. Multiple(Page, Page) /\ Page + Page <= StackReserve /\ Align <= Page
    <2>1. Multiple(Page, Page) /\ Multiple(0, Align)
      <3>1. Page = Page * 1 /\ 1 \in Nat /\ 0 = Align * 0 /\ 0 \in Nat
        BY <1>1
      <3> QED BY <3>1, Zenon DEF Multiple
    <2>2. Page + Page <= StackReserve
      BY <1>1, <2>1, MultiplesApart
    <2>3. 0 < Page /\ 0 \in Nat
      BY <1>1
    <2>4. 0 + Align <= Page
      BY <1>1, <2>1, <2>3, MultiplesApart, SMTT(20), SMTT(30)
    <2> QED BY <1>1, <2>1, <2>2, <2>4
  <1>5. Multiple(top, Page)
    BY <1>1, <1>2, <1>3, <1>4, MultiplesAdd, SMTT(20), SMTT(30)
  <1>6. Multiple(top, Align)
    BY <1>1, <1>3, <1>5, MultiplesCarry, SMTT(20), SMTT(30)
  <1>7. AlignDown(top, Align) = top
    BY <1>1, <1>3, <1>6, AlignedDown, SMTT(20), SMTT(30)
  <1>8. /\ size - StackReserve \in Nat /\ StackReserve - Page \in Nat
        /\ (size - StackReserve) + (StackReserve - Page) = top
        /\ top - Align \in Nat /\ size - StackReserve <= top - Align /\ (top - Align) + Align = top /\ top < size
    BY <1>1, <1>2, <1>3, <1>4, SMTT(20), SMTT(30)
  <1> QED BY <1>2, <1>3, <1>6, <1>7, <1>8, Zenon

(* The auxiliary vector has four entries, five with an interpreter.        *)
LEMMA AuxvLength ==
    ASSUME NEW e, NEW dynamic \in BOOLEAN, NEW at
    PROVE  Len(AuxvOf(e, dynamic, at)) = IF dynamic THEN 5 ELSE 4
  <1>1. CASE dynamic
    BY <1>1 DEF AuxvOf
  <1>2. CASE ~dynamic
    BY <1>2 DEF AuxvOf
  <1> QED BY <1>1, <1>2

(* The bytes of strings are a natural number.                              *)
LEMMA BytesAre ==
    ASSUME NEW vs, IsStrings(vs)
    PROVE  Bytes(vs) \in Nat
  <1>1. PICK n \in Nat : n = Len(vs)
    BY Zenon DEF IsStrings
  <1>2. PICK g : AddingRun(g, vs, n, Bytes(vs))
    BY <1>1, AddingSteps, Zenon
  <1>3. PICK S : S = {k \in Nat : g[k] \in Nat}
    BY ZenonT(40), SMTT(20), SMTT(30)
  <1>4. S \in SUBSET Nat /\ 0 \in S
    <2>1. g[0] = 0
      BY <1>2, Zenon DEF AddingRun
    <2> QED BY <1>3, <2>1
  <1>5. ASSUME NEW k \in 1..n, k - 1 \in S PROVE k \in S
    <2>1. PICK i : i = n + 1 - k
      OBVIOUS
    <2>2. i \in 1..n /\ k \in Nat
      BY <2>1
    <2>3. PICK len \in Nat : len = Len(vs[i])
      BY <1>1, <2>2, Zenon DEF IsStrings
    <2>4. g[k] = g[k - 1] + len + 1
      BY <1>2, <2>1, <2>3, Zenon DEF AddingRun
    <2>5. g[k - 1] \in Nat
      BY <1>3, <1>5, Zenon
    <2>6. g[k] \in Nat
      BY <2>4, <2>5
    <2> QED BY <1>3, <2>2, <2>6, Zenon
  <1>6. n \in S
    BY <1>4, <1>5, Reaches, Zenon
  <1> QED BY <1>2, <1>3, <1>6, Zenon DEF AddingRun

(* There is room for all the words when there is for fifteen more than     *)
(* there are strings.                                                      *)
LEMMA EnoughIsRoom ==
    ASSUME NEW size \in Nat, Multiple(size, Page), DefaultMemory <= size, NEW args, IsStrings(args),
           NEW envp, IsStrings(envp), Enough(args, envp), NEW nx \in 0..5
    PROVE  RoomAbove(size - StackReserve, size - Page, Bytes(args), Bytes(envp), Len(args) + Len(envp) + 2 * nx + 5)
  <1>1. PICK na \in Nat, ne \in Nat : na = Len(args) /\ ne = Len(envp)
    BY Zenon DEF IsStrings
  <1>2. PICK a \in Nat, b \in Nat : a = Bytes(args) /\ b = Bytes(envp)
    BY BytesAre, Zenon
  <1>3. Cell \in Nat /\ Align \in Nat /\ Page \in Nat /\ StackReserve \in Nat
    BY Sizes
  <1>4. PICK u, v : u = na + ne + 2 * nx + 5 /\ v = na + ne + 15
    OBVIOUS
  <1>5. u \in Nat /\ v \in Nat /\ u <= v
    BY <1>4
  <1>6. PICK c, d : c = Cell * u /\ d = Cell * v
    OBVIOUS
  <1>7. c \in Nat /\ d \in Nat /\ c <= d
    BY <1>3, <1>5, <1>6, Products
  <1>8. a + b + Align + d <= StackReserve - Page
    BY <1>1, <1>2, <1>4, <1>6, Zenon DEF Enough
  <1>9. (size - StackReserve) + a + b + Align + c <= size - Page
    BY <1>3, <1>7, <1>8
  <1> QED BY <1>1, <1>2, <1>4, <1>6, <1>9, Zenon DEF RoomAbove

(* What is outside the reserve is neither a pushed byte nor a random one.  *)
LEMMA OutsideReserve ==
    ASSUME NEW size \in Nat, NEW x \in 0..(size - 1), NEW floor \in Nat, NEW top \in Nat, NEW low \in Nat,
           NEW stack \in Nat, Align \in Nat, floor <= low, low + Align = top, floor <= stack, ~(floor <= x /\ x < top)
    PROVE  ~(stack <= x /\ x < top) /\ ~(low <= x /\ x < low + Align)
  OBVIOUS

(* The stack of an image, where it has room.                               *)
LEMMA StackLoads ==
    ASSUME NEW size \in Nat, size <= Word - 1, Multiple(size, Page), DefaultMemory <= size,
           NEW sp, IsSpace(sp, size), NEW e, NEW argv, IsStrings(ArgsOf(argv)), NEW envp, IsStrings(envp),
           Enough(ArgsOf(argv), envp), NEW pushed, pushed = LoadStack(sp, e, argv, envp), pushed.sp.ok,
           NEW img, img.size = size, img.maps = pushed.sp.maps, img.mem = pushed.sp.mem, img.stack = pushed.stack
    PROVE  \E p, q, w : Stacked(sp, size, ArgsOf(argv), envp, AuxvOf(e, e.interp # NoName, (size - Page) - Align), p, q, w, img)
  <1>1. PICK args : args = ArgsOf(argv)
    OBVIOUS
  <1>2. PICK floor \in Nat, top \in Nat, low \in Nat, room \in Nat :
            floor = size - StackReserve /\ top = size - Page /\ low = top - Align /\ room = StackReserve - Page
    BY StackSizes, Zenon
  <1>3. floor + room = top /\ AlignDown(top, Align) = top /\ floor <= low /\ low + Align = top /\ top < size
    BY <1>2, StackSizes, Zenon
  <1>4. PICK auxv : auxv = AuxvOf(e, e.interp # NoName, low)
    OBVIOUS
  <1>5. sp.size = size
    BY SpaceIsOk, Zenon
  <1>6. PICK mapped, top1, random : FillRun(sp, size, e, argv, envp, mapped, top1, random, pushed)
    BY <1>5, FillSteps, Zenon
  <1>7. /\ mapped = Add(sp, floor, room, {"r", "w"}, StackName)
        /\ random = WriteBytes(mapped, low, RandomBytes) /\ random # Failed
        /\ pushed = pushInitialStack(random, top, args, envp, auxv)
    BY <1>1, <1>2, <1>3, <1>4, <1>6, Zenon DEF FillRun
  <1>8. mapped # Failed
    BY <1>7, FailedStays, Zenon
  <1>9. Added(sp, size, floor, room, {"r", "w"}, StackName, mapped)
    BY <1>2, <1>7, <1>8, AddIs, Zenon
  <1>10. /\ \A m \in sp.maps : ~Overlaps(m, floor, top)
         /\ IsSpace(mapped, size) /\ mapped.mem = sp.mem
         /\ mapped.maps = sp.maps \cup {StackMapping(size)}
    BY <1>2, <1>3, <1>9, Zenon DEF Added, StackMapping
  <1>11. Len(RandomBytes) = Align /\ Align \in Nat
    <2>1. Align \in Nat
      BY Sizes
    <2> QED BY <2>1, SMTT(20), SMTT(30) DEF RandomBytes
  <1>12. Wrote(mapped, size, low, RandomBytes, random)
    BY <1>2, <1>7, <1>10, <1>11, WriteIs, Zenon
  <1>13. /\ IsSpace(random, size) /\ random.maps = mapped.maps
         /\ random.mem = Over(size, sp.mem, low, RandomBytes)
    BY <1>10, <1>12, Zenon DEF Wrote
  <1>14. pushed.sp # Failed
    BY FailedStays, Zenon
  <1>15. PICK nx \in 0..5 : nx = Len(auxv)
    <2>1. PICK dynamic \in BOOLEAN : dynamic = (e.interp # NoName)
      BY Zenon
    <2>2. Len(auxv) = IF dynamic THEN 5 ELSE 4
      BY <1>4, <2>1, AuxvLength, Zenon
    <2> QED BY <2>2
  <1>16. RoomAbove(floor, top, Bytes(args), Bytes(envp), Len(args) + Len(envp) + 2 * Len(auxv) + 5)
    BY <1>1, <1>2, <1>15, EnoughIsRoom, Zenon
  <1>17. Len(auxv) \in Nat /\ top <= size
    BY <1>3, <1>15
  <1>18. PICK p, q, w : StackShows(random, size, top, args, envp, auxv, floor, p, q, w, pushed)
    BY <1>1, <1>7, <1>13, <1>14, <1>16, <1>17, StackIs, Zenon
  <1>19. PICK stack, mem : stack = img.stack /\ mem = img.mem
    OBVIOUS
  <1>20. /\ stack \in Nat /\ floor <= stack /\ stack < top /\ Multiple(stack, Cell)
         /\ IsSpace(pushed.sp, size) /\ pushed.sp.maps = random.maps
         /\ WordsAre(w, Len(args), Len(envp), 2 * Len(auxv), Len(args), p, q, AuxOf(auxv, p[1]))
         /\ \A j \in 1..Len(w) : WordIn(mem, stack + Cell * (j - 1), w[j])
         /\ Shown(mem, stack, top, p, args) /\ Shown(mem, stack, top, q, envp)
         /\ \E d \in Nat : Multiple(d, Align) /\ stack <= d /\ Shown(mem, d, top, p, args)
         /\ \A x \in 0..(size - 1) : ~(stack <= x /\ x < top) => mem[x] = random.mem[x]
    BY <1>18, <1>19, Zenon DEF StackShows
  <1>21. DOMAIN mem = 0..(size - 1)
    BY <1>19, <1>20, SpaceIsOk, Zenon
  <1>22. \A x \in 0..(size - 1) : ~InReserve(size, x) => mem[x] = sp.mem[x]
    <2> SUFFICES ASSUME NEW x \in 0..(size - 1), ~(floor <= x /\ x < top) PROVE mem[x] = sp.mem[x]
      BY <1>2, Zenon DEF InReserve
    <2>1. ~(stack <= x /\ x < top) /\ ~(low <= x /\ x < low + Align)
      BY <1>3, <1>11, <1>20, OutsideReserve, Zenon
    <2>2. mem[x] = random.mem[x]
      BY <1>20, <2>1, Zenon
    <2>3. random.mem[x] = sp.mem[x]
      BY <1>11, <1>13, <2>1, Zenon DEF Over
    <2> QED BY <2>2, <2>3
  <1>23. img.maps = sp.maps \cup {StackMapping(size)}
    BY <1>10, <1>13, <1>20, Zenon
  <1>24. InReserve(size, stack)
    BY <1>2, <1>20, Zenon DEF InReserve
  <1>25. Stacked(sp, size, args, envp, auxv, p, q, w, img)
    BY <1>2, <1>10, <1>19, <1>20, <1>21, <1>22, <1>23, <1>24, Zenon DEF Stacked
  <1> QED BY <1>1, <1>2, <1>4, <1>25, Zenon

-----------------------------------------------------------------------------
(* An image that is no error.                                              *)

Built(e, interp, size, loaded) ==
    /\ size \in Nat /\ size <= Word - 1 /\ Multiple(size, Page) /\ DefaultMemory <= size
    /\ loaded = LoadImages(e, interp, size) /\ IsSpace(loaded, size)
    /\ validateELF(e) /\ (e.interp # NoName => validateELF(interp))

(* The images of the two programs are a space.                             *)
LEMMA ImagesKeep ==
    ASSUME NEW size \in Nat, NEW e, IsProgram(e), NEW interp, e.interp # NoName => IsProgram(interp)
    PROVE  LoadImages(e, interp, size) = Failed \/ IsSpace(LoadImages(e, interp, size), size)
  <1>1. PICK first : first = loadSegments(Space(size), e, 0, ProgramName)
    OBVIOUS
  <1>2. 0 \in Nat /\ InterpBase \in Nat
    BY Sizes
  <1>3. IsSpace(Space(size), size)
    BY SpaceIsLoaded, Zenon
  <1>4. first = Failed \/ IsSpace(first, size)
    BY <1>1, <1>2, <1>3, SegmentsKeep, Zenon
  <1>5. CASE e.interp # NoName /\ first.ok
    <2>1. LoadImages(e, interp, size) = loadSegments(first, interp, InterpBase, InterpreterName)
      BY <1>1, <1>5, Zenon DEF LoadImages
    <2> QED BY <1>2, <1>4, <1>5, <2>1, SegmentsKeep, Zenon
  <1>6. CASE ~(e.interp # NoName /\ first.ok)
    <2>1. LoadImages(e, interp, size) = first
      BY <1>1, <1>6, Zenon DEF LoadImages
    <2> QED BY <1>4, <2>1, Zenon
  <1> QED BY <1>5, <1>6, Zenon

(* What is known of the image the loader returns.                          *)
LEMMA ImageShape ==
    ASSUME NEW e, IsProgram(e), NEW interp, e.interp # NoName => IsProgram(interp),
           NEW argv, IsStrings(ArgsOf(argv)), NEW envp, IsStrings(envp), Enough(ArgsOf(argv), envp),
           NEW img, img = LoadWithEnvResolver(e, argv, envp, interp), img.ok
    PROVE  \E size, loaded, p, q, w :
               /\ Built(e, interp, size, loaded)
               /\ Stacked(loaded, size, ArgsOf(argv), envp, AuxvOf(e, e.interp # NoName, (size - Page) - Align), p, q, w, img)
  <1>1. PICK size, loaded, pushed :
            Accepted(e, interp, size) /\ LoadRun(e, argv, envp, interp, size, loaded, pushed, img)
    BY LoadSteps, Zenon
  <1>2. /\ validateELF(e) /\ (e.interp # NoName => validateELF(interp))
        /\ imageBounds(e, 0).ok /\ SecondOf(e, interp).ok
        /\ size = SizeFor(Max({imageBounds(e, 0).max, SecondOf(e, interp).max})) /\ ~(size > Word - 1)
    BY <1>1, Zenon DEF Accepted
  <1>3. /\ loaded = LoadImages(e, interp, size)
        /\ pushed = LoadStack(loaded, e, argv, envp) /\ pushed.sp.ok
        /\ img.size = size /\ img.maps = pushed.sp.maps /\ img.mem = pushed.sp.mem /\ img.stack = pushed.stack
    BY <1>1, Zenon DEF LoadRun
  <1>4. PICK a, b : a = imageBounds(e, 0).max /\ b = SecondOf(e, interp).max
    BY SMTT(20), SMTT(30)
  <1>5. 0 \in Nat /\ InterpBase \in Nat
    BY Sizes
  <1>6. IsBound(a)
    BY <1>2, <1>4, <1>5, BoundsAre, Zenon
  <1>7. IsBound(b)
    <2>1. CASE e.interp # NoName
      <3>1. SecondOf(e, interp) = imageBounds(interp, InterpBase)
        BY <2>1, Zenon DEF SecondOf
      <3> QED BY <1>2, <1>4, <1>5, <2>1, <3>1, BoundsAre, Zenon
    <2>2. CASE ~(e.interp # NoName)
      <3>1. SecondOf(e, interp) = imageBounds(e, 0)
        BY <2>2, Zenon DEF SecondOf
      <3> QED BY <1>4, <1>6, <3>1, Zenon
    <2> QED BY <2>1, <2>2, Zenon
  <1>8. size \in Nat /\ size <= Word - 1 /\ Multiple(size, Page) /\ DefaultMemory <= size
    <2>1. size = SizeFor(Max({a, b})) /\ ~(size > Word - 1)
      BY <1>2, <1>4, Zenon
    <2> QED BY <1>6, <1>7, <2>1, SizeIs, Zenon
  <1>9. loaded # Failed
    <2>1. loaded.ok
      BY <1>3, FillSteps, Zenon
    <2> QED BY <2>1, FailedStays, Zenon
  <1>10. IsSpace(loaded, size)
    BY <1>3, <1>8, <1>9, ImagesKeep, Zenon
  <1>11. Built(e, interp, size, loaded)
    BY <1>2, <1>3, <1>8, <1>10, Zenon DEF Built
  <1>12. PICK p, q, w :
            Stacked(loaded, size, ArgsOf(argv), envp, AuxvOf(e, e.interp # NoName, (size - Page) - Align), p, q, w, img)
    BY <1>3, <1>8, <1>10, StackLoads, Zenon
  <1> QED BY <1>11, <1>12, Zenon
=============================================================================
