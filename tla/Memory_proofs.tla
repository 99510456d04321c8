--------------------------- MODULE Memory_proofs ---------------------------
(***************************************************************************)
(* Proofs about the address space of module Memory, for every number of    *)
(* pages, image and list of mappings, as long as guests do not unmap the   *)
(* inside of a mapping, which Remove is known to get wrong.                *)
(***************************************************************************)
EXTENDS Memory, SequenceTheorems, WellFoundedInduction, TLAPS

(* What is known of the sizes.                                             *)
LEMMA Sizes ==
    /\ Page \in Nat /\ Page >= 2 /\ Pages \in Nat /\ Pages >= 1
    /\ Max \in Nat /\ Max = Pages * Page /\ Word \in Nat /\ Max < Word
  <1>1. Page \in Nat /\ Page >= 2 /\ Pages \in Nat /\ Pages >= 1 /\ Word \in Nat /\ Max < Word
    BY MemoryAssumption
  <1> QED BY <1>1 DEF Max

(* Multiples keep the order of their factors.                              *)
LEMMA TimesOrder ==
    ASSUME NEW i \in Int, NEW j \in Int, NEW p \in Nat, i <= j
    PROVE  i * p <= j * p
  OBVIOUS

(* So a multiple below another one has a smaller factor.                   *)
LEMMA FactorOrder ==
    ASSUME NEW i \in Int, NEW j \in Int, NEW p \in Nat, i * p < j * p
    PROVE  i < j
  BY TimesOrder

(* Division with remainder.                                                *)
LEMMA DivMod ==
    ASSUME NEW m \in Nat \ {0}, NEW v \in Nat
    PROVE  v \div m \in Nat /\ v % m \in 0..(m - 1) /\ v = m * (v \div m) + (v % m)
  <1>1. v % m \in 0..(m - 1)
    OBVIOUS
  <1>2. v = m * (v \div m) + (v % m)
    OBVIOUS
  <1>3. v \div m \in Nat
    OBVIOUS
  <1> QED BY <1>1, <1>2, <1>3

(* A number that is rounded down to pages.                                 *)
LEMMA RoundDown ==
    ASSUME NEW v \in Nat
    PROVE  /\ v \div Page \in Nat /\ v % Page \in 0..(Page - 1)
           /\ AlignDown(v) = (v \div Page) * Page
           /\ AlignDown(v) \in Nat /\ AlignDown(v) <= v /\ v < AlignDown(v) + Page
  <1>1. Page \in Nat \ {0}
    BY Sizes
  <1>2. v \div Page \in Nat /\ v % Page \in 0..(Page - 1) /\ v = Page * (v \div Page) + (v % Page)
    BY <1>1, DivMod, Zenon
  <1>3. Page * (v \div Page) = (v \div Page) * Page /\ (v \div Page) * Page \in Nat
    BY <1>1, <1>2
  <1> QED BY <1>1, <1>2, <1>3 DEF AlignDown

(* Page boundaries are numbers up to Max.                                  *)
LEMMA BoundaryIsNat ==
    ASSUME NEW b \in Boundary
    PROVE  b \in Nat /\ b <= Max
  <1>1. PICK k \in 0..Pages : b = k * Page
    BY DEF Boundary
  <1> QED BY <1>1, Sizes, TimesOrder

(* The multiples of a page up to Max are page boundaries.                  *)
LEMMA MultipleIsBoundary ==
    ASSUME NEW k \in Nat, k * Page <= Max
    PROVE  k * Page \in Boundary /\ k \in 0..Pages
  <1>1. ~(Pages + 1 <= k)
    <2>1. (Pages + 1) * Page = Pages * Page + Page
      BY Sizes
    <2> QED BY <2>1, Sizes, TimesOrder
  <1> QED BY <1>1, Sizes DEF Boundary

(* An aligned address is one.                                              *)
LEMMA AlignedIsBoundary ==
    ASSUME NEW v \in Nat, v <= Max, Aligned(v)
    PROVE  v \in Boundary /\ v \div Page \in 0..Pages /\ v = (v \div Page) * Page
  <1>1. v = AlignDown(v)
    BY DEF Aligned, AlignDown
  <1> QED BY <1>1, RoundDown, MultipleIsBoundary

(* Sums and differences of multiples are multiples.                        *)
LEMMA MultiplesAdd ==
    ASSUME NEW i \in Int, NEW j \in Int
    PROVE  i * Page + j * Page = (i + j) * Page /\ i * Page - j * Page = (i - j) * Page
  BY Sizes

(* The lengths of mappings, rounded up by PageLength and pageAlignUp.      *)
LEMMA LengthIsMultiple ==
    ASSUME NEW v \in Nat
    PROVE  /\ PageLength(v) \in Nat /\ \E k \in Nat : PageLength(v) = k * Page
           /\ PageLength(v) < Word
  <1> DEFINE w == (v + Page - 1) % Word
  <1>1. w \in Nat /\ w < Word
    BY Sizes
  <1> HIDE DEF w
  <1>2. w \div Page \in Nat /\ AlignDown(w) = (w \div Page) * Page /\ AlignDown(w) \in Nat /\ AlignDown(w) <= w
    BY <1>1, RoundDown
  <1>3. PageLength(v) = AlignDown(w)
    BY DEF PageLength, w
  <1> QED BY <1>1, <1>2, <1>3, Sizes

(* What is rounded up fits the address space only as a multiple.           *)
LEMMA UpIsMultiple ==
    ASSUME NEW v \in Nat, v < Word
    PROVE  /\ pageAlignUp(v) \in Nat
           /\ pageAlignUp(v) <= Max => \E k \in Nat : pageAlignUp(v) = k * Page
           /\ pageAlignUp(v) >= v
           /\ v <= Max => pageAlignUp(v) <= Max
  <1>1. Max + Page <= Word
    <2>1. Word % Page = 0 /\ Word \in Nat
      BY MemoryAssumption
    <2>2. Word = (Word \div Page) * Page /\ Word \div Page \in Nat
      BY <2>1, RoundDown DEF AlignDown
    <2>3. Pages < Word \div Page
      BY <2>2, Sizes, FactorOrder
    <2>4. (Pages + 1) * Page <= (Word \div Page) * Page
      BY <2>2, <2>3, Sizes, TimesOrder
    <2> QED BY <2>2, <2>4, Sizes
  <1>2. CASE v > (Word - 1) - (Page - 1)
    <2>1. pageAlignUp(v) = Word - 1
      BY <1>2 DEF pageAlignUp
    <2> QED BY <1>1, <1>2, <2>1, Sizes
  <1>3. CASE ~(v > (Word - 1) - (Page - 1))
    <2>1. pageAlignUp(v) = AlignDown(v + Page - 1) /\ v + Page - 1 \in Nat
      BY <1>3, Sizes DEF pageAlignUp
    <2>2. /\ (v + Page - 1) \div Page \in Nat
          /\ AlignDown(v + Page - 1) = ((v + Page - 1) \div Page) * Page
          /\ AlignDown(v + Page - 1) \in Nat /\ AlignDown(v + Page - 1) <= v + Page - 1
          /\ v + Page - 1 < AlignDown(v + Page - 1) + Page
      BY <2>1, RoundDown
    <2>3. ASSUME v <= Max PROVE AlignDown(v + Page - 1) <= Max
      <3>1. ((v + Page - 1) \div Page) * Page < (Pages + 1) * Page
        BY <2>2, <2>3, Sizes
      <3>2. (v + Page - 1) \div Page <= Pages
        BY <2>2, <3>1, Sizes, FactorOrder
      <3> QED BY <2>2, <3>2, Sizes, TimesOrder
    <2> QED BY <2>1, <2>2, <2>3, Sizes
  <1> QED BY <1>2, <1>3

-----------------------------------------------------------------------------
(* Lists of mappings.                                                      *)
Proper(ms) == ms \in Seq(Mapping) /\ InOrder(ms)

Elems(ms) == {ms[i] : i \in 1..Len(ms)}

(* The protections of the mappings that hold the address a.                *)
Shows(ms, a) == {m.prot : m \in {x \in Elems(ms) : x.start <= a /\ a < x.end}}

(* The fields of a mapping.                                                *)
LEMMA Fields ==
    ASSUME NEW m \in Mapping
    PROVE  /\ m.start \in Boundary /\ m.end \in Boundary
           /\ m.start \in Nat /\ m.end \in Nat /\ m.start <= Max /\ m.end <= Max
           /\ m.prot \in SUBSET {"r", "w", "x"} /\ m.name \in {"image", "heap", "mmap2"}
  BY BoundaryIsNat DEF Mapping

(* A view of a page is what its first byte shows.                          *)
LEMMA ViewIsShows ==
    ASSUME NEW ms, NEW q
    PROVE  View(ms, q) = Shows(ms, q * Page)
  <1> DEFINE a == q * Page
  <1> HIDE DEF a
  <1>1. {ms[i].prot : i \in {i \in 1..Len(ms) : a >= ms[i].start /\ a < ms[i].end}} = Shows(ms, a)
    <2>1. ASSUME NEW i \in 1..Len(ms), a >= ms[i].start, a < ms[i].end PROVE ms[i].prot \in Shows(ms, a)
      BY <2>1 DEF Shows, Elems
    <2>2. ASSUME NEW m \in Elems(ms), m.start <= a, a < m.end
          PROVE  m.prot \in {ms[i].prot : i \in {i \in 1..Len(ms) : a >= ms[i].start /\ a < ms[i].end}}
      BY <2>2 DEF Elems
    <2> QED BY <2>1, <2>2 DEF Shows
  <1> QED BY <1>1 DEF View, Holding, a

(* Lists put behind each other.                                            *)
LEMMA Joined ==
    ASSUME NEW u, NEW v, Proper(u), Proper(v), \A x \in Elems(u), y \in Elems(v) : x.end <= y.start
    PROVE  Proper(u \o v) /\ Elems(u \o v) = Elems(u) \cup Elems(v)
  <1> DEFINE w == u \o v
             k == Len(u)
             l == Len(v)
  <1>1. u \in Seq(Mapping) /\ v \in Seq(Mapping) /\ k \in Nat /\ l \in Nat
    BY DEF Proper
  <1>2. /\ w \in Seq(Mapping) /\ Len(w) = k + l
        /\ \A i \in 1..(k + l) : w[i] = IF i <= k THEN u[i] ELSE v[i - k]
    BY <1>1, ConcatProperties, Zenon
  <1> HIDE DEF w, k, l
  <1>3. \A i \in 1..k : i \in 1..(k + l) /\ w[i] = u[i] /\ u[i] \in Elems(u) /\ u[i] \in Mapping
    BY <1>1, <1>2, SMTT(20), SMTT(30), Zenon DEF Elems, k
  <1>4. \A i \in (k + 1)..(k + l) : i - k \in 1..l /\ w[i] = v[i - k] /\ v[i - k] \in Elems(v) /\ v[i - k] \in Mapping
    BY <1>1, <1>2 DEF Elems, l
  <1>5. \A i \in 1..(k + l) : i \in 1..k \/ i \in (k + 1)..(k + l)
    BY <1>1
  <1>6. Elems(w) = Elems(u) \cup Elems(v)
    <2>1. ASSUME NEW j \in 1..l PROVE j + k \in 1..(k + l) /\ w[j + k] = v[j]
      <3>1. j + k \in (k + 1)..(k + l) /\ (j + k) - k = j /\ j + k \in 1..(k + l)
        BY <1>1
      <3> QED BY <1>4, <3>1
    <2>2. Elems(v) \subseteq Elems(w)
      BY <1>2, <2>1 DEF Elems, l
    <2>3. Elems(u) \subseteq Elems(w)
      BY <1>2, <1>3 DEF Elems, k
    <2>4. Elems(w) \subseteq Elems(u) \cup Elems(v)
      BY <1>2, <1>3, <1>4, <1>5, ZenonT(40) DEF Elems
    <2> QED BY <2>2, <2>3, <2>4
  <1>7. ASSUME NEW i \in 1..(k + l) PROVE w[i].start < w[i].end
    BY <1>3, <1>4, <1>5 DEF Proper, InOrder, k, l
  <1>8. ASSUME NEW i \in 1..(k + l), NEW j \in 1..(k + l), i < j PROVE w[i].end <= w[j].start
    <2>1. CASE j \in 1..k
      <3>1. i \in 1..k
        BY <1>1, <1>8, <2>1
      <3> QED BY <1>3, <1>8, <2>1, <3>1 DEF Proper, InOrder, k
    <2>2. CASE i \in 1..k /\ j \in (k + 1)..(k + l)
      BY <1>3, <1>4, <2>2
    <2>3. CASE i \in (k + 1)..(k + l)
      <3>1. j \in (k + 1)..(k + l) /\ i - k < j - k
        BY <1>1, <1>8, <2>3
      <3> QED BY <1>4, <2>3, <3>1 DEF Proper, InOrder, l
    <2> QED BY <1>5, <2>1, <2>2, <2>3
  <1> QED BY <1>2, <1>6, <1>7, <1>8 DEF Proper, InOrder, w

(* A part of a list.                                                       *)
LEMMA PartOf ==
    ASSUME NEW ms, Proper(ms), NEW a \in 1..(Len(ms) + 1), NEW b \in (a - 1)..Len(ms)
    PROVE  /\ Proper(SubSeq(ms, a, b)) /\ Len(SubSeq(ms, a, b)) = b - a + 1
           /\ \A i \in 1..(b - a + 1) : SubSeq(ms, a, b)[i] = ms[a + i - 1]
           /\ Elems(SubSeq(ms, a, b)) = {ms[i] : i \in a..b}
  <1> DEFINE s == SubSeq(ms, a, b)
             n == b - a + 1
  <1>1. ms \in Seq(Mapping) /\ Len(ms) \in Nat /\ a \in Nat /\ b \in Int /\ n \in Nat
    BY DEF Proper
  <1>2. s \in Seq(Mapping) /\ Len(s) = n /\ \A i \in 1..n : s[i] = ms[a + i - 1]
    BY <1>1
  <1>3. \A i \in 1..n : a + i - 1 \in a..b /\ a + i - 1 \in 1..Len(ms)
    BY <1>1
  <1>4. \A i \in a..b : i - a + 1 \in 1..n /\ a + (i - a + 1) - 1 = i
    BY <1>1
  <1> HIDE DEF s
  <1>5. InOrder(s)
    <2>1. ASSUME NEW i \in 1..n, NEW j \in 1..n, i < j PROVE s[i].end <= s[j].start
      <3>1. a + i - 1 < a + j - 1
        BY <1>1, <2>1
      <3> QED BY <1>2, <1>3, <3>1, Zenon DEF Proper, InOrder
    <2>2. ASSUME NEW i \in 1..n PROVE s[i].start < s[i].end
      BY <1>2, <1>3, Zenon DEF Proper, InOrder
    <2> QED BY <1>2, <2>1, <2>2 DEF InOrder
  <1>6. Elems(s) = {ms[i] : i \in a..b}
    <2>1. \A i \in 1..n : s[i] \in {ms[j] : j \in a..b}
      BY <1>2, <1>3, Zenon
    <2>2. \A i \in a..b : ms[i] \in Elems(s)
      <3> TAKE i \in a..b
      <3>1. s[i - a + 1] = ms[i]
        BY <1>2, <1>4, SMTT(20), SMTT(30), Zenon
      <3> QED BY <1>2, <1>4, <3>1, Zenon DEF Elems
    <2> QED BY <1>2, <2>1, <2>2, Zenon DEF Elems
  <1> QED BY <1>2, <1>5, <1>6 DEF Proper, s

(* A non-empty set of natural numbers has a smallest one ...               *)
LEMMA Smallest ==
    ASSUME NEW S \in SUBSET Nat, S # {}
    PROVE  \E n \in S : \A m \in S : n <= m
  <1>1. IsWellFoundedOn(OpToRel(<, Nat), Nat)
    BY NatLessThanWellFounded, Zenon
  <1>2. PICK n \in S : \A m \in S : ~(<<m, n>> \in OpToRel(<, Nat))
    BY <1>1, WFMin, Zenon
  <1>3. \A m \in S : ~(m < n)
    BY <1>2, Zenon DEF OpToRel
  <1> QED BY <1>3

(* ... and a bounded one a largest.                                        *)
LEMMA Largest ==
    ASSUME NEW k \in Nat, NEW S \in SUBSET 1..k, S # {}
    PROVE  \E n \in S : \A m \in S : m <= n
  <1> DEFINE T == {k - m : m \in S}
  <1>1. T \in SUBSET Nat /\ T # {}
    <2>1. \A m \in S : k - m \in Nat
      OBVIOUS
    <2>2. PICK m \in S : TRUE
      BY Zenon
    <2>3. k - m \in T
      BY <2>2
    <2> QED BY <2>1, <2>3
  <1>2. PICK t \in T : \A u \in T : t <= u
    BY <1>1, Smallest, Zenon
  <1>3. PICK n \in S : t = k - n
    BY <1>2
  <1>4. \A m \in S : m <= n
    BY <1>2, <1>3, SMTT(20), SMTT(30), Zenon
  <1> QED BY <1>3, <1>4

Fresh(lo, size, prot, name) == [start |-> lo, end |-> lo + size, prot |-> prot, name |-> name]

(* The arguments of an Add that Add accepts.                               *)
CanAdd(ms, lo, size, prot, name) ==
    /\ Proper(ms) /\ Fresh(lo, size, prot, name) \in Mapping
    /\ lo \in Nat /\ size \in Nat \ {0} /\ isFree(ms, lo, lo + size)

(* Add puts a mapping between those below and those above it.              *)
LEMMA AddedBetween ==
    ASSUME NEW ms, NEW lo, NEW size, NEW prot, NEW name, CanAdd(ms, lo, size, prot, name)
    PROVE  \E k \in 0..Len(ms) :
              /\ Add(ms, lo, size, prot, name) =
                    SubSeq(ms, 1, k) \o <<Fresh(lo, size, prot, name)>> \o SubSeq(ms, k + 1, Len(ms))
              /\ \A i \in 1..k : ms[i].end <= lo
              /\ \A i \in (k + 1)..Len(ms) : lo + size <= ms[i].start
  <1> DEFINE before == {i \in 1..Len(ms) : ms[i].start < lo}
             k == IF before = {} THEN 0 ELSE CHOOSE i \in before : \A j \in before : j <= i
  <1>1. ms \in Seq(Mapping) /\ Len(ms) \in Nat /\ lo \in Nat /\ size \in Nat /\ size > 0 /\ before \in SUBSET (1..Len(ms))
    BY DEF CanAdd, Proper
  <1>2. \A i \in 1..Len(ms) :
            /\ ms[i].start \in Nat /\ ms[i].end \in Nat /\ ms[i].start < ms[i].end
            /\ ~(lo < ms[i].end /\ lo + size > ms[i].start)
            /\ \A j \in 1..Len(ms) : i < j => ms[i].end <= ms[j].start
    BY <1>1, Fields DEF CanAdd, Proper, InOrder, isFree
  <1>3. k \in 0..Len(ms) /\ (\A j \in before : j <= k) /\ (k # 0 => k \in before)
    <2>1. CASE before = {}
      BY <1>1, <2>1
    <2>2. CASE before # {}
      <3>1. \E i \in before : \A j \in before : j <= i
        BY <1>1, <2>2, Largest, Zenon
      <3>2. k = CHOOSE i \in before : \A j \in before : j <= i
        BY <2>2
      <3> HIDE DEF k
      <3>3. k \in before /\ \A j \in before : j <= k
        BY <3>1, <3>2
      <3> QED BY <1>1, <3>3
    <2> QED BY <2>1, <2>2, Zenon
  <1>4. Add(ms, lo, size, prot, name) = SubSeq(ms, 1, k) \o <<Fresh(lo, size, prot, name)>> \o SubSeq(ms, k + 1, Len(ms))
    BY DEF Add, Fresh
  <1> HIDE DEF k
  <1>5. ASSUME NEW i \in 1..k PROVE ms[i].end <= lo
    <2>1. k \in before /\ i \in 1..Len(ms) /\ k \in 1..Len(ms)
      BY <1>1, <1>3
    <2>2. ms[i].start < lo
      <3>1. CASE i = k
        BY <2>1, <3>1
      <3>2. CASE i < k
        BY <1>2, <2>1, <3>2, <1>1
      <3> QED BY <1>3, <3>1, <3>2
    <2> QED BY <1>1, <1>2, <2>1, <2>2
  <1>6. ASSUME NEW i \in (k + 1)..Len(ms) PROVE lo + size <= ms[i].start
    <2>1. i \in 1..Len(ms) /\ i \notin before
      BY <1>1, <1>3
    <2> QED BY <1>1, <1>2, <2>1
  <1> QED BY <1>3, <1>4, <1>5, <1>6, Zenon

(* So the list stays in order, and has one mapping more.                   *)
LEMMA Added ==
    ASSUME NEW ms, NEW lo, NEW size, NEW prot, NEW name, CanAdd(ms, lo, size, prot, name)
    PROVE  /\ Proper(Add(ms, lo, size, prot, name))
           /\ Elems(Add(ms, lo, size, prot, name)) = Elems(ms) \cup {Fresh(lo, size, prot, name)}
  <1> DEFINE m == Fresh(lo, size, prot, name)
             n == Len(ms)
  <1>1. PICK k \in 0..n :
              /\ Add(ms, lo, size, prot, name) = SubSeq(ms, 1, k) \o <<m>> \o SubSeq(ms, k + 1, n)
              /\ \A i \in 1..k : ms[i].end <= lo
              /\ \A i \in (k + 1)..n : lo + size <= ms[i].start
    BY AddedBetween, Zenon
  <1>2. Proper(ms) /\ n \in Nat /\ m \in Mapping /\ m.start = lo /\ m.end = lo + size /\ lo \in Nat /\ size \in Nat /\ size > 0
    BY DEF CanAdd, Proper, Fresh
  <1> HIDE DEF m, n
  <1> DEFINE u == SubSeq(ms, 1, k)
             v == SubSeq(ms, k + 1, n)
  <1>3. Proper(u) /\ Elems(u) = {ms[i] : i \in 1..k}
    BY <1>2, PartOf DEF n
  <1>4. Proper(v) /\ Elems(v) = {ms[i] : i \in (k + 1)..n}
    <2>1. k + 1 \in 1..(Len(ms) + 1) /\ Len(ms) \in ((k + 1) - 1)..Len(ms)
      BY <1>2 DEF n
    <2> QED BY <1>2, <2>1, PartOf, Zenon DEF n
  <1>5. Proper(<<m>>) /\ Elems(<<m>>) = {m}
    BY <1>2 DEF Proper, InOrder, Elems
  <1> HIDE DEF u, v
  <1>6. Proper(u \o <<m>>) /\ Elems(u \o <<m>>) = Elems(u) \cup {m}
    <2>1. \A x \in Elems(u), y \in Elems(<<m>>) : x.end <= y.start
      BY <1>1, <1>2, <1>3, <1>5, Zenon
    <2> QED BY <1>3, <1>5, <2>1, Joined
  <1>7. \A i \in 1..k, j \in (k + 1)..n : ms[i].end <= ms[j].start
    BY <1>2, SMTT(20), SMTT(30), Zenon DEF Proper, InOrder, n
  <1>8. Proper((u \o <<m>>) \o v) /\ Elems((u \o <<m>>) \o v) = Elems(u) \cup {m} \cup Elems(v)
    <2>1. \A x \in Elems(u \o <<m>>), y \in Elems(v) : x.end <= y.start
      BY <1>1, <1>2, <1>3, <1>4, <1>6, <1>7, SMTT(20), SMTT(30), Zenon
    <2> QED BY <1>4, <1>6, <2>1, Joined
  <1>9. Elems(u) \cup Elems(v) = Elems(ms)
    <2>1. 1..n = (1..k) \cup ((k + 1)..n)
      BY <1>2
    <2> QED BY <1>3, <1>4, <2>1, Zenon DEF Elems, n
  <1> QED BY <1>1, <1>8, <1>9 DEF u, v, m

-----------------------------------------------------------------------------
(* The loop of Remove.  f runs through its first n rounds.                 *)
Rounds(f, ms, lo, hi, n) ==
    f = [i \in 0..n |-> IF i = 0 THEN [array |-> ms, out |-> 0] ELSE KeepPieces(f[i - 1], i, lo, hi)]

(* There is such a function, by induction on the number of rounds ...      *)
LEMMA RoundsExist ==
    ASSUME NEW ms, NEW lo, NEW hi, NEW n \in Nat
    PROVE  \E f : Rounds(f, ms, lo, hi, n)
  <1> DEFINE b == [array |-> ms, out |-> 0]
             G(i, s) == KeepPieces(s, i, lo, hi)
             Bad == {k \in Nat : ~\E f : Rounds(f, ms, lo, hi, k)}
  <1>0. \A f, k : Rounds(f, ms, lo, hi, k) <=> f = [i \in 0..k |-> IF i = 0 THEN b ELSE G(i, f[i - 1])]
    BY DEF Rounds
  <1> HIDE DEF b, G
  <1> SUFFICES ASSUME Bad # {} PROVE FALSE
    OBVIOUS
  <1>1. PICK k \in Bad : \A j \in Bad : k <= j
    BY Smallest, Zenon
  <1>2. \A j \in Nat : j < k => j \notin Bad
    BY <1>1
  <1>3. CASE k = 0
    <2> DEFINE g == [i \in 0..0 |-> b]
    <2>1. g = [i \in 0..0 |-> IF i = 0 THEN b ELSE G(i, g[i - 1])]
      OBVIOUS
    <2> QED BY <1>0, <1>1, <1>3, <2>1, Zenon
  <1>4. CASE k # 0
    <2>1. PICK f : Rounds(f, ms, lo, hi, k - 1)
      BY <1>1, <1>2, <1>4
    <2> DEFINE g == [i \in 0..k |-> IF i = k THEN G(k, f[k - 1]) ELSE f[i]]
    <2>2. \A i \in 0..k : g[i] = IF i = 0 THEN b ELSE G(i, g[i - 1])
      <3> TAKE i \in 0..k
      <3>1. CASE i = k
        <4>1. k - 1 \in 0..k /\ k - 1 # k
          BY <1>1, <1>4
        <4> QED BY <3>1, <1>4, <4>1
      <3>2. CASE i # k
        <4>1. i \in 0..(k - 1)
          BY <1>1, <3>2
        <4>2. f[i] = IF i = 0 THEN b ELSE G(i, f[i - 1])
          BY <1>0, <2>1, <4>1
        <4>3. i # 0 => i - 1 \in 0..k /\ i - 1 # k
          BY <4>1, <1>1
        <4> QED BY <3>2, <4>1, <4>2, <4>3
      <3> QED BY <3>1, <3>2
    <2>3. g = [i \in 0..k |-> IF i = 0 THEN b ELSE G(i, g[i - 1])]
      BY <2>2
    <2> QED BY <1>0, <1>1, <2>3, Zenon
  <1> QED BY <1>3, <1>4

(* ... and Passes is one.                                                  *)
LEMMA PassesUnfold ==
    ASSUME NEW ms, Len(ms) \in Nat, NEW lo, NEW hi
    PROVE  /\ Passes(ms, lo, hi)[0] = [array |-> ms, out |-> 0]
           /\ \A i \in 1..Len(ms) : Passes(ms, lo, hi)[i] = KeepPieces(Passes(ms, lo, hi)[i - 1], i, lo, hi)
  <1> DEFINE f == Passes(ms, lo, hi)
  <1>1. \E g : Rounds(g, ms, lo, hi, Len(ms))
    BY RoundsExist
  <1>2. f = CHOOSE g : Rounds(g, ms, lo, hi, Len(ms))
    BY DEF Passes, Rounds
  <1> HIDE DEF f
  <1>3. Rounds(f, ms, lo, hi, Len(ms))
    BY <1>1, <1>2
  <1>4. \A i \in 0..Len(ms) : f[i] = IF i = 0 THEN [array |-> ms, out |-> 0] ELSE KeepPieces(f[i - 1], i, lo, hi)
    BY <1>3 DEF Rounds
  <1>5. f[0] = [array |-> ms, out |-> 0] /\ \A i \in 1..Len(ms) : f[i] = KeepPieces(f[i - 1], i, lo, hi)
    BY <1>4
  <1> QED BY <1>5 DEF f

(* A round that keeps nothing of its mapping.                              *)
LEMMA KeepNone ==
    ASSUME NEW u \in Seq(Mapping), NEW o \in 0..Len(u), NEW i, NEW lo, NEW hi, Cut(u[i], lo, hi) = <<>>
    PROVE  KeepPieces([array |-> u, out |-> o], i, lo, hi) = [array |-> u, out |-> o]
  <1>1. KeepPieces([array |-> u, out |-> o], i, lo, hi) =
            [array |-> SubSeq(u, 1, o) \o <<>> \o SubSeq(u, o + 1, Len(u)), out |-> o]
    <2>1. o + Len(<<>>) = o
      OBVIOUS
    <2> QED BY <2>1, Zenon DEF KeepPieces
  <1>2. SubSeq(u, 1, o) \in Seq(Mapping)
    OBVIOUS
  <1>3. SubSeq(u, 1, o) \o <<>> = SubSeq(u, 1, o)
    BY <1>2, ConcatEmptySeq
  <1>4. SubSeq(u, 1, o) \o SubSeq(u, o + 1, Len(u)) = SubSeq(u, 1, Len(u))
    <2>1. Len(u) \in Nat /\ 1 \in 1..(Len(u) + 1) /\ o \in (1 - 1)..Len(u) /\ Len(u) \in o..Len(u)
      OBVIOUS
    <2> QED BY <2>1, ConcatAdjacentSubSeq, Zenon
  <1>5. SubSeq(u, 1, Len(u)) = u
    OBVIOUS
  <1> QED BY <1>1, <1>3, <1>4, <1>5, Zenon

KeptOne(v, u, o, i, lo, hi, x) ==
    /\ KeepPieces([array |-> u, out |-> o], i, lo, hi) = [array |-> v, out |-> o + 1]
    /\ Len(v) = Len(u) /\ v[o + 1] = x
    /\ \A j \in 1..Len(u) : j # o + 1 => v[j] = u[j]

(* A round that keeps one piece, in the next place of the array.           *)
LEMMA KeepOne ==
    ASSUME NEW u \in Seq(Mapping), NEW o \in Nat, o < Len(u), NEW i, NEW lo, NEW hi,
           NEW x \in Mapping, Cut(u[i], lo, hi) = <<x>>
    PROVE  \E v \in Seq(Mapping) : KeptOne(v, u, o, i, lo, hi, x)
  <1> DEFINE n == Len(u)
             a == SubSeq(u, 1, o)
             b == SubSeq(u, o + 2, n)
  <1>1. n \in Nat /\ o + 1 <= n
    OBVIOUS
  <1>2. KeepPieces([array |-> u, out |-> o], i, lo, hi) = [array |-> (a \o <<x>>) \o b, out |-> o + 1]
    <2>1. o + 1 + 1 = o + 2 /\ Len(<<x>>) = 1
      OBVIOUS
    <2> QED BY <2>1, Zenon DEF KeepPieces
  <1>3. a \in Seq(Mapping) /\ Len(a) = o /\ \A j \in 1..o : a[j] = u[j]
    BY <1>1
  <1>4. b \in Seq(Mapping) /\ Len(b) = n - o - 1 /\ \A j \in 1..(n - o - 1) : b[j] = u[o + 1 + j]
    BY <1>1
  <1> HIDE DEF a, b
  <1>5. PICK c \in Seq(Mapping) : c = a \o <<x>>
    <2>1. <<x>> \in Seq(Mapping)
      OBVIOUS
    <2> QED BY <1>3, <2>1, ConcatProperties, Zenon
  <1>10. Len(c) = o + 1 /\ c[o + 1] = x /\ \A j \in 1..o : c[j] = u[j]
    <2> DEFINE y == <<x>>
    <2>1. y \in Seq(Mapping) /\ Len(y) = 1 /\ y[1] = x
      OBVIOUS
    <2> HIDE DEF y
    <2>2. /\ Len(a \o y) = Len(a) + Len(y)
          /\ \A j \in 1..(Len(a) + Len(y)) : (a \o y)[j] = IF j <= Len(a) THEN a[j] ELSE y[j - Len(a)]
      BY <1>3, <2>1, ConcatProperties, Zenon
    <2>3. c = a \o y
      BY <1>5 DEF y
    <2>4. Len(c) = o + 1 /\ \A j \in 1..(o + 1) : c[j] = IF j <= o THEN a[j] ELSE y[j - o]
      BY <1>3, <2>1, <2>2, <2>3, Zenon
    <2> QED BY <1>3, <2>1, <2>4
  <1>6. /\ c \o b \in Seq(Mapping) /\ Len(c \o b) = Len(c) + Len(b)
        /\ \A j \in 1..(Len(c) + Len(b)) : (c \o b)[j] = IF j <= Len(c) THEN c[j] ELSE b[j - Len(c)]
    BY <1>4, ConcatProperties, Zenon
  <1>7. Len(c) + Len(b) = n
    BY <1>1, <1>4, <1>10
  <1> HIDE DEF n
  <1>8. ASSUME NEW j \in 1..n, j # o + 1 PROVE (c \o b)[j] = u[j]
    <2>1. CASE j <= o
      BY <1>1, <1>6, <1>10, <1>7, <2>1
    <2>2. CASE j > o + 1
      <3>1. j - (o + 1) \in 1..(n - o - 1) /\ o + 1 + (j - (o + 1)) = j /\ ~(j <= o + 1)
        BY <1>1, <2>2
      <3> QED BY <1>4, <1>6, <1>10, <1>7, <3>1, Zenon
    <2>3. j <= o \/ j > o + 1
      BY <1>1, <1>8
    <2> QED BY <2>1, <2>2, <2>3, Zenon
  <1>9. (c \o b)[o + 1] = x
    BY <1>1, <1>6, <1>10, <1>7
  <1>11. KeptOne(c \o b, u, o, i, lo, hi, x)
    BY <1>2, <1>5, <1>6, <1>7, <1>8, <1>9, Zenon DEF KeptOne, n
  <1> QED BY <1>6, <1>11, Zenon

(* The piece that is kept of a mapping that is not split: it has all of    *)
(* the mapping that is outside the range.                                  *)
Piece(x, m, lo, hi) ==
    /\ m.start <= x.start /\ x.start < x.end /\ x.end <= m.end /\ x.prot = m.prot
    /\ x.end <= lo \/ hi <= x.start
    /\ \A a \in Nat : m.start <= a /\ a < m.end /\ ~(lo <= a /\ a < hi) => x.start <= a /\ a < x.end

(* Cut keeps nothing of a mapping the range covers, and one piece of any   *)
(* other that it does not split.                                           *)
LEMMA CutOnce ==
    ASSUME NEW m \in Mapping, m.start < m.end, NEW lo \in Boundary, NEW hi \in Boundary, lo < hi,
           ~(lo > m.start /\ hi < m.end)
    PROVE  \/ Cut(m, lo, hi) = <<>> /\ lo <= m.start /\ m.end <= hi
           \/ \E x \in Mapping : Cut(m, lo, hi) = <<x>> /\ Piece(x, m, lo, hi)
  <1>1. m.start \in Nat /\ m.end \in Nat /\ lo \in Nat /\ hi \in Nat
    BY Fields, BoundaryIsNat
  <1>2. CASE hi <= m.start \/ lo >= m.end
    <2>1. Cut(m, lo, hi) = <<m>>
      BY <1>2 DEF Cut
    <2>2. Piece(m, m, lo, hi)
      BY <1>1, <1>2 DEF Piece
    <2> QED BY <2>1, <2>2
  <1>3. CASE ~(hi <= m.start \/ lo >= m.end)
    <2>1. CASE lo > m.start
      <3> DEFINE x == [m EXCEPT !.end = lo]
      <3>1. x \in Mapping /\ x.start = m.start /\ x.end = lo /\ x.prot = m.prot
        BY DEF Mapping
      <3>2. Cut(m, lo, hi) = <<x>>
        <4>1. ~(hi < m.end)
          BY <2>1
        <4> QED BY <1>3, <2>1, <4>1 DEF Cut
      <3> HIDE DEF x
      <3>3. Piece(x, m, lo, hi)
        BY <1>1, <1>3, <2>1, <3>1 DEF Piece
      <3> QED BY <3>1, <3>2, <3>3
    <2>2. CASE ~(lo > m.start) /\ hi < m.end
      <3> DEFINE x == [m EXCEPT !.start = hi]
      <3>1. x \in Mapping /\ x.start = hi /\ x.end = m.end /\ x.prot = m.prot
        BY DEF Mapping
      <3>2. Cut(m, lo, hi) = <<x>>
        <4>1. Cut(m, lo, hi) = <<>> \o <<x>>
          BY <1>3, <2>2, Zenon DEF Cut
        <4> QED BY <3>1, <4>1, ConcatEmptySeq
      <3> HIDE DEF x
      <3>3. Piece(x, m, lo, hi)
        BY <1>1, <1>3, <2>2, <3>1 DEF Piece
      <3> QED BY <3>1, <3>2, <3>3
    <2>3. CASE ~(lo > m.start) /\ ~(hi < m.end)
      BY <1>1, <1>3, <2>3 DEF Cut
    <2> QED BY <2>1, <2>2, <2>3
  <1> QED BY <1>2, <1>3

(* The array u after i rounds over ms, with o pieces kept: they are in     *)
(* order, come from the mappings seen so far, and have all of them outside *)
(* the range; the mappings to come are still in their places.              *)
After(i, u, o, ms, lo, hi) ==
    /\ u \in Seq(Mapping) /\ Len(u) = Len(ms) /\ o \in 0..i
    /\ \A j \in (i + 1)..Len(ms) : u[j] = ms[j]
    /\ \A k \in 1..o : \E j \in 1..i : Piece(u[k], ms[j], lo, hi)
    /\ \A k, l \in 1..o : k < l => u[k].end <= u[l].start
    /\ \A j \in 1..i, a \in Nat :
          ms[j].start <= a /\ a < ms[j].end /\ ~(lo <= a /\ a < hi) =>
             \E k \in 1..o : u[k].start <= a /\ a < u[k].end /\ u[k].prot = ms[j].prot

(* A round without a split keeps that.                                     *)
LEMMA AfterStep ==
    ASSUME NEW ms, Proper(ms), NEW lo \in Boundary, NEW hi \in Boundary, lo < hi,
           NEW i \in 1..Len(ms), ~(lo > ms[i].start /\ hi < ms[i].end),
           NEW u, NEW o, After(i - 1, u, o, ms, lo, hi)
    PROVE  \E v, p : /\ KeepPieces([array |-> u, out |-> o], i, lo, hi) = [array |-> v, out |-> p]
                     /\ After(i, v, p, ms, lo, hi)
  <1> DEFINE s == [array |-> u, out |-> o]
             n == Len(ms)
             m == ms[i]
  <1>1. /\ ms \in Seq(Mapping) /\ n \in Nat /\ m \in Mapping /\ m.start < m.end /\ i \in 1..n /\ i \in Nat
        /\ lo \in Nat /\ hi \in Nat
    BY BoundaryIsNat DEF Proper, InOrder
  <1>2. /\ u \in Seq(Mapping) /\ Len(u) = n /\ o \in 0..(i - 1)
        /\ \A j \in i..n : u[j] = ms[j]
        /\ \A k \in 1..o : \E j \in 1..(i - 1) : Piece(u[k], ms[j], lo, hi)
        /\ \A k, l \in 1..o : k < l => u[k].end <= u[l].start
        /\ \A j \in 1..(i - 1), a \in Nat :
              ms[j].start <= a /\ a < ms[j].end /\ ~(lo <= a /\ a < hi) =>
                 \E k \in 1..o : u[k].start <= a /\ a < u[k].end /\ u[k].prot = ms[j].prot
    <2>1. (i - 1) + 1 = i
      BY <1>1
    <2> QED BY <2>1, Zenon DEF After
  <1>3. u[i] = m /\ o \in 0..n /\ o < n /\ o < i /\ o \in Nat /\ u \in Seq(Mapping) /\ Len(u) = n
    BY <1>1, <1>2
  <1> HIDE DEF n, m
  <1>4. CASE Cut(m, lo, hi) = <<>> /\ lo <= m.start /\ m.end <= hi
    <2>1. KeepPieces(s, i, lo, hi) = s
      BY <1>3, <1>4, KeepNone
    <2>2. o \in 0..i /\ \A j \in (i + 1)..n : u[j] = ms[j]
      BY <1>1, <1>2
    <2>3. \A k \in 1..o : \E j \in 1..i : Piece(u[k], ms[j], lo, hi)
      BY <1>1, <1>2
    <2>4. ASSUME NEW j \in 1..i, NEW a \in Nat, ms[j].start <= a, a < ms[j].end, ~(lo <= a /\ a < hi)
          PROVE  \E k \in 1..o : u[k].start <= a /\ a < u[k].end /\ u[k].prot = ms[j].prot
      <3>1. j # i
        BY <1>1, <1>4, <2>4, Fields DEF m
      <3>2. j \in 1..(i - 1)
        BY <1>1, <3>1
      <3> QED BY <1>2, <2>4, <3>2, Zenon
    <2>5. After(i, u, o, ms, lo, hi)
      BY <1>2, <2>2, <2>3, <2>4, Zenon DEF After, n
    <2> QED BY <2>1, <2>5
  <1>5. ASSUME NEW x \in Mapping, Cut(m, lo, hi) = <<x>>, Piece(x, m, lo, hi)
        PROVE  \E v, p : KeepPieces(s, i, lo, hi) = [array |-> v, out |-> p] /\ After(i, v, p, ms, lo, hi)
    <2>1. PICK v \in Seq(Mapping) :
              /\ KeepPieces(s, i, lo, hi) = [array |-> v, out |-> o + 1]
              /\ Len(v) = n /\ v[o + 1] = x
              /\ \A j \in 1..n : j # o + 1 => v[j] = u[j]
      <3>1. Cut(u[i], lo, hi) = <<x>> /\ o < Len(u)
        BY <1>3, <1>5
      <3>2. \E v \in Seq(Mapping) : KeptOne(v, u, o, i, lo, hi, x)
        BY <1>3, <3>1, KeepOne, Zenon
      <3> QED BY <1>3, <3>2, Zenon DEF KeptOne, s
    <2>2. o + 1 \in 0..i /\ \A j \in (i + 1)..n : v[j] = ms[j]
      <3>1. o + 1 \in 0..i /\ \A j \in (i + 1)..n : j \in 1..n /\ j # o + 1 /\ j \in i..n
        BY <1>1, <1>3
      <3>2. \A j \in i..n : u[j] = ms[j]
        BY <1>2, Zenon
      <3> QED BY <2>1, <3>1, <3>2, Zenon
    <2>3. \A k \in 1..o : v[k] = u[k] /\ k \in 1..(o + 1)
      BY <1>1, <1>3, <2>1
    <2>4. \A k \in 1..(o + 1) : k = o + 1 \/ k \in 1..o
      BY <1>3
    <2>5. \A k \in 1..(o + 1) : \E j \in 1..i : Piece(v[k], ms[j], lo, hi)
      <3> TAKE k \in 1..(o + 1)
      <3>1. CASE k = o + 1
        <4>1. i \in 1..i /\ v[k] = x
          BY <1>1, <2>1, <3>1
        <4> QED BY <1>5, <4>1, Zenon DEF m
      <3>2. CASE k \in 1..o
        <4>1. PICK j \in 1..(i - 1) : Piece(u[k], ms[j], lo, hi)
          BY <1>2, <3>2
        <4>2. j \in 1..i
          BY <1>1
        <4> QED BY <2>3, <3>2, <4>1, <4>2
      <3> QED BY <2>4, <3>1, <3>2
    <2>6. ASSUME NEW k \in 1..(o + 1), NEW l \in 1..(o + 1), k < l PROVE v[k].end <= v[l].start
      <3>1. k \in 1..o
        BY <1>3, <2>6
      <3>2. CASE l \in 1..o
        BY <1>2, <2>3, <2>6, <3>1, <3>2, Zenon
      <3>3. CASE l = o + 1
        <4>1. PICK j \in 1..(i - 1) : Piece(u[k], ms[j], lo, hi)
          BY <1>2, <3>1
        <4>2. j \in 1..n /\ j < i /\ k \in 1..n
          BY <1>1, <1>3, <3>1, SMTT(20), SMTT(30), Zenon
        <4>3. ms[j].end <= m.start /\ ms[j] \in Mapping /\ u[k] \in Mapping
          BY <1>1, <1>2, <4>2, SMTT(20), SMTT(30), Zenon DEF Proper, InOrder, m, n
        <4>4. u[k].end <= ms[j].end /\ m.start <= x.start
          BY <1>5, <4>1, SMTT(20), SMTT(30), Zenon DEF Piece
        <4>5. v[k] = u[k] /\ v[l] = x
          BY <2>1, <2>3, <3>1, <3>3
        <4>6. {u[k].end, ms[j].end, m.start, x.start} \subseteq Nat
          BY <1>1, <4>3, Fields, SMTT(20), SMTT(30), Zenon
        <4>7. u[k].end <= x.start
          <5> HIDE DEF m
          <5>1. \A c, d, e, f \in Nat : c <= d /\ d <= e /\ e <= f => c <= f
            OBVIOUS
          <5> QED BY <4>3, <4>4, <4>6, <5>1, Zenon
        <4> QED BY <4>5, <4>7
      <3> QED BY <2>4, <3>2, <3>3
    <2>7. ASSUME NEW j \in 1..i, NEW a \in Nat, ms[j].start <= a, a < ms[j].end, ~(lo <= a /\ a < hi)
          PROVE  \E k \in 1..(o + 1) : v[k].start <= a /\ a < v[k].end /\ v[k].prot = ms[j].prot
      <3>1. CASE j = i
        <4>1. x.start <= a /\ a < x.end /\ x.prot = ms[j].prot
          BY <1>5, <2>7, <3>1 DEF Piece, m
        <4>2. o + 1 \in 1..(o + 1)
          BY <1>3
        <4> QED BY <2>1, <4>1, <4>2, SMTT(20), SMTT(30), Zenon
      <3>2. CASE j # i
        <4>1. j \in 1..(i - 1)
          BY <1>1, <3>2
        <4>2. PICK k \in 1..o : u[k].start <= a /\ a < u[k].end /\ u[k].prot = ms[j].prot
          BY <1>2, <2>7, <4>1, Zenon
        <4> QED BY <2>3, <4>2
      <3> QED BY <3>1, <3>2
    <2>8. After(i, v, o + 1, ms, lo, hi)
      BY <2>1, <2>2, <2>5, <2>6, <2>7, Zenon DEF After, n
    <2> QED BY <2>1, <2>8
  <1> QED BY <1>1, <1>4, <1>5, CutOnce, Zenon DEF m

CanRemove(ms, lo, size) ==
    /\ Proper(ms) /\ lo \in Boundary /\ lo + size \in Boundary /\ lo \in Nat /\ size \in Nat \ {0}
    /\ ~Splits(ms, lo, size)

(* Remove leaves what is outside the range as it was, and nothing in it,   *)
(* when the range is not inside one mapping.                               *)
LEMMA Removed ==
    ASSUME NEW ms, NEW lo, NEW size, CanRemove(ms, lo, size)
    PROVE  /\ Proper(Remove(ms, lo, size))
           /\ \A a \in Nat : Shows(Remove(ms, lo, size), a) = IF lo <= a /\ a < lo + size THEN {} ELSE Shows(ms, a)
  <1> DEFINE n == Len(ms)
             hi == lo + size
             f == Passes(ms, lo, hi)
             Right(i) == \E u, o : f[i] = [array |-> u, out |-> o] /\ After(i, u, o, ms, lo, hi)
             Bad == {i \in 0..n : ~Right(i)}
  <1>1. /\ Proper(ms) /\ ms \in Seq(Mapping) /\ n \in Nat /\ lo \in Nat /\ hi \in Nat /\ lo < hi
        /\ lo \in Boundary /\ hi \in Boundary
        /\ \A i \in 1..n : ~(lo > ms[i].start /\ hi < ms[i].end)
    BY DEF CanRemove, Proper, Splits
  <1>2. f[0] = [array |-> ms, out |-> 0] /\ \A i \in 1..n : f[i] = KeepPieces(f[i - 1], i, lo, hi)
    BY <1>1, PassesUnfold
  <1>3. Remove(ms, lo, size) = SubSeq(f[n].array, 1, f[n].out)
    BY DEF Remove
  <1> HIDE DEF f, hi, n
  <1>4. Right(0)
    <2>1. After(0, ms, 0, ms, lo, hi)
      BY <1>1, SMTT(20), SMTT(30), Zenon DEF After, n
    <2> QED BY <1>2, <2>1
  <1>5. ASSUME NEW i \in 1..n, Right(i - 1) PROVE Right(i)
    <2>1. PICK u, o : f[i - 1] = [array |-> u, out |-> o] /\ After(i - 1, u, o, ms, lo, hi)
      BY <1>5
    <2>2. f[i] = KeepPieces([array |-> u, out |-> o], i, lo, hi)
      BY <1>2, <2>1
    <2> QED BY <1>1, <2>1, <2>2, AfterStep, SMTT(20), SMTT(30), Zenon DEF n
  <1> HIDE DEF Right
  <1>6. Right(n)
    <2> SUFFICES ASSUME Bad # {} PROVE FALSE
      BY <1>1
    <2>1. Bad \in SUBSET Nat
      BY <1>1
    <2>2. PICK k \in Bad : \A j \in Bad : k <= j
      BY <2>1, Smallest, Zenon
    <2>3. k # 0 /\ k \in 1..n /\ k - 1 \in 0..n /\ k - 1 \notin Bad
      BY <1>1, <1>4, <2>2
    <2> QED BY <1>5, <2>2, <2>3
  <1>7. PICK u, o : f[n] = [array |-> u, out |-> o] /\ After(n, u, o, ms, lo, hi)
    BY <1>6 DEF Right
  <1> DEFINE r == SubSeq(u, 1, o)
  <1>8. /\ u \in Seq(Mapping) /\ Len(u) = n /\ o \in 0..n
        /\ \A k \in 1..o : \E j \in 1..n : Piece(u[k], ms[j], lo, hi)
        /\ \A k, l \in 1..o : k < l => u[k].end <= u[l].start
        /\ \A j \in 1..n, a \in Nat :
              ms[j].start <= a /\ a < ms[j].end /\ ~(lo <= a /\ a < hi) =>
                 \E k \in 1..o : u[k].start <= a /\ a < u[k].end /\ u[k].prot = ms[j].prot
    BY <1>7, Zenon DEF After, n
  <1>9. Remove(ms, lo, size) = r
    <2>1. f[n].array = u /\ f[n].out = o
      <3>1. f[n] = [array |-> u, out |-> o]
        BY <1>7
      <3> QED BY <3>1
    <2> QED BY <1>3, <2>1, Zenon
  <1>10. r \in Seq(Mapping) /\ Len(r) = o /\ \A k \in 1..o : r[k] = u[k] /\ r[k] \in Mapping
    <2>1. u \in Seq(Mapping) /\ o \in 0..Len(u) /\ Len(u) \in Nat
      BY <1>1, <1>8
    <2> QED BY <2>1
  <1> HIDE DEF r
  <1>11. Proper(r)
    <2>1. \A k \in 1..o : r[k].start < r[k].end
      BY <1>8, <1>10 DEF Piece
    <2> QED BY <1>8, <1>10, <2>1 DEF Proper, InOrder
  <1>12. ASSUME NEW a \in Nat PROVE Shows(r, a) = IF lo <= a /\ a < hi THEN {} ELSE Shows(ms, a)
    <2>1. ASSUME NEW k \in 1..o, r[k].start <= a, a < r[k].end
          PROVE  ~(lo <= a /\ a < hi) /\ r[k].prot \in Shows(ms, a)
      <3>1. PICK j \in 1..n : Piece(r[k], ms[j], lo, hi)
        BY <1>8, <1>10
      <3>2. /\ ms[j].start <= r[k].start /\ r[k].end <= ms[j].end /\ r[k].prot = ms[j].prot
            /\ r[k].end <= lo \/ hi <= r[k].start
        BY <3>1 DEF Piece
      <3>3. {ms[j].start, r[k].start, r[k].end, ms[j].end} \subseteq Nat
        <4>1. ms[j] \in Mapping /\ r[k] \in Mapping
          BY <1>1, <1>10 DEF n
        <4> QED BY <4>1, Fields
      <3>4. ms[j].start <= a /\ a < ms[j].end /\ ~(lo <= a /\ a < hi)
        <4>1. lo \in Nat /\ hi \in Nat
          BY <1>1
        <4>2. ms[j].start <= a
          BY <2>1, <3>2, <3>3
        <4>3. a < ms[j].end
          BY <2>1, <3>2, <3>3
        <4>4. ~(lo <= a /\ a < hi)
          BY <2>1, <3>2, <3>3, <4>1
        <4> QED BY <4>2, <4>3, <4>4
      <3>5. ms[j] \in Elems(ms)
        BY DEF Elems, n
      <3> QED BY <3>2, <3>4, <3>5 DEF Shows
    <2>2. ASSUME NEW j \in 1..n, ms[j].start <= a, a < ms[j].end, ~(lo <= a /\ a < hi)
          PROVE  ms[j].prot \in Shows(r, a)
      <3>1. PICK k \in 1..o : r[k].start <= a /\ a < r[k].end /\ r[k].prot = ms[j].prot
        BY <1>8, <1>10, <2>2
      <3> QED BY <1>10, <3>1 DEF Shows, Elems
    <2>3. Shows(r, a) \subseteq (IF lo <= a /\ a < hi THEN {} ELSE Shows(ms, a))
      BY <1>10, <2>1 DEF Shows, Elems
    <2>4. ~(lo <= a /\ a < hi) => Shows(ms, a) \subseteq Shows(r, a)
      <3> SUFFICES ASSUME ~(lo <= a /\ a < hi), NEW p \in Shows(ms, a) PROVE p \in Shows(r, a)
        BY Zenon
      <3>1. PICK j \in 1..n : ms[j].start <= a /\ a < ms[j].end /\ p = ms[j].prot
        BY DEF Shows, Elems, n
      <3> QED BY <2>2, <3>1
    <2> QED BY <2>3, <2>4, Zenon
  <1> QED BY <1>9, <1>11, <1>12 DEF hi

(* The array after i rounds of removing what was added at place k.         *)
Undone(i, u, o, ms, A, k) ==
    /\ u \in Seq(Mapping) /\ Len(u) = Len(A)
    /\ o = IF i <= k THEN i ELSE i - 1
    /\ \A j \in (i + 1)..Len(A) : u[j] = A[j]
    /\ \A j \in 1..o : u[j] = ms[j]

(* To remove the mapping that was just added restores the list: the loop   *)
(* keeps every other mapping whole.                                        *)
LEMMA AddRemove ==
    ASSUME NEW ms, NEW lo, NEW size, NEW prot, NEW name, CanAdd(ms, lo, size, prot, name)
    PROVE  Remove(Add(ms, lo, size, prot, name), lo, size) = ms
  <1> DEFINE n == Len(ms)
             hi == lo + size
             m == Fresh(lo, size, prot, name)
             A == Add(ms, lo, size, prot, name)
             f == Passes(A, lo, hi)
  <1>1. /\ Proper(ms) /\ ms \in Seq(Mapping) /\ n \in Nat /\ lo \in Nat /\ hi \in Nat /\ lo < hi
        /\ m \in Mapping /\ m.start = lo /\ m.end = hi
    BY DEF CanAdd, Proper, Fresh
  <1>2. Proper(A) /\ A \in Seq(Mapping) /\ Len(A) \in Nat
    BY Added DEF Proper
  <1>3. PICK k \in 0..n : /\ A = SubSeq(ms, 1, k) \o <<m>> \o SubSeq(ms, k + 1, n)
                          /\ \A i \in 1..k : ms[i].end <= lo
                          /\ \A i \in (k + 1)..n : hi <= ms[i].start
    BY AddedBetween, ZenonT(60)
  <1> DEFINE Right(i) == \E u, o : f[i] = [array |-> u, out |-> o] /\ Undone(i, u, o, ms, A, k)
             Bad == {i \in 0..(n + 1) : ~Right(i)}
  <1>4. f[0] = [array |-> A, out |-> 0] /\ \A i \in 1..Len(A) : f[i] = KeepPieces(f[i - 1], i, lo, hi)
    BY <1>2, PassesUnfold
  <1>5. Remove(A, lo, size) = SubSeq(f[Len(A)].array, 1, f[Len(A)].out)
    BY SMTT(20), SMTT(30), Zenon DEF Remove
  <1> HIDE DEF f, hi, n, m, A
  <1>6. /\ Len(A) = n + 1 /\ A[k + 1] = m
        /\ \A i \in 1..k : A[i] = ms[i]
        /\ \A i \in (k + 2)..(n + 1) : A[i] = ms[i - 1]
    <2> DEFINE a == SubSeq(ms, 1, k)
               y == <<m>>
               b == SubSeq(ms, k + 1, n)
    <2>1. a \in Seq(Mapping) /\ Len(a) = k /\ \A i \in 1..k : a[i] = ms[i]
      BY <1>1 DEF n
    <2>2. b \in Seq(Mapping) /\ Len(b) = n - k /\ \A i \in 1..(n - k) : b[i] = ms[k + i]
      BY <1>1 DEF n
    <2>3. y \in Seq(Mapping) /\ Len(y) = 1 /\ y[1] = m
      BY <1>1
    <2>4. A = (a \o y) \o b
      BY <1>3
    <2> HIDE DEF a, y, b
    <2>5. /\ a \o y \in Seq(Mapping) /\ Len(a \o y) = Len(a) + Len(y)
          /\ \A j \in 1..(Len(a) + Len(y)) : (a \o y)[j] = IF j <= Len(a) THEN a[j] ELSE y[j - Len(a)]
      BY <2>1, <2>3, ConcatProperties, Zenon
    <2>6. PICK c \in Seq(Mapping) : c = a \o y
      BY <2>5, Zenon
    <2>7. /\ Len(c) = Len(a) + Len(y)
          /\ \A j \in 1..(Len(a) + Len(y)) : c[j] = IF j <= Len(a) THEN a[j] ELSE y[j - Len(a)]
      BY <2>5, <2>6, Zenon
    <2>8. Len(c) = k + 1 /\ c[k + 1] = m /\ \A i \in 1..k : c[i] = ms[i]
      BY <2>1, <2>3, <2>7
    <2>9. /\ Len(c \o b) = Len(c) + Len(b)
          /\ \A j \in 1..(Len(c) + Len(b)) : (c \o b)[j] = IF j <= Len(c) THEN c[j] ELSE b[j - Len(c)]
      BY <2>2, ConcatProperties, Zenon
    <2>10. A = c \o b
      BY <2>4, <2>6, Zenon
    <2>11. Len(A) = Len(c) + Len(b) /\ \A j \in 1..(Len(c) + Len(b)) : A[j] = IF j <= Len(c) THEN c[j] ELSE b[j - Len(c)]
      BY <2>9, <2>10, Zenon
    <2>12. Len(c) + Len(b) = n + 1
      BY <1>1, <2>2, <2>8
    <2>13. ASSUME NEW i \in (k + 2)..(n + 1) PROVE A[i] = ms[i - 1]
      <3>1. i \in 1..(n + 1) /\ ~(i <= k + 1) /\ i - (k + 1) \in 1..(n - k) /\ k + (i - (k + 1)) = i - 1
        BY <1>1
      <3>2. A[i] = b[i - (k + 1)]
        BY <2>8, <2>11, <2>12, <3>1
      <3> QED BY <2>2, <3>1, <3>2
    <2> QED BY <1>1, <2>8, <2>11, <2>12, <2>13, SMTT(20), SMTT(30), Zenon
  <1>7. ASSUME NEW i \in 1..(n + 1) PROVE Cut(A[i], lo, hi) = IF i = k + 1 THEN <<>> ELSE <<A[i]>>
    <2>1. CASE i = k + 1
      <3>1. A[i] = m /\ ~(hi <= m.start \/ lo >= m.end) /\ ~(lo > m.start) /\ ~(hi < m.end)
        BY <1>1, <1>6, <2>1
      <3>2. <<>> \o <<>> = <<>>
        OBVIOUS
      <3> QED BY <2>1, <3>1, <3>2 DEF Cut
    <2>2. CASE i # k + 1
      <3>1. lo >= A[i].end \/ hi <= A[i].start
        <4>1. CASE i \in 1..k
          <5>1. ms[i].end \in Nat
            BY <1>1, <4>1, Fields DEF n
          <5> QED BY <1>1, <1>3, <1>6, <4>1, <5>1
        <4>2. CASE i \in (k + 2)..(n + 1)
          <5>1. i - 1 \in (k + 1)..n
            BY <1>1, <4>2
          <5> QED BY <1>3, <1>6, <4>2, <5>1, Zenon
        <4>3. i \in 1..k \/ i \in (k + 2)..(n + 1)
          BY <1>1, <2>2
        <4> QED BY <4>1, <4>2, <4>3, SMTT(20), SMTT(30), Zenon
      <3> QED BY <2>2, <3>1 DEF Cut
    <2> QED BY <2>1, <2>2
  <1>8. Right(0)
    <2>1. Undone(0, A, 0, ms, A, k)
      BY <1>2 DEF Undone
    <2> QED BY <1>4, <2>1
  <1>9. ASSUME NEW i \in 1..(n + 1), Right(i - 1) PROVE Right(i)
    <2>1. PICK u, o : f[i - 1] = [array |-> u, out |-> o] /\ Undone(i - 1, u, o, ms, A, k)
      BY <1>9, SMTT(20), SMTT(30), Zenon
    <2>2. f[i] = KeepPieces([array |-> u, out |-> o], i, lo, hi)
      BY <1>4, <1>6, <2>1
    <2>3. /\ u \in Seq(Mapping) /\ Len(u) = n + 1
          /\ o = IF i - 1 <= k THEN i - 1 ELSE i - 2
          /\ \A j \in i..(n + 1) : u[j] = A[j]
          /\ \A j \in 1..o : u[j] = ms[j]
      <3>1. (i - 1) + 1 = i /\ (i - 1) - 1 = i - 2
        BY <1>1
      <3> QED BY <1>6, <2>1, <3>1, Zenon DEF Undone
    <2>4. u[i] = A[i] /\ A[i] \in Mapping /\ o \in Nat /\ o < n + 1
      BY <1>1, <1>2, <1>6, <2>3, SMTT(20), SMTT(30), Zenon
    <2>5. CASE i = k + 1
      <3>1. Cut(A[i], lo, hi) = <<>>
        BY <1>7, <2>5, Zenon
      <3>1a. Cut(u[i], lo, hi) = <<>> /\ o \in 0..Len(u)
        BY <1>1, <2>3, <2>4, <3>1, SMTT(20), SMTT(30), Zenon
      <3>2. f[i] = [array |-> u, out |-> o]
        BY <2>2, <2>3, <3>1a, KeepNone
      <3>3. Undone(i, u, o, ms, A, k)
        <4>1. o = i - 1 /\ ~(i <= k) /\ \A j \in (i + 1)..(n + 1) : j \in i..(n + 1)
          BY <1>1, <2>3, <2>5
        <4> QED BY <1>6, <2>3, <4>1 DEF Undone
      <3> QED BY <3>2, <3>3
    <2>6. CASE i # k + 1
      <3>1. Cut(u[i], lo, hi) = <<A[i]>> /\ o < Len(u)
        BY <1>7, <2>3, <2>4, <2>6, Zenon
      <3>2. PICK v \in Seq(Mapping) : KeptOne(v, u, o, i, lo, hi, A[i])
        BY <2>3, <2>4, <3>1, KeepOne, Zenon
      <3>3. f[i] = [array |-> v, out |-> o + 1]
        BY <2>2, <3>2 DEF KeptOne
      <3>4. /\ Len(v) = n + 1 /\ v[o + 1] = A[i]
            /\ \A j \in 1..(n + 1) : j # o + 1 => v[j] = u[j]
        BY <2>3, <3>2, Zenon DEF KeptOne
      <3>5. /\ o + 1 = IF i <= k THEN i ELSE i - 1
            /\ o + 1 \in 1..i
        BY <1>1, <2>3, <2>6
      <3>6. A[i] = ms[o + 1]
        BY <1>1, <1>6, <2>6, <3>5
      <3>7. \A j \in (i + 1)..(n + 1) : v[j] = A[j]
        BY <1>1, <2>3, <3>4, <3>5
      <3>8. \A j \in 1..(o + 1) : v[j] = ms[j]
        <4> TAKE j \in 1..(o + 1)
        <4>1. CASE j = o + 1
          BY <3>4, <3>6, <4>1
        <4>2. CASE j # o + 1
          BY <1>1, <2>3, <2>4, <3>4, <4>2
        <4> QED BY <4>1, <4>2
      <3>9. Undone(i, v, o + 1, ms, A, k)
        BY <1>6, <3>4, <3>5, <3>7, <3>8, Zenon DEF Undone
      <3> QED BY <3>3, <3>9
    <2> QED BY <2>5, <2>6, SMTT(20), SMTT(30), Zenon
  <1> HIDE DEF Right
  <1>10. Right(n + 1)
    <2> SUFFICES ASSUME Bad # {} PROVE FALSE
      BY <1>1
    <2>1. Bad \in SUBSET Nat
      BY <1>1
    <2>2. PICK j \in Bad : \A l \in Bad : j <= l
      BY <2>1, Smallest, Zenon
    <2>3. j # 0 /\ j \in 1..(n + 1) /\ j - 1 \in 0..(n + 1) /\ j - 1 \notin Bad
      BY <1>1, <1>8, <2>2
    <2> QED BY <1>9, <2>2, <2>3
  <1>11. PICK u, o : f[n + 1] = [array |-> u, out |-> o] /\ Undone(n + 1, u, o, ms, A, k)
    BY <1>10 DEF Right
  <1>12. u \in Seq(Mapping) /\ Len(u) = n + 1 /\ o = n /\ \A j \in 1..n : u[j] = ms[j]
    <2>1. ~(n + 1 <= k) /\ (n + 1) - 1 = n
      BY <1>1
    <2> QED BY <1>6, <1>11, <2>1 DEF Undone
  <1>13. Remove(A, lo, size) = SubSeq(u, 1, n)
    <2>1. f[n + 1].array = u /\ f[n + 1].out = n
      <3>1. f[n + 1] = [array |-> u, out |-> o]
        BY <1>11
      <3> QED BY <1>12, <3>1
    <2> QED BY <1>5, <1>6, <2>1, Zenon
  <1>14. SubSeq(u, 1, n) = ms
    <2>1. /\ SubSeq(u, 1, n) \in Seq(Mapping) /\ Len(SubSeq(u, 1, n)) = n
          /\ \A j \in 1..n : SubSeq(u, 1, n)[j] = u[j]
      BY <1>1, <1>12
    <2> DEFINE w == SubSeq(u, 1, n)
    <2> HIDE DEF w
    <2>2. w \in Seq(Mapping) /\ Len(w) = Len(ms) /\ \A j \in 1..Len(w) : w[j] = ms[j]
      BY <1>12, <2>1 DEF w, n
    <2>3. w = ms
      BY <1>1, <2>2, SeqEqual
    <2> QED BY <2>3 DEF w
  <1> QED BY <1>13, <1>14 DEF A


-----------------------------------------------------------------------------
(* The list lies between two addresses.                                    *)
Within(ms, lo, hi) == \A x \in Elems(ms) : lo <= x.start /\ x.end <= hi

(* A list below another one.                                               *)
LEMMA JoinedWithin ==
    ASSUME NEW u, NEW v, Proper(u), Proper(v), NEW a \in Nat, NEW b \in Nat, NEW c \in Nat,
           a <= b, b <= c, Within(u, a, b), Within(v, b, c)
    PROVE  Proper(u \o v) /\ Elems(u \o v) = Elems(u) \cup Elems(v) /\ Within(u \o v, a, c)
  <1>1. ASSUME NEW w, Proper(w) PROVE \A x \in Elems(w) : x.start \in Nat /\ x.end \in Nat
    <2>1. \A i \in 1..Len(w) : w[i] \in Mapping
      BY <1>1 DEF Proper
    <2> QED BY <2>1, Fields DEF Elems
  <1>2. \A x \in Elems(u), y \in Elems(v) : x.end <= y.start
    BY <1>1 DEF Within
  <1>3. Proper(u \o v) /\ Elems(u \o v) = Elems(u) \cup Elems(v)
    BY <1>2, Joined
  <1>4. \A x \in Elems(u) \cup Elems(v) : a <= x.start /\ x.end <= c
    <2>1. \A x \in Elems(u) : a <= x.start /\ x.end <= c
      BY <1>1 DEF Within
    <2>2. \A x \in Elems(v) : a <= x.start /\ x.end <= c
      BY <1>1 DEF Within
    <2> QED BY <2>1, <2>2
  <1> QED BY <1>3, <1>4 DEF Within

(* The empty list and a list of one.                                       *)
LEMMA ShortLists ==
    /\ Proper(<<>>) /\ Elems(<<>>) = {}
    /\ \A m \in Mapping : m.start < m.end => Proper(<<m>>) /\ Elems(<<m>>) = {m}
  BY DEF Proper, InOrder, Elems

(* What Protect needs.                                                     *)
CanProtect(ms, lo, hi, prot) ==
    /\ Proper(ms) /\ lo \in Boundary /\ hi \in Boundary /\ lo < hi /\ prot \in SUBSET {"r", "w", "x"}
    /\ Covering(ms, lo, hi) # {}

(* Protect cuts one mapping in up to three, and leaves what is outside of  *)
(* the range as it was.                                                    *)
LEMMA Protected ==
    ASSUME NEW ms, NEW lo, NEW hi, NEW prot, CanProtect(ms, lo, hi, prot)
    PROVE  /\ Proper(Protect(ms, lo, hi, prot))
           /\ \A a \in Nat : ~(lo <= a /\ a < hi) => Shows(Protect(ms, lo, hi, prot), a) = Shows(ms, a)
  <1> DEFINE n == Len(ms)
             C == Covering(ms, lo, hi)
             i == CHOOSE k \in C : \A j \in C : k <= j
             m == ms[i]
             l == [m EXCEPT !.end = lo]
             c == [m EXCEPT !.start = lo, !.end = hi, !.prot = prot]
             r == [m EXCEPT !.start = hi]
             u == SubSeq(ms, 1, i - 1)
             x == IF lo > m.start THEN <<l>> ELSE <<>>
             z == IF hi < m.end THEN <<r>> ELSE <<>>
             v == SubSeq(ms, i + 1, n)
  <1>1. Protect(ms, lo, hi, prot) = (((u \o x) \o <<c>>) \o z) \o v
    BY DEF Protect
  <1>2. Proper(ms) /\ ms \in Seq(Mapping) /\ n \in Nat /\ lo \in Nat /\ hi \in Nat /\ lo < hi
    BY BoundaryIsNat DEF CanProtect, Proper
  <1>3. i \in C
    <2>1. C \in SUBSET Nat /\ C # {}
      BY DEF CanProtect, Covering
    <2>2. \E k \in C : \A j \in C : k <= j
      BY <2>1, Smallest
    <2> QED BY <2>2
  <1>4. i \in 1..n /\ lo >= m.start /\ hi <= m.end
    <2> HIDE DEF i
    <2> QED BY <1>3 DEF Covering
  <1> HIDE DEF i
  <1>5. m \in Mapping /\ m.start \in Nat /\ m.end \in Nat /\ m.end <= Max
    BY <1>2, <1>4, Fields
  <1>6. /\ l \in Mapping /\ l.start = m.start /\ l.end = lo /\ l.prot = m.prot
        /\ c \in Mapping /\ c.start = lo /\ c.end = hi
        /\ r \in Mapping /\ r.start = hi /\ r.end = m.end /\ r.prot = m.prot
    BY <1>5, Zenon DEF CanProtect, Mapping
  <1> HIDE DEF m, l, c, r
  <1>7. Proper(u) /\ Elems(u) = {ms[j] : j \in 1..(i - 1)}
    <2>1. 1 \in 1..(n + 1) /\ i - 1 \in (1 - 1)..n
      BY <1>2, <1>4
    <2> QED BY <1>2, <2>1, PartOf
  <1>8. Proper(v) /\ Elems(v) = {ms[j] : j \in (i + 1)..n}
    <2>1. i + 1 \in 1..(n + 1) /\ n \in ((i + 1) - 1)..n
      BY <1>2, <1>4
    <2> QED BY <1>2, <2>1, PartOf, Zenon
  <1>9. /\ Proper(x) /\ Elems(x) = IF lo > m.start THEN {l} ELSE {}
        /\ Proper(z) /\ Elems(z) = IF hi < m.end THEN {r} ELSE {}
        /\ Proper(<<c>>) /\ Elems(<<c>>) = {c}
    BY <1>2, <1>6, ShortLists, Zenon
  <1> HIDE DEF u, x, z, v
  <1>10. Within(u, 0, m.start)
    <2>1. \A j \in 1..(i - 1) : ms[j].start \in Nat /\ ms[j].end <= ms[i].start
      <3> TAKE j \in 1..(i - 1)
      <3>1. j \in 1..n /\ j < i
        BY <1>2, <1>4
      <3> QED BY <1>2, <1>4, <3>1, Fields DEF Proper, InOrder
    <2> QED BY <1>7, <2>1 DEF Within, m
  <1>11. Within(v, m.end, Max)
    <2>1. \A j \in (i + 1)..n : ms[i].end <= ms[j].start /\ ms[j].end <= Max
      <3> TAKE j \in (i + 1)..n
      <3>1. j \in 1..n /\ i < j
        BY <1>2, <1>4
      <3> QED BY <1>2, <1>4, <3>1, Fields DEF Proper, InOrder
    <2> QED BY <1>8, <2>1 DEF Within, m
  <1>12. Within(x, m.start, lo) /\ Within(<<c>>, lo, hi) /\ Within(z, hi, m.end)
    <2>1. Within(x, m.start, lo)
      BY <1>2, <1>5, <1>6, <1>9 DEF Within
    <2>2. Within(<<c>>, lo, hi)
      <3>1. lo <= c.start /\ c.end <= hi
        BY <1>2, <1>6
      <3> QED BY <1>9, <3>1, Zenon DEF Within
    <2>3. Within(z, hi, m.end)
      BY <1>2, <1>5, <1>6, <1>9 DEF Within
    <2> QED BY <2>1, <2>2, <2>3
  <1>13. Proper(u \o x) /\ Elems(u \o x) = Elems(u) \cup Elems(x) /\ Within(u \o x, 0, lo)
    <2>1. 0 \in Nat /\ m.start \in Nat /\ lo \in Nat /\ 0 <= m.start /\ m.start <= lo
      BY <1>2, <1>4, <1>5 DEF m
    <2> QED BY <1>7, <1>9, <1>10, <1>12, <2>1, JoinedWithin, Zenon
  <1> DEFINE t2 == (u \o x) \o <<c>>
             t3 == t2 \o z
             t4 == t3 \o v
  <1>14. Proper(t2) /\ Elems(t2) = Elems(u) \cup Elems(x) \cup {c} /\ Within(t2, 0, hi)
    <2>1. 0 \in Nat /\ lo \in Nat /\ hi \in Nat /\ 0 <= lo /\ lo <= hi
      BY <1>2
    <2>2. Proper(t2) /\ Elems(t2) = Elems(u \o x) \cup Elems(<<c>>) /\ Within(t2, 0, hi)
      BY <1>9, <1>12, <1>13, <2>1, JoinedWithin, Zenon
    <2> QED BY <1>9, <1>13, <2>2, Zenon
  <1> HIDE DEF t2
  <1>15. Proper(t3) /\ Elems(t3) = Elems(u) \cup Elems(x) \cup {c} \cup Elems(z) /\ Within(t3, 0, m.end)
    <2>1. 0 \in Nat /\ hi \in Nat /\ m.end \in Nat /\ 0 <= hi /\ hi <= m.end
      BY <1>2, <1>4, <1>5 DEF m
    <2> QED BY <1>9, <1>12, <1>14, <2>1, JoinedWithin, ZenonT(40)
  <1> HIDE DEF t3
  <1>16. Proper(t4) /\ Elems(t4) = Elems(u) \cup Elems(x) \cup {c} \cup Elems(z) \cup Elems(v)
    <2>1. 0 \in Nat /\ m.end \in Nat /\ Max \in Nat /\ 0 <= m.end /\ m.end <= Max
      BY <1>5, Sizes
    <2> QED BY <1>8, <1>11, <1>15, <2>1, JoinedWithin, Zenon
  <1> HIDE DEF t4
  <1>17. Elems(ms) = Elems(u) \cup {m} \cup Elems(v)
    <2>1. 1..n = (1..(i - 1)) \cup {i} \cup ((i + 1)..n)
      BY <1>2, <1>4
    <2> QED BY <1>7, <1>8, <2>1, Zenon DEF Elems, m
  <1>18. ASSUME NEW a \in Nat, ~(lo <= a /\ a < hi) PROVE Shows(t4, a) = Shows(ms, a)
    <2>1. ASSUME NEW e \in Elems(t4), e.start <= a, a < e.end
          PROVE  \E d \in Elems(ms) : d.start <= a /\ a < d.end /\ d.prot = e.prot
      <3>1. CASE e \in Elems(u) \cup Elems(v)
        BY <1>17, <2>1, <3>1, SMTT(20), SMTT(30), Zenon
      <3>2. CASE e = c
        BY <1>6, <1>18, <2>1, <3>2, SMTT(20), SMTT(30), Zenon
      <3>3. CASE e = l
        BY <1>2, <1>4, <1>5, <1>6, <1>17, <2>1, <3>3, SMTT(20), SMTT(30), Zenon DEF m
      <3>4. CASE e = r
        BY <1>2, <1>4, <1>5, <1>6, <1>17, <2>1, <3>4, SMTT(20), SMTT(30), Zenon DEF m
      <3>5. e \in Elems(x) => e = l
        BY <1>9
      <3>6. e \in Elems(z) => e = r
        BY <1>9
      <3> QED BY <1>16, <3>1, <3>2, <3>3, <3>4, <3>5, <3>6, Zenon
    <2>2. ASSUME NEW d \in Elems(ms), d.start <= a, a < d.end
          PROVE  \E e \in Elems(t4) : e.start <= a /\ a < e.end /\ e.prot = d.prot
      <3>1. CASE d \in Elems(u) \cup Elems(v)
        BY <1>16, <2>2, <3>1
      <3>2. CASE d = m /\ a < lo
        <4>1. l \in Elems(t4)
          BY <1>2, <1>5, <1>9, <1>16, <2>2, <3>2, SMTT(20), SMTT(30), Zenon
        <4> QED BY <1>6, <2>2, <3>2, <4>1
      <3>3. CASE d = m /\ hi <= a
        <4>1. r \in Elems(t4)
          BY <1>2, <1>5, <1>9, <1>16, <2>2, <3>3
        <4> QED BY <1>6, <2>2, <3>3, <4>1
      <3>4. a < lo \/ hi <= a
        BY <1>2, <1>18
      <3> QED BY <1>17, <3>1, <3>2, <3>3, <3>4
    <2> QED BY <2>1, <2>2 DEF Shows
  <1> QED BY <1>1, <1>16, <1>18 DEF t2, t3, t4


-----------------------------------------------------------------------------
(* A mapping of whole pages that fits.                                     *)
LEMMA FreshFits ==
    ASSUME NEW lo \in Boundary, NEW size \in Nat \ {0}, NEW k \in Nat, size = k * Page, lo + size <= Max,
           NEW prot \in SUBSET {"r", "w", "x"}, NEW name \in {"image", "heap", "mmap2"}
    PROVE  lo + size \in Boundary /\ Fresh(lo, size, prot, name) \in Mapping
  <1>1. PICK j \in 0..Pages : lo = j * Page
    BY DEF Boundary
  <1>2. j + k \in Nat /\ lo + size = (j + k) * Page
    BY <1>1, MultiplesAdd, Sizes
  <1>3. lo + size \in Boundary
    BY <1>2, MultipleIsBoundary
  <1> QED BY <1>3 DEF Fresh, Mapping

(* The gap FindHole takes when the hint is not free.                       *)
Ends(ms, i) == {Page} \cup {ms[j].end : j \in 1..(i - 1)}
Cursor(ms, i) == CHOOSE c \in Ends(ms, i) : \A e \in Ends(ms, i) : e <= c
Ceiling(ms, i) == IF i <= Len(ms) THEN ms[i].start ELSE Max
Gaps(ms, size) ==
    {i \in 1..(Len(ms) + 1) : Cursor(ms, i) <= Ceiling(ms, i) /\ size <= Ceiling(ms, i) - Cursor(ms, i)}

(* The cursor is the end of all mappings before it.                        *)
LEMMA CursorIsLast ==
    ASSUME NEW ms, Proper(ms), NEW i \in 1..(Len(ms) + 1)
    PROVE  Cursor(ms, i) \in Boundary /\ \A j \in 1..(i - 1) : ms[j].end <= Cursor(ms, i)
  <1> DEFINE E == Ends(ms, i)
  <1>1. ms \in Seq(Mapping) /\ Len(ms) \in Nat
    BY DEF Proper
  <1>2. \A j \in 1..(i - 1) : j \in 1..Len(ms) /\ ms[j].end \in Boundary /\ ms[j].end \in Nat
    BY <1>1, Fields
  <1>3. Page \in Boundary /\ Page \in Nat
    <2>1. 1 * Page = Page /\ Page <= Max
      BY Sizes, TimesOrder
    <2> QED BY <2>1, Sizes, MultipleIsBoundary, Zenon
  <1>4. \A j \in 1..(i - 1) : ms[j].end <= ms[i - 1].end
    <2> TAKE j \in 1..(i - 1)
    <2>1. CASE j = i - 1
      BY <1>2, <2>1
    <2>2. CASE j # i - 1
      <3>1. i - 1 \in 1..(i - 1) /\ j < i - 1 /\ j \in 1..Len(ms) /\ i - 1 \in 1..Len(ms)
        BY <1>1, <2>2, SMTT(20), SMTT(30), Zenon
      <3>2. ms[j].end <= ms[i - 1].start /\ ms[i - 1].start < ms[i - 1].end
        BY <3>1 DEF Proper, InOrder
      <3>3. ms[i - 1].start \in Nat /\ ms[i - 1].end \in Nat /\ ms[j].end \in Nat
        BY <1>1, <3>1, Fields
      <3> QED BY <3>2, <3>3, SMTT(30)
    <2> QED BY <2>1, <2>2
  <1>5. \E c \in E : \A e \in E : e <= c
    <2>1. CASE i > 1 /\ ms[i - 1].end > Page
      <3>1. i - 1 \in 1..(i - 1)
        BY <1>1, <2>1
      <3>2. ms[i - 1].end \in E /\ \A e \in E : e <= ms[i - 1].end
        BY <1>2, <1>3, <1>4, <2>1, <3>1 DEF Ends
      <3> QED BY <3>2
    <2>2. CASE ~(i > 1 /\ ms[i - 1].end > Page)
      <3>1. \A j \in 1..(i - 1) : ms[j].end <= Page
        <4> TAKE j \in 1..(i - 1)
        <4>1. i > 1 /\ i - 1 \in 1..(i - 1)
          BY <1>1
        <4>2. ms[i - 1].end \in Nat /\ ms[j].end \in Nat /\ ms[j].end <= ms[i - 1].end
          BY <1>2, <1>4, <4>1
        <4> QED BY <1>3, <2>2, <4>1, <4>2
      <3> QED BY <1>3, <3>1 DEF Ends
    <2> QED BY <2>1, <2>2
  <1>6. Cursor(ms, i) \in E /\ \A e \in E : e <= Cursor(ms, i)
    BY <1>5 DEF Cursor
  <1> QED BY <1>2, <1>3, <1>6 DEF Ends

(* So a gap has room between the mappings before and behind it.            *)
LEMMA GapIsFree ==
    ASSUME NEW ms, Proper(ms), NEW size \in Nat \ {0}, NEW i \in Gaps(ms, size)
    PROVE  /\ Cursor(ms, i) \in Boundary /\ Cursor(ms, i) + size <= Max
           /\ isFree(ms, Cursor(ms, i), Cursor(ms, i) + size)
  <1> DEFINE c == Cursor(ms, i)
             t == Ceiling(ms, i)
  <1>1. ms \in Seq(Mapping) /\ Len(ms) \in Nat /\ i \in 1..(Len(ms) + 1) /\ c <= t /\ size <= t - c
    BY DEF Proper, Gaps
  <1>2. c \in Boundary /\ \A j \in 1..(i - 1) : ms[j].end <= c
    BY <1>1, CursorIsLast
  <1>3. c \in Nat
    BY <1>2, BoundaryIsNat, SMTT(20), SMTT(30), Zenon
  <1>4. t \in Nat /\ t <= Max /\ \A j \in 1..Len(ms) : j >= i => t <= ms[j].start
    <2>1. CASE i <= Len(ms)
      <3>1. i \in 1..Len(ms) /\ t = ms[i].start
        BY <1>1, <2>1 DEF Ceiling
      <3>2. t \in Nat /\ t <= Max
        BY <1>1, <3>1, Fields
      <3>3. ASSUME NEW j \in 1..Len(ms), j >= i PROVE ms[i].start <= ms[j].start
        <4>1. CASE j = i
          BY <3>1, <3>2, <4>1
        <4>2. CASE j > i
          <5>1. ms[i].start < ms[i].end /\ ms[i].end <= ms[j].start
            BY <3>1, <4>2, SMTT(20), SMTT(30), Zenon DEF Proper, InOrder
          <5>2. ms[i].start \in Nat /\ ms[i].end \in Nat /\ ms[j].start \in Nat
            BY <1>1, <3>1, Fields, SMTT(20), SMTT(30), Zenon
          <5> QED BY <5>1, <5>2
        <4> QED BY <1>1, <3>3, <4>1, <4>2
      <3> QED BY <3>1, <3>2, <3>3
    <2>2. CASE ~(i <= Len(ms))
      <3>1. t = Max /\ \A j \in 1..Len(ms) : ~(j >= i)
        BY <1>1, <2>2 DEF Ceiling
      <3> QED BY <3>1, Sizes
    <2> QED BY <2>1, <2>2
  <1> HIDE DEF c, t
  <1>5. c + size <= t /\ c + size <= Max
    BY <1>1, <1>3, <1>4, Sizes, SMTT(20), SMTT(30), Zenon
  <1>6. isFree(ms, c, c + size)
    <2> SUFFICES ASSUME NEW j \in 1..Len(ms) PROVE ~(c < ms[j].end /\ c + size > ms[j].start)
      BY DEF isFree
    <2>1. ms[j].start \in Nat /\ ms[j].end \in Nat
      BY <1>1, Fields
    <2>2. j \in 1..(i - 1) \/ j >= i
      BY <1>1
    <2> QED BY <1>2, <1>3, <1>4, <1>5, <2>1, <2>2, SMTT(20), SMTT(30), Zenon
  <1> QED BY <1>2, <1>5, <1>6 DEF c


(* FindHole returns the hint, rounded down, or a gap.                      *)
LEMMA HoleCases ==
    ASSUME NEW ms, NEW size, NEW next, FindHole(ms, size, next) # 0
    PROVE  /\ ~(size > Max)
           /\ LET h == FindHole(ms, size, next)
                  c == AlignDown(IF next < Page THEN Page ELSE next)
                  G == Gaps(ms, size)
              IN  \/ h = c /\ Fits(c, size) /\ isFree(ms, c, c + size)
                  \/ G # {} /\ h = Cursor(ms, CHOOSE i \in G : \A j \in G : i <= j)
  BY Zenon DEF FindHole, Gaps, Cursor, Ceiling, Ends

(* Where MapAnonymous puts a mapping it can be added.                      *)
LEMMA Placed ==
    ASSUME NEW ms, Proper(ms), NEW a \in Nat, a # 0 => Aligned(a),
           NEW size \in Nat \ {0}, size <= Max => \E k \in Nat : size = k * Page,
           NEW next \in Nat, Place(ms, a, size, next) # 0,
           NEW prot \in SUBSET {"r", "w", "x"}, NEW name \in {"image", "heap", "mmap2"}
    PROVE  CanAdd(ms, Place(ms, a, size, next), size, prot, name)
  <1> DEFINE at == Place(ms, a, size, next)
  <1>1. at \in Boundary /\ at + size <= Max /\ isFree(ms, at, at + size)
    <2>1. CASE a # 0
      <3>1. at = a /\ Fits(a, size) /\ isFree(ms, a, a + size)
        BY <2>1 DEF Place
      <3>2. a <= Max /\ a + size <= Max
        BY <3>1, Sizes, SMTT(20), SMTT(30), Zenon DEF Fits
      <3> QED BY <2>1, <3>1, <3>2, AlignedIsBoundary, SMTT(20), SMTT(30), Zenon
    <2>2. CASE a = 0
      <3>1. at = FindHole(ms, size, next)
        BY <2>2 DEF Place
      <3> DEFINE c == AlignDown(IF next < Page THEN Page ELSE next)
                 G == Gaps(ms, size)
                 i == CHOOSE k \in G : \A j \in G : k <= j
      <3>2. \/ at = c /\ Fits(c, size) /\ isFree(ms, c, c + size)
            \/ G # {} /\ at = Cursor(ms, i)
        BY <3>1, HoleCases
      <3> HIDE DEF at
      <3>3. CASE at = c /\ Fits(c, size) /\ isFree(ms, c, c + size)
        <4> DEFINE v == IF next < Page THEN Page ELSE next
        <4>1. v \in Nat
          BY Sizes
        <4> HIDE DEF v
        <4>2. v \div Page \in Nat /\ AlignDown(v) = (v \div Page) * Page /\ AlignDown(v) \in Nat
          BY <4>1, RoundDown
        <4>3. AlignDown(v) <= Max /\ AlignDown(v) + size <= Max
          BY <3>3, <4>2, Sizes DEF Fits, v
        <4>4. AlignDown(v) \in Boundary
          BY <4>2, <4>3, MultipleIsBoundary
        <4> QED BY <3>3, <4>3, <4>4 DEF v
      <3>4. CASE G # {} /\ at = Cursor(ms, i)
        <4>1. G \in SUBSET Nat
          BY DEF Gaps, Proper
        <4>2. \E k \in G : \A j \in G : k <= j
          BY <3>4, <4>1, Smallest
        <4>3. i \in G
          BY <4>2
        <4> HIDE DEF i
        <4> QED BY <3>4, <4>3, GapIsFree
      <3> QED BY <3>2, <3>3, <3>4
    <2> QED BY <2>1, <2>2
  <1> HIDE DEF at
  <1>2. at \in Nat /\ size <= Max
    <2>1. at \in Nat
      BY <1>1, BoundaryIsNat
    <2> QED BY <1>1, <2>1, Sizes
  <1>3. Fresh(at, size, prot, name) \in Mapping
    <2>1. PICK k \in Nat : size = k * Page
      BY <1>2
    <2> QED BY <1>1, <2>1, FreshFits
  <1>4. CanAdd(ms, at, size, prot, name)
    BY <1>1, <1>2, <1>3, SMTT(20), SMTT(30), Zenon DEF CanAdd
  <1> QED BY <1>4 DEF at

(* The mapping the guest named.                                            *)
LEMMA HeldBy ==
    ASSUME NEW ms, Proper(ms), NEW a, Holding(ms, a) # {}
    PROVE  MappingAt(ms, a) \in Mapping /\ MappingAt(ms, a) \in Elems(ms)
           /\ MappingAt(ms, a).start <= a /\ a < MappingAt(ms, a).end
  <1> DEFINE H == Holding(ms, a)
             i == CHOOSE k \in H : \A j \in H : k <= j
  <1>1. H \in SUBSET Nat /\ H # {}
    BY DEF Holding, Proper
  <1>2. i \in H
    <2>1. \E k \in H : \A j \in H : k <= j
      BY <1>1, Smallest
    <2> QED BY <2>1
  <1>3. MappingAt(ms, a) = ms[i]
    BY DEF MappingAt
  <1> HIDE DEF i
  <1>4. i \in 1..Len(ms) /\ a >= ms[i].start /\ a < ms[i].end
    BY <1>2 DEF Holding
  <1>5. ms[i] \in Mapping
    BY <1>4 DEF Proper
  <1> QED BY <1>3, <1>4, <1>5 DEF Elems

(* An added mapping shows nowhere but in its range.                        *)
LEMMA AddShows ==
    ASSUME NEW ms, NEW lo, NEW size, NEW prot, NEW name, CanAdd(ms, lo, size, prot, name),
           NEW a \in Nat, ~(lo <= a /\ a < lo + size)
    PROVE  Shows(Add(ms, lo, size, prot, name), a) = Shows(ms, a)
  <1> DEFINE m == Fresh(lo, size, prot, name)
             A == Add(ms, lo, size, prot, name)
  <1>1. Elems(A) = Elems(ms) \cup {m}
    BY Added
  <1>2. ~(m.start <= a /\ a < m.end)
    BY DEF Fresh
  <1> HIDE DEF m, A
  <1>3. {x \in Elems(A) : x.start <= a /\ a < x.end} = {x \in Elems(ms) : x.start <= a /\ a < x.end}
    BY <1>1, <1>2
  <1>4. Shows(A, a) = Shows(ms, a)
    BY <1>3 DEF Shows
  <1> QED BY <1>4 DEF A


-----------------------------------------------------------------------------
(* The inductive invariant: the list is in order and made of whole pages,  *)
(* and the break has not been moved out of the address space.              *)
MemoryInv ==
    /\ Proper(maps)
    /\ mem \in [PageNo -> Content]
    /\ hint \in Nat /\ brk \in 1..Max /\ heapEnd \in Nat

FailureStep == ~call'.ok => UNCHANGED <<maps, mem, brk, heapEnd>>

BytesStep ==
    LET c == call' IN
    /\ \A q \in PageNo \ c.touched : View(maps', q) = View(maps, q) /\ mem'[q] = mem[q]
    /\ \A k \in 0..(c.new - 1) : mem'[c.to + k] = IF k < c.old THEN mem[c.from + k] ELSE "zero"
    /\ \A k \in 0..(c.old - 1) : c.from + k \notin c.to..(c.to + c.new - 1) => View(maps', c.from + k) = {}

(* What is shown of every step.                                            *)
Good == MemoryInv' /\ FailureStep /\ BytesStep

(* The pages outside S show and hold what they did.                        *)
KeptOutside(S) == \A q \in PageNo \ S : Shows(maps', q * Page) = Shows(maps, q * Page) /\ mem'[q] = mem[q]

(* The number of a page from its address.                                  *)
LEMMA PageNumber ==
    ASSUME NEW k \in Nat
    PROVE  (k * Page) \div Page = k
  <1> DEFINE v == k * Page
             d == v \div Page
  <1>1. v \in Nat /\ Page \in Nat \ {0} /\ Page \in Nat
    BY Sizes
  <1> HIDE DEF v
  <1>2. d \in Nat /\ v % Page \in 0..(Page - 1) /\ v = Page * d + (v % Page)
    BY <1>1, DivMod, Zenon
  <1> HIDE DEF d
  <1>3. d * Page <= v /\ v < (d + 1) * Page
    BY <1>1, <1>2
  <1>4. k < d + 1
    BY <1>1, <1>2, <1>3, FactorOrder DEF v
  <1>5. ~(k < d)
    <2> SUFFICES ASSUME k + 1 <= d PROVE FALSE
      BY <1>2
    <2>1. (k + 1) * Page <= d * Page
      BY <1>1, <1>2, TimesOrder
    <2>2. (k + 1) * Page = v + Page
      BY <1>1 DEF v
    <2>3. d * Page \in Nat
      BY <1>1, <1>2
    <2> QED BY <1>1, <1>3, <2>1, <2>2, <2>3
  <1> QED BY <1>2, <1>4, <1>5 DEF d, v

(* The pages between two page boundaries.                                  *)
LEMMA PagesBetween ==
    ASSUME NEW i \in Nat, NEW j \in Nat, NEW q \in PageNo
    PROVE  q \in PagesIn(i * Page, j * Page) <=> i <= q /\ q < j
  <1>1. q \in Nat /\ Page \in Nat /\ Page > 0
    BY Sizes DEF PageNo
  <1>2. i <= q <=> i * Page <= q * Page
    <2>1. ~(i <= q) => q * Page < i * Page
      <3>1. ASSUME q + 1 <= i PROVE q * Page < i * Page
        <4>1. (q + 1) * Page <= i * Page
          BY <1>1, <3>1, TimesOrder
        <4>2. (q + 1) * Page = q * Page + Page /\ q * Page \in Nat /\ i * Page \in Nat
          BY <1>1
        <4> QED BY <1>1, <4>1, <4>2
      <3> QED BY <1>1, <3>1
    <2>2. q * Page \in Nat /\ i * Page \in Nat
      BY <1>1
    <2> QED BY <1>1, <2>1, <2>2, TimesOrder
  <1>3. q < j <=> q * Page < j * Page
    <2>1. ASSUME q < j PROVE q * Page < j * Page
      <3>1. (q + 1) * Page <= j * Page
        BY <1>1, <2>1, TimesOrder
      <3>2. (q + 1) * Page = q * Page + Page /\ q * Page \in Nat /\ j * Page \in Nat
        BY <1>1
      <3> QED BY <1>1, <3>1, <3>2
    <2> QED BY <1>1, <2>1, FactorOrder
  <1> QED BY <1>2, <1>3 DEF PagesIn

(* A call that fails and leaves the list is good.                          *)
LEMMA FailedWell ==
    ASSUME MemoryInv, FailsWith(maps), hint' \in Nat
    PROVE  Good
  <1>1. /\ call'.ok = FALSE /\ call'.touched = {} /\ call'.old = 0 /\ call'.new = 0
        /\ maps' = maps /\ mem' = mem /\ brk' = brk /\ heapEnd' = heapEnd
    BY DEF FailsWith, NoCall
  <1>2. BytesStep
    BY <1>1 DEF BytesStep
  <1> QED BY <1>1, <1>2 DEF Good, FailureStep, MemoryInv

(* So is one that succeeds and changes only the pages it tells of ...      *)
LEMMA DoneWell ==
    ASSUME NEW lo, NEW hi, NEW at, NEW size, Did(lo, hi, at, size), MemoryInv',
           KeptOutside(PagesIn(lo, hi) \cup PagesIn(at, at + size))
    PROVE  Good
  <1>1. /\ call'.ok = TRUE /\ call'.touched = PagesIn(lo, hi) \cup PagesIn(at, at + size)
        /\ call'.old = 0 /\ call'.new = 0
    BY DEF Did, NoCall
  <1>2. \A q \in PageNo \ call'.touched : View(maps', q) = View(maps, q) /\ mem'[q] = mem[q]
    BY <1>1, ViewIsShows DEF KeptOutside
  <1>3. BytesStep
    BY <1>1, <1>2 DEF BytesStep
  <1> QED BY <1>1, <1>3 DEF Good, FailureStep

(* ... and an mremap that also keeps the bytes of its mapping.             *)
LEMMA MovedWell ==
    ASSUME NEW i \in Nat, NEW o \in Nat, NEW j \in Nat, NEW n \in Nat,
           NEW lo, NEW hi, NEW at, NEW size,
           lo = i * Page, hi = (i + o) * Page, at = j * Page, size = n * Page,
           Moved(lo, hi, at, size), MemoryInv',
           KeptOutside(PagesIn(lo, hi) \cup PagesIn(at, at + size)),
           \A k \in 0..(n - 1) : mem'[j + k] = IF k < o THEN mem[i + k] ELSE "zero",
           \A k \in 0..(o - 1) : i + k \notin j..(j + n - 1) => Shows(maps', (i + k) * Page) = {}
    PROVE  Good
  <1>1. lo \div Page = i /\ at \div Page = j /\ size \div Page = n
    BY PageNumber
  <1>2. (hi - lo) \div Page = o
    <2>1. hi - lo = o * Page
      <3>1. (i + o) * Page - i * Page = ((i + o) - i) * Page /\ (i + o) - i = o
        BY MultiplesAdd, SMTT(30)
      <3> QED BY <3>1
    <2> QED BY <2>1, PageNumber
  <1>3. /\ call'.ok = TRUE /\ call'.touched = PagesIn(lo, hi) \cup PagesIn(at, at + size)
        /\ call'.from = i /\ call'.old = o /\ call'.to = j /\ call'.new = n
    BY <1>1, <1>2, Zenon DEF Moved
  <1>4. \A q \in PageNo \ call'.touched : View(maps', q) = View(maps, q) /\ mem'[q] = mem[q]
    BY <1>3, ViewIsShows DEF KeptOutside
  <1>5. \A k \in 0..(o - 1) : i + k \notin j..(j + n - 1) => View(maps', i + k) = {}
    BY ViewIsShows
  <1>6. BytesStep
    BY <1>3, <1>4, <1>5 DEF BytesStep
  <1> QED BY <1>3, <1>6 DEF Good, FailureStep


(* A page outside a range.                                                 *)
LEMMA OutsidePages ==
    ASSUME NEW lo, NEW hi, NEW S, NEW q \in PageNo \ (PagesIn(lo, hi) \cup S)
    PROVE  q \in PageNo /\ q * Page \in Nat /\ ~(lo <= q * Page /\ q * Page < hi)
  BY Sizes DEF PageNo, PagesIn

(* A boundary and whole pages behind it.                                   *)
LEMMA BoundaryPlus ==
    ASSUME NEW lo \in Boundary, NEW k \in Nat, lo + k * Page <= Max
    PROVE  lo + k * Page \in Boundary
  <1>1. PICK j \in 0..Pages : lo = j * Page
    BY DEF Boundary
  <1>2. j + k \in Nat /\ lo + k * Page = (j + k) * Page
    BY <1>1, MultiplesAdd, Sizes
  <1> QED BY <1>2, MultipleIsBoundary

(* What calls are made with.                                               *)
LEMMA Arguments ==
    /\ \A a \in Addr : a \in Nat /\ a < Word
    /\ \A n \in Length : n \in Nat /\ n < Word
    /\ \A r \in Breaks : r \in Nat /\ r < Word
    /\ \A p \in Prots : p \in SUBSET {"r", "w", "x"}
  BY Sizes, MemoryAssumption

(* An aligned range of whole pages that fits.                              *)
LEMMA RangeBounds ==
    ASSUME NEW a \in Nat, Aligned(a), NEW size \in Nat, Fits(a, size), NEW k \in Nat, size = k * Page
    PROVE  a \in Boundary /\ a + size \in Boundary /\ a + size <= Max
  <1>1. a <= Max /\ a + size <= Max
    BY Sizes DEF Fits
  <1>2. a \in Boundary
    BY <1>1, AlignedIsBoundary
  <1> QED BY <1>1, <1>2, BoundaryPlus

(* A store changes the contents of its page.                               *)
LEMMA StoreGood ==
    ASSUME MemoryInv, NEW q \in PageNo, Store(q)
    PROVE  Good
  <1>1. /\ mem' = [mem EXCEPT ![q] = "data"] /\ Did(q * Page, (q + 1) * Page, 0, 0)
        /\ maps' = maps /\ hint' = hint /\ brk' = brk /\ heapEnd' = heapEnd
    BY DEF Store, KeepBrk
  <1>2. MemoryInv'
    BY <1>1 DEF MemoryInv, Content
  <1>3. q \in PagesIn(q * Page, (q + 1) * Page)
    <2>1. q \in Nat /\ q + 1 \in Nat /\ q <= q /\ q < q + 1
      BY DEF PageNo
    <2> QED BY <2>1, PagesBetween
  <1>4. KeptOutside(PagesIn(q * Page, (q + 1) * Page) \cup PagesIn(0, 0 + 0))
    BY <1>1, <1>3 DEF KeptOutside, MemoryInv
  <1> QED BY <1>1, <1>2, <1>4, DoneWell

(* Munmap shows nothing in its range and the old mappings outside.         *)
LEMMA MunmapGood ==
    ASSUME MemoryInv, ~MaySplit, NEW a \in Addr, NEW n \in Length, Munmap(a, n)
    PROVE  Good
  <1> DEFINE size == PageLength(n)
  <1>1. a \in Nat /\ n \in Nat
    BY Arguments
  <1>2. size \in Nat /\ \E k \in Nat : size = k * Page
    BY <1>1, LengthIsMultiple
  <1>3. CASE Accepted(n) /\ Aligned(a) /\ size > 0 /\ Fits(a, size)
    <2>1. /\ ~Splits(maps, a, size) /\ maps' = Remove(maps, a, size) /\ Did(a, a + size, a, 0)
          /\ mem' = mem /\ hint' = hint /\ brk' = brk /\ heapEnd' = heapEnd
      BY <1>3 DEF Munmap, KeepBrk
    <2> HIDE DEF size
    <2>2. CanRemove(maps, a, size)
      BY <1>1, <1>2, <1>3, <2>1, RangeBounds DEF CanRemove, MemoryInv
    <2>3. /\ Proper(maps')
          /\ \A b \in Nat : Shows(maps', b) = IF a <= b /\ b < a + size THEN {} ELSE Shows(maps, b)
      BY <2>1, <2>2, Removed
    <2>4. MemoryInv'
      BY <2>1, <2>3 DEF MemoryInv
    <2>5. KeptOutside(PagesIn(a, a + size) \cup PagesIn(a, a + 0))
      BY <2>1, <2>3, OutsidePages DEF KeptOutside
    <2> QED BY <2>1, <2>4, <2>5, DoneWell
  <1>4. CASE ~(Accepted(n) /\ Aligned(a) /\ size > 0 /\ Fits(a, size))
    <2>1. FailsWith(maps) /\ hint' = hint
      BY <1>4 DEF Munmap, Fails
    <2> QED BY <2>1, FailedWell DEF MemoryInv
  <1> QED BY <1>3, <1>4

(* Mprotect changes the protection of its range only.                      *)
LEMMA MprotectGood ==
    ASSUME MemoryInv, NEW a \in Addr, NEW n \in Length, NEW p \in Prots, Mprotect(a, n, p)
    PROVE  Good
  <1> DEFINE size == PageLength(n)
             hi == (a + size) % Word
             accepted == /\ Accepted(n) /\ Aligned(a) /\ size > 0 /\ hi >= a /\ hi <= Max
                         /\ Covering(maps, a, hi) # {}
  <1>1. a \in Nat /\ a < Word /\ n \in Nat /\ p \in SUBSET {"r", "w", "x"}
    BY Arguments
  <1>2. size \in Nat /\ size < Word /\ \E k \in Nat : size = k * Page
    BY <1>1, LengthIsMultiple
  <1>3. CASE accepted
    <2>1. /\ maps' = Protect(maps, a, hi, p) /\ Did(a, hi, a, 0)
          /\ mem' = mem /\ hint' = hint /\ brk' = brk /\ heapEnd' = heapEnd
      BY <1>3 DEF Mprotect, KeepBrk
    <2>2. hi = a + size
      <3> HIDE DEF size
      <3>1. CASE a + size < Word
        BY <1>1, <1>2, <3>1, Sizes
      <3>2. CASE a + size >= Word
        <4>1. hi = (a + size) - Word
          BY <1>1, <1>2, <3>2, Sizes, SMTT(20), SMTT(30), Zenon
        <4> QED BY <1>1, <1>2, <1>3, <4>1, Sizes
      <3> QED BY <1>1, <1>2, <3>1, <3>2, Sizes
    <2> HIDE DEF size, hi
    <2>3. Fits(a, size) /\ Aligned(a) /\ a < hi
      BY <1>1, <1>2, <1>3, <2>2, Sizes, SMTT(20), SMTT(30), Zenon DEF Fits
    <2>4. CanProtect(maps, a, hi, p)
      <3>1. a \in Boundary /\ hi \in Boundary
        BY <1>1, <1>2, <2>2, <2>3, RangeBounds, SMTT(20), SMTT(30), Zenon
      <3> QED BY <1>1, <1>3, <2>3, <3>1, SMTT(20), SMTT(30), Zenon DEF CanProtect, MemoryInv
    <2>5. Proper(maps') /\ \A b \in Nat : ~(a <= b /\ b < hi) => Shows(maps', b) = Shows(maps, b)
      BY <2>1, <2>4, Protected, SMTT(20), SMTT(30), Zenon
    <2>6. MemoryInv'
      BY <2>1, <2>5 DEF MemoryInv
    <2>7. KeptOutside(PagesIn(a, hi) \cup PagesIn(a, a + 0))
      BY <2>1, <2>5, OutsidePages DEF KeptOutside
    <2> QED BY <2>1, <2>6, <2>7, DoneWell
  <1>4. CASE ~accepted
    <2>1. FailsWith(maps) /\ hint' = hint
      BY <1>4 DEF Mprotect, Fails
    <2> QED BY <2>1, FailedWell, SMTT(20), SMTT(30), Zenon DEF MemoryInv
  <1> QED BY <1>3, <1>4


(* Fill changes the pages of its range.                                    *)
LEMMA Filled ==
    ASSUME MemoryInv, NEW lo, NEW size, NEW c \in Content
    PROVE  /\ Fill(lo, size, c) \in [PageNo -> Content]
           /\ \A q \in PageNo : Fill(lo, size, c)[q] = IF q \in PagesIn(lo, lo + size) THEN c ELSE mem[q]
  BY DEF MemoryInv, Fill

(* Multiples are aligned.                                                  *)
LEMMA MultipleIsAligned ==
    ASSUME NEW k \in Nat
    PROVE  Aligned(k * Page)
  <1> DEFINE v == k * Page
  <1>1. v \in Nat /\ Page \in Nat \ {0} /\ v \div Page = k
    BY Sizes, PageNumber
  <1>2. Page * k = v
    BY <1>1
  <1> HIDE DEF v
  <1>3. v % Page \in 0..(Page - 1) /\ v = Page * (v \div Page) + (v % Page)
    BY <1>1, DivMod
  <1>4. v = v + (v % Page) /\ v % Page \in Int
    BY <1>1, <1>2, <1>3
  <1>5. v % Page = 0
    BY <1>1, <1>4
  <1> QED BY <1>5 DEF Aligned, v

(* The difference of two multiples.                                        *)
LEMMA Difference ==
    ASSUME NEW lo, NEW hi, lo < hi, \E i \in Nat : lo = i * Page, \E j \in Nat : hi = j * Page
    PROVE  hi - lo \in Nat \ {0} /\ lo + (hi - lo) = hi /\ \E k \in Nat : hi - lo = k * Page
  <1>1. PICK i \in Nat : lo = i * Page
    OBVIOUS
  <1>2. PICK j \in Nat : hi = j * Page
    OBVIOUS
  <1>3. i < j
    BY <1>1, <1>2, Sizes, FactorOrder, SMTT(20), SMTT(30), Zenon
  <1>4. hi - lo = (j - i) * Page /\ j - i \in Nat
    BY <1>1, <1>2, <1>3, MultiplesAdd, SMTT(20), SMTT(30), Zenon
  <1>5. lo \in Nat /\ hi \in Nat
    BY <1>1, <1>2, Sizes
  <1> QED BY <1>4, <1>5

(* Brk maps or unmaps the pages between the two breaks.                    *)
LEMMA BrkGood ==
    ASSUME MemoryInv, ~MaySplit, NEW r \in Breaks, Brk(r)
    PROVE  Good
  <1> DEFINE old == pageAlignUp(brk)
             new == pageAlignUp(r)
  <1>1. brk \in Nat /\ brk <= Max /\ brk > 0 /\ brk < Word /\ r \in Nat /\ r < Word /\ hint \in Nat /\ heapEnd \in Nat
    BY Arguments, Sizes DEF MemoryInv
  <1>2. CASE r < Brk0 \/ r >= BrkLimit
    <2>1. FailsWith(maps) /\ hint' = hint
      BY <1>2 DEF Brk, Fails
    <2> QED BY <1>1, <2>1, FailedWell, SMTT(20), SMTT(30), Zenon
  <1>3. CASE ~(r < Brk0 \/ r >= BrkLimit)
    <2>1. r \in 1..Max
      <3>1. Brk0 \in 1..Max /\ BrkLimit \in 0..Max
        BY MemoryAssumption
      <3> QED BY <1>1, <1>3, <3>1, Sizes, SMTT(20), SMTT(30), Zenon
    <2>2. old \in Nat /\ old > 0 /\ old <= Max /\ \E k \in Nat : old = k * Page
      <3>1. old \in Nat /\ old >= brk /\ old <= Max /\ \E k \in Nat : old = k * Page
        BY <1>1, UpIsMultiple
      <3> QED BY <1>1, <3>1
    <2>3. new \in Nat /\ new <= Max /\ \E k \in Nat : new = k * Page
      <3>1. r <= Max
        BY <2>1, SMTT(20), SMTT(30), Zenon
      <3> QED BY <1>1, <3>1, UpIsMultiple
    <2>4. CASE new > old /\ Place(maps, old, new - old, hint) = 0
      <3>1. FailsWith(maps) /\ hint' = hint
        BY <1>3, <2>4 DEF Brk, Fails
      <3> QED BY <1>1, <3>1, FailedWell
    <2>5. CASE new > old /\ Place(maps, old, new - old, hint) # 0
      <3>1. /\ maps' = Add(maps, old, new - old, {"r", "w"}, "heap")
            /\ mem' = Fill(old, new - old, "zero")
            /\ Did(old, new, old, new - old)
            /\ brk' = r /\ heapEnd' = (IF r > heapEnd THEN new ELSE heapEnd) /\ hint' = hint
        BY <1>3, <2>5, SMTT(20), SMTT(30), Zenon DEF Brk
      <3> HIDE DEF old, new
      <3>2. new - old \in Nat \ {0} /\ old + (new - old) = new /\ \E k \in Nat : new - old = k * Page
        BY <2>2, <2>3, <2>5, Difference, SMTT(20), SMTT(30), Zenon
      <3>3. Place(maps, old, new - old, hint) = old
        BY <2>2, <2>5 DEF Place
      <3>4. CanAdd(maps, old, new - old, {"r", "w"}, "heap")
        <4>1. Aligned(old)
          BY <2>2, MultipleIsAligned
        <4>2. Proper(maps) /\ {"r", "w"} \in SUBSET {"r", "w", "x"}
          BY DEF MemoryInv
        <4>3. CanAdd(maps, Place(maps, old, new - old, hint), new - old, {"r", "w"}, "heap")
          BY <1>1, <2>2, <2>5, <3>2, <4>1, <4>2, Placed, Zenon
        <4> QED BY <3>3, <4>3
      <3>5. Proper(maps')
        BY <3>1, <3>4, Added, Zenon
      <3>6. mem' \in [PageNo -> Content] /\ \A q \in PageNo : mem'[q] = IF q \in PagesIn(old, new) THEN "zero" ELSE mem[q]
        BY <3>1, <3>2, Filled DEF Content
      <3>7. MemoryInv'
        BY <1>1, <2>1, <2>3, <3>1, <3>5, <3>6, ZenonT(60) DEF MemoryInv
      <3>8. KeptOutside(PagesIn(old, new) \cup PagesIn(old, old + (new - old)))
        BY <3>1, <3>2, <3>4, <3>6, AddShows, OutsidePages, SMTT(20), SMTT(30), Zenon DEF KeptOutside
      <3> QED BY <3>1, <3>7, <3>8, DoneWell, ZenonT(60)
    <2>6. CASE ~(new > old) /\ ~(new < old /\ heapEnd >= old)
      <3>1. /\ maps' = maps /\ mem' = mem /\ Did(new, old, old, 0)
            /\ brk' = r /\ heapEnd' = (IF r > heapEnd THEN new ELSE heapEnd) /\ hint' = hint
        BY <1>3, <2>6 DEF Brk
      <3>2. MemoryInv'
        BY <1>1, <2>1, <2>3, <3>1 DEF MemoryInv
      <3>3. KeptOutside(PagesIn(new, old) \cup PagesIn(old, old + 0))
        BY <3>1 DEF KeptOutside
      <3> QED BY <3>1, <3>2, <3>3, DoneWell, SMTT(20), SMTT(30), Zenon
    <2>7. CASE new < old /\ heapEnd >= old
      <3>1. /\ ~Splits(maps, new, old - new) /\ maps' = Remove(maps, new, old - new)
            /\ mem' = mem /\ Did(new, old, old, 0)
            /\ brk' = r /\ heapEnd' = (IF r > heapEnd THEN new ELSE heapEnd) /\ hint' = hint
        <4>1. ~(new > old)
          BY <2>2, <2>3, <2>7, SMTT(20), SMTT(30), Zenon
        <4> QED BY <1>3, <2>7, <4>1 DEF Brk
      <3> HIDE DEF old, new
      <3>2. old - new \in Nat \ {0} /\ new + (old - new) = old
        BY <2>2, <2>3, <2>7, Difference, SMTT(20), SMTT(30), Zenon
      <3>3. CanRemove(maps, new, old - new)
        <4>1. new \in Boundary /\ old \in Boundary
          BY <2>2, <2>3, MultipleIsBoundary, SMTT(20), SMTT(30), Zenon
        <4> QED BY <2>3, <3>1, <3>2, <4>1 DEF CanRemove, MemoryInv
      <3>4. /\ Proper(maps')
            /\ \A b \in Nat : ~(new <= b /\ b < old) => Shows(maps', b) = Shows(maps, b)
        BY <3>1, <3>2, <3>3, Removed
      <3>5. MemoryInv'
        BY <1>1, <2>1, <2>3, <3>1, <3>4, Zenon DEF MemoryInv
      <3>6. KeptOutside(PagesIn(new, old) \cup PagesIn(old, old + 0))
        BY <3>1, <3>4, OutsidePages DEF KeptOutside
      <3> QED BY <3>1, <3>5, <3>6, DoneWell, SMTT(20), SMTT(30), Zenon
    <2> QED BY <2>4, <2>5, <2>6, <2>7
  <1> QED BY <1>2, <1>3


(* A mapping that is put in and taken out again leaves no trace.           *)
LEMMA PutBack ==
    ASSUME NEW ms, NEW lo, NEW size, NEW prot, NEW name, lo # 0 => CanAdd(ms, lo, size, prot, name)
    PROVE  AddedAndRemoved(ms, lo, size, prot, name) = ms
  BY AddRemove DEF AddedAndRemoved

(* Mmap2 adds a mapping, after it has made room for one at a fixed         *)
(* address, or leaves everything as it was.                                *)
LEMMA Mmap2Good ==
    ASSUME MemoryInv, ~MaySplit, NEW a \in Addr, NEW n \in Length, NEW p \in Prots,
           NEW fixed \in BOOLEAN, NEW source, Mmap2(a, n, p, fixed, source)
    PROVE  Good
  <1> DEFINE size == pageAlignUp(n)
             usable == /\ a >= Page /\ Aligned(a) /\ Fits(a, size)
                       /\ isFree(maps, a, a + size)
             want == IF fixed \/ usable THEN a ELSE 0
             base == IF fixed THEN Remove(maps, a, size) ELSE maps
             at == Place(base, want, size, hint)
             replaceable == Fits(a, size) /\ Aligned(a) /\ checkRange(maps, a, size, "r")
             refused == n = 0 \/ n > MaxLength \/ source = "badfd" \/ (fixed /\ ~replaceable)
             content == IF source = "anon" THEN "zero" ELSE "data"
  <1>1. a \in Nat /\ n \in Nat /\ n < Word /\ p \in SUBSET {"r", "w", "x"} /\ hint \in Nat /\ Proper(maps)
    BY Arguments DEF MemoryInv
  <1>2. CASE refused
    <2>1. FailsWith(maps) /\ hint' = hint
      BY <1>2 DEF Mmap2, Fails
    <2> QED BY <1>1, <2>1, FailedWell, ZenonT(40)
  <1>3. CASE ~refused
    <2>1. size \in Nat \ {0} /\ (size <= Max => \E k \in Nat : size = k * Page)
      <3>1. size \in Nat /\ size >= n /\ (size <= Max => \E k \in Nat : size = k * Page)
        BY <1>1, UpIsMultiple
      <3>2. n > 0
        BY <1>1, <1>3
      <3> QED BY <1>1, <3>1, <3>2, SMTT(20), SMTT(30), Zenon
    <2>2. /\ ~fixed \/ ~Splits(maps, a, size)
          /\ hint' = HintAfter(want, at, size)
          /\ at # 0 /\ "w" \in p =>
               /\ maps' = Add(base, at, size, p, "mmap2")
               /\ mem' = Fill(at, size, content)
               /\ Did(IF fixed THEN a ELSE at, IF fixed THEN a + size ELSE at + size, at, size)
               /\ brk' = brk /\ heapEnd' = heapEnd
          /\ ~(at # 0 /\ "w" \in p) => FailsWith(IF fixed THEN maps ELSE AddedAndRemoved(base, at, size, p, "mmap2"))
      BY <1>3, Zenon DEF Mmap2, KeepBrk
    <2>3. want \in Nat /\ (want # 0 => Aligned(want))
      BY <1>1, <1>3, SMTT(20), SMTT(30), Zenon
    <2>4. /\ Proper(base)
          /\ \A b \in Nat : ~fixed \/ ~(a <= b /\ b < a + size) => Shows(base, b) = Shows(maps, b)
      <3>1. CASE ~fixed
        BY <1>1, <3>1, SMTT(20), SMTT(30), Zenon
      <3>2. CASE fixed
        <4>1. base = Remove(maps, a, size) /\ Fits(a, size) /\ Aligned(a) /\ ~Splits(maps, a, size)
          BY <1>3, <2>2, <3>2, Zenon
        <4> HIDE DEF base, size
        <4>2. size <= Max
          BY <1>1, <2>1, <4>1, Sizes, SMTT(20), SMTT(30), Zenon DEF Fits
        <4>3. a \in Boundary /\ a + size \in Boundary
          BY <1>1, <2>1, <4>1, <4>2, RangeBounds, SMTT(20), SMTT(30), Zenon
        <4>4. CanRemove(maps, a, size)
          BY <1>1, <2>1, <4>1, <4>3 DEF CanRemove
        <4> QED BY <3>2, <4>1, <4>4, Removed
      <3> QED BY <3>1, <3>2, SMTT(20), SMTT(30), Zenon
    <2> HIDE DEF base, want, size
    <2>5. at # 0 => CanAdd(base, at, size, p, "mmap2")
      BY <1>1, <2>1, <2>3, <2>4, Placed, ZenonT(60)
    <2>6. hint' \in Nat
      <3>1. at # 0 => at \in Nat
        BY <2>5 DEF CanAdd
      <3> QED BY <1>1, <2>1, <2>2, <3>1, SMTT(20), SMTT(30), Zenon DEF HintAfter
    <2> HIDE DEF at
    <2>7. CASE at # 0 /\ "w" \in p
      <3>1. Proper(maps') /\ \A b \in Nat : ~(at <= b /\ b < at + size) => Shows(maps', b) = Shows(base, b)
        BY <2>2, <2>5, <2>7, Added, AddShows
      <3>2. content \in Content
        BY DEF Content
      <3> HIDE DEF content
      <3>3. /\ mem' \in [PageNo -> Content]
            /\ \A q \in PageNo : q \notin PagesIn(at, at + size) => mem'[q] = mem[q]
        <4>1. mem' = Fill(at, size, content)
          BY <2>2, <2>7, Zenon
        <4>2. /\ Fill(at, size, content) \in [PageNo -> Content]
              /\ \A q \in PageNo : Fill(at, size, content)[q] = IF q \in PagesIn(at, at + size) THEN content ELSE mem[q]
          BY <3>2, Filled, ZenonT(60)
        <4>3. \A q \in PageNo : q \notin PagesIn(at, at + size) => Fill(at, size, content)[q] = mem[q]
          BY <4>2, Zenon
        <4> QED BY <4>1, <4>2, <4>3, Zenon
      <3>4. MemoryInv'
        BY <2>2, <2>6, <2>7, <3>1, <3>3 DEF MemoryInv
      <3>5. CASE fixed
        <4>1. KeptOutside(PagesIn(a, a + size) \cup PagesIn(at, at + size))
          <5> SUFFICES ASSUME NEW q \in PageNo \ (PagesIn(a, a + size) \cup PagesIn(at, at + size))
                       PROVE  Shows(maps', q * Page) = Shows(maps, q * Page) /\ mem'[q] = mem[q]
            BY DEF KeptOutside
          <5>1. q * Page \in Nat /\ ~(a <= q * Page /\ q * Page < a + size) /\ ~(at <= q * Page /\ q * Page < at + size)
            BY OutsidePages
          <5> QED BY <2>4, <3>1, <3>3, <5>1, Zenon
        <4>2. Did(a, a + size, at, size)
          BY <2>2, <2>7, <3>5
        <4> QED BY <3>4, <4>1, <4>2, DoneWell
      <3>6. CASE ~fixed
        <4>1. KeptOutside(PagesIn(at, at + size) \cup PagesIn(at, at + size))
          <5> SUFFICES ASSUME NEW q \in PageNo \ (PagesIn(at, at + size) \cup PagesIn(at, at + size))
                       PROVE  Shows(maps', q * Page) = Shows(maps, q * Page) /\ mem'[q] = mem[q]
            BY DEF KeptOutside
          <5>1. q * Page \in Nat /\ ~(at <= q * Page /\ q * Page < at + size)
            BY OutsidePages
          <5> QED BY <2>4, <3>1, <3>3, <3>6, <5>1, SMTT(20), SMTT(30), Zenon
        <4>2. Did(at, at + size, at, size)
          BY <2>2, <2>7, <3>6
        <4> QED BY <3>4, <4>1, <4>2, DoneWell, SMTT(20), SMTT(30), Zenon
      <3> QED BY <3>5, <3>6, SMTT(20), SMTT(30), Zenon
    <2>8. CASE ~(at # 0 /\ "w" \in p)
      <3>1. FailsWith(maps)
        <4>1. AddedAndRemoved(base, at, size, p, "mmap2") = base
          BY <2>5, PutBack
        <4> QED BY <2>2, <2>8, <4>1 DEF base
      <3> QED BY <2>6, <3>1, FailedWell
    <2> QED BY <2>7, <2>8
  <1> QED BY <1>2, <1>3


(* Multiples are ordered like their factors.                               *)
LEMMA SameOrder ==
    ASSUME NEW i \in Nat, NEW j \in Nat
    PROVE  (i <= j <=> i * Page <= j * Page) /\ (i < j <=> i * Page < j * Page)
  <1>1. Page \in Nat /\ Page > 0 /\ i * Page \in Nat /\ j * Page \in Nat
    BY Sizes
  <1>2. ASSUME i < j PROVE i * Page < j * Page
    <2>1. (i + 1) * Page <= j * Page /\ (i + 1) * Page = i * Page + Page
      BY <1>1, <1>2, TimesOrder
    <2> QED BY <1>1, <2>1
  <1>3. ASSUME j < i PROVE j * Page < i * Page
    <2>1. (j + 1) * Page <= i * Page /\ (j + 1) * Page = j * Page + Page
      BY <1>1, <1>3, TimesOrder
    <2> QED BY <1>1, <2>1
  <1> QED BY <1>1, <1>2, <1>3

(* What mremap goes by when it has found its mapping: o whole pages of it  *)
(* from page i on, to be n pages.                                          *)
Named(a, i, o, n, old, new) ==
    /\ i \in Nat /\ o \in Nat /\ n \in Nat
    /\ a = i * Page /\ old = o * Page /\ new = n * Page
    /\ a + old = (i + o) * Page /\ a + new = (i + n) * Page
    /\ i + o <= Pages

(* Mremap that shrinks unmaps the pages behind.                            *)
LEMMA ShrinkGood ==
    ASSUME MemoryInv, NEW a, NEW i, NEW o, NEW n, NEW old, NEW new, Named(a, i, o, n, old, new), new <= old,
           new = old \/ ~Splits(maps, a + new, old - new),
           maps' = IF new = old THEN maps ELSE Remove(maps, a + new, old - new),
           Moved(a, a + old, a, new), UNCHANGED <<mem, hint, brk, heapEnd>>
    PROVE  Good
  <1>1. /\ i \in Nat /\ o \in Nat /\ n \in Nat
        /\ a = i * Page /\ old = o * Page /\ new = n * Page
        /\ a + old = (i + o) * Page /\ a + new = (i + n) * Page /\ i + o <= Pages
    BY DEF Named
  <1>2. n <= o /\ a \in Nat /\ old \in Nat /\ new \in Nat
    BY <1>1, SameOrder, Sizes, SMTT(20), SMTT(30), Zenon
  <1>3. Proper(maps') /\ \A b \in Nat : Shows(maps', b) = IF a + new <= b /\ b < a + old THEN {} ELSE Shows(maps, b)
    <2>1. CASE new = old
      BY <1>2, <2>1, SMTT(20), SMTT(30), Zenon DEF MemoryInv
    <2>2. CASE new # old
      <3>1. (a + new) + (old - new) = a + old /\ old - new \in Nat \ {0} /\ a + new \in Nat
        BY <1>2, <2>2, SMTT(20), SMTT(30), Zenon
      <3>2. a + new \in Boundary /\ a + old \in Boundary
        <4>1. i + n \in 0..Pages /\ i + o \in 0..Pages
          BY <1>1, <1>2, Sizes, SMTT(20), SMTT(30), Zenon
        <4> QED BY <1>1, <4>1, SMTT(20), SMTT(30), Zenon DEF Boundary
      <3>3. CanRemove(maps, a + new, old - new)
        BY <2>2, <3>1, <3>2, SMTT(20), SMTT(30), Zenon DEF CanRemove, MemoryInv
      <3>4. /\ Proper(Remove(maps, a + new, old - new))
            /\ \A b \in Nat : Shows(Remove(maps, a + new, old - new), b) =
                                 IF a + new <= b /\ b < (a + new) + (old - new) THEN {} ELSE Shows(maps, b)
        BY <3>3, Removed, SMTT(20), SMTT(30), Zenon
      <3> QED BY <2>2, <3>1, <3>4, SMTT(20), SMTT(30), Zenon
    <2> QED BY <2>1, <2>2
  <1>4. MemoryInv'
    BY <1>3, SMTT(20), SMTT(30), Zenon DEF MemoryInv
  <1>5. KeptOutside(PagesIn(a, a + old) \cup PagesIn(a, a + new))
    <2> SUFFICES ASSUME NEW q \in PageNo \ (PagesIn(a, a + old) \cup PagesIn(a, a + new))
                 PROVE  Shows(maps', q * Page) = Shows(maps, q * Page)
      BY DEF KeptOutside
    <2>1. q * Page \in Nat /\ ~(a <= q * Page /\ q * Page < a + old)
      BY OutsidePages
    <2>2. ~(a + new <= q * Page /\ q * Page < a + old)
      BY <1>2, <2>1
    <2> QED BY <1>3, <2>1, <2>2, SMTT(20), SMTT(30), Zenon
  <1>6. \A k \in 0..(n - 1) : mem'[i + k] = IF k < o THEN mem[i + k] ELSE "zero"
    BY <1>1, <1>2, SMTT(20), SMTT(30), Zenon
  <1>7. \A k \in 0..(o - 1) : i + k \notin i..(i + n - 1) => Shows(maps', (i + k) * Page) = {}
    <2> SUFFICES ASSUME NEW k \in 0..(o - 1), i + k \notin i..(i + n - 1) PROVE Shows(maps', (i + k) * Page) = {}
      OBVIOUS
    <2>1. i + k \in Nat /\ i + n \in Nat /\ i + o \in Nat /\ i + n <= i + k /\ i + k < i + o
      BY <1>1, SMTT(20), SMTT(30), Zenon
    <2>2. (i + n) * Page <= (i + k) * Page /\ (i + k) * Page < (i + o) * Page /\ (i + k) * Page \in Nat
      BY <2>1, SameOrder, Sizes, SMTT(20), SMTT(30), Zenon
    <2> QED BY <1>1, <1>3, <2>2, SMTT(20), SMTT(30), Zenon
  <1>8. a = i * Page /\ a + old = (i + o) * Page /\ new = n * Page /\ Moved(a, a + old, a, new)
    BY <1>1
  <1> QED BY <1>1, <1>4, <1>5, <1>6, <1>7, <1>8, MovedWell, Zenon

(* Mremap that grows in place maps the pages behind.                       *)
LEMMA GrowGood ==
    ASSUME MemoryInv, NEW a, NEW i, NEW o, NEW n, NEW old, NEW new, Named(a, i, o, n, old, new), old < new,
           i + n <= Pages, NEW prot, NEW name, CanAdd(maps, a + old, new - old, prot, name),
           maps' = Add(maps, a + old, new - old, prot, name), mem' = Fill(a + old, new - old, "zero"),
           Moved(a, a + old, a, new), UNCHANGED <<hint, brk, heapEnd>>
    PROVE  Good
  <1>1. /\ i \in Nat /\ o \in Nat /\ n \in Nat
        /\ a = i * Page /\ old = o * Page /\ new = n * Page
        /\ a + old = (i + o) * Page /\ a + new = (i + n) * Page
    BY DEF Named
  <1>2. o < n /\ a \in Nat /\ old \in Nat /\ new \in Nat
    BY <1>1, SameOrder, Sizes, SMTT(20), SMTT(30), Zenon
  <1>3. (a + old) + (new - old) = a + new
    BY <1>2, SMTT(20), SMTT(30), Zenon
  <1>4. Proper(maps') /\ \A b \in Nat : ~(a + old <= b /\ b < a + new) => Shows(maps', b) = Shows(maps, b)
    BY <1>3, Added, AddShows, SMTT(20), SMTT(30), Zenon
  <1>5. /\ mem' \in [PageNo -> Content]
        /\ \A q \in PageNo : mem'[q] = IF q \in PagesIn(a + old, a + new) THEN "zero" ELSE mem[q]
    <2>1. "zero" \in Content
      BY DEF Content
    <2> DEFINE f == Fill(a + old, new - old, "zero")
    <2>2. /\ f \in [PageNo -> Content]
          /\ \A q \in PageNo : f[q] = IF q \in PagesIn(a + old, (a + old) + (new - old)) THEN "zero" ELSE mem[q]
      BY <2>1, Filled, ZenonT(60)
    <2>3. mem' = f
      BY SMTT(20), SMTT(30), Zenon
    <2> HIDE DEF f
    <2> QED BY <1>3, <2>2, <2>3, SMTT(20), SMTT(30), Zenon
  <1>6. MemoryInv'
    BY <1>4, <1>5, SMTT(20), SMTT(30), Zenon DEF MemoryInv
  <1>7. KeptOutside(PagesIn(a, a + old) \cup PagesIn(a, a + new))
    <2> SUFFICES ASSUME NEW q \in PageNo \ (PagesIn(a, a + old) \cup PagesIn(a, a + new))
                 PROVE  Shows(maps', q * Page) = Shows(maps, q * Page) /\ mem'[q] = mem[q]
      BY Zenon DEF KeptOutside
    <2>1. q \in PageNo /\ q * Page \in Nat /\ ~(a <= q * Page /\ q * Page < a + new)
      BY OutsidePages, SMTT(20), SMTT(30), Zenon
    <2>2. ~(a + old <= q * Page /\ q * Page < a + new)
      BY <1>2, <2>1, SMTT(20), SMTT(30), Zenon
    <2> QED BY <1>4, <1>5, <2>1, <2>2, SMTT(20), SMTT(30), Zenon DEF PagesIn
  <1>8. ASSUME NEW k \in 0..(n - 1) PROVE mem'[i + k] = IF k < o THEN mem[i + k] ELSE "zero"
    <2>1. i + k \in PageNo /\ i + o \in Nat /\ i + n \in Nat
      BY <1>1, Sizes, SMTT(30) DEF PageNo
    <2>2. i + k \in PagesIn(a + old, a + new) <=> i + o <= i + k /\ i + k < i + n
      BY <1>1, <2>1, PagesBetween, Zenon
    <2>3. i + o <= i + k /\ i + k < i + n <=> ~(k < o)
      BY <1>1, SMTT(20), SMTT(30), Zenon
    <2> QED BY <1>5, <2>1, <2>2, <2>3, SMTT(20), SMTT(30), Zenon
  <1>9. \A k \in 0..(o - 1) : i + k \in i..(i + n - 1)
    BY <1>1, <1>2
  <1> QED BY <1>1, <1>6, <1>7, <1>8, <1>9, MovedWell, ZenonT(60)


(* A mapping that is added does not hold what the guest has mapped, so     *)
(* that the old range can still be removed after it.                       *)
LEMMA AddSplitsNothing ==
    ASSUME NEW ms, NEW lo, NEW size, NEW prot, NEW name, CanAdd(ms, lo, size, prot, name),
           NEW a \in Nat, NEW old \in Nat, Holding(ms, a) # {}, ~Splits(ms, a, old)
    PROVE  ~Splits(Add(ms, lo, size, prot, name), a, old)
  <1> DEFINE A == Add(ms, lo, size, prot, name)
             f == Fresh(lo, size, prot, name)
  <1> SUFFICES ASSUME Splits(A, a, old) PROVE FALSE
    OBVIOUS
  <1>1. Elems(A) = Elems(ms) \cup {f}
    BY Added, SMTT(20), SMTT(30), Zenon
  <1>2. f.start = lo /\ f.end = lo + size /\ lo \in Nat /\ size \in Nat
    BY DEF Fresh, CanAdd
  <1> HIDE DEF A, f
  <1>3. PICK x \in Elems(A) : a > x.start /\ a + old < x.end
    BY Zenon DEF Splits, Elems
  <1>4. CASE x \in Elems(ms)
    BY <1>3, <1>4, ZenonT(40) DEF Splits, Elems
  <1>5. CASE x = f
    <2>1. PICK i \in 1..Len(ms) : a >= ms[i].start /\ a < ms[i].end
      BY DEF Holding
    <2>2. ms[i].start \in Nat /\ ms[i].end \in Nat
      <3>1. ms[i] \in Mapping
        BY <2>1 DEF CanAdd, Proper
      <3> QED BY <3>1, Fields, ZenonT(40)
    <2>3. ~(lo < ms[i].end /\ lo + size > ms[i].start)
      BY Zenon DEF CanAdd, isFree
    <2> QED BY <1>2, <1>3, <1>5, <2>1, <2>2, <2>3, SMTT(20), SMTT(30), Zenon
  <1> QED BY <1>1, <1>4, <1>5

(* What is given when mremap moves the mapping.                            *)
Moves(a, i, o, n, old, new, at, prot, name) ==
    /\ Named(a, i, o, n, old, new) /\ old < new /\ old > 0
    /\ CanAdd(maps, at, new, prot, name) /\ Holding(maps, a) # {} /\ ~Splits(maps, a, old)
    /\ maps' = Remove(Add(maps, at, new, prot, name), a, old)
    /\ mem' = [q \in PageNo |->
                 IF q \in PagesIn(at, at + old) THEN mem[q - at \div Page + a \div Page]
                 ELSE Fill(at, new, "zero")[q]]
    /\ Moved(a, a + old, at, new) /\ hint' \in Nat /\ brk' = brk /\ heapEnd' = heapEnd

(* Mremap that moves copies the pages of its mapping, zeroes the ones      *)
(* behind them and unmaps the old ones.                                    *)
LEMMA MoveGood ==
    ASSUME MemoryInv, NEW a, NEW i, NEW o, NEW n, NEW old, NEW new, NEW at, NEW prot, NEW name,
           Moves(a, i, o, n, old, new, at, prot, name)
    PROVE  Good
  <1> DEFINE A == Add(maps, at, new, prot, name)
             f == Fresh(at, new, prot, name)
  <1>1. /\ i \in Nat /\ o \in Nat /\ n \in Nat
        /\ a = i * Page /\ old = o * Page /\ new = n * Page
        /\ a + old = (i + o) * Page /\ i + o <= Pages
        /\ old < new /\ old > 0 /\ CanAdd(maps, at, new, prot, name)
    BY Zenon DEF Moves, Named
  <1>0. i \in Nat /\ o \in Nat /\ n \in Nat /\ i + o <= Pages /\ Pages \in Nat
    <2>1. Pages \in Nat
      BY Sizes
    <2> QED BY <1>1, <2>1, Zenon
  <1>2. o < n /\ a \in Nat /\ old \in Nat \ {0} /\ new \in Nat
    <2>1. Page \in Nat
      BY Sizes
    <2>2. a \in Nat /\ old \in Nat /\ new \in Nat
      BY <1>1, <2>1
    <2>3. o < n
      BY <1>1, SameOrder, Zenon
    <2>4. old # 0
      BY <1>1, <2>2, SMTT(20), SMTT(30), Zenon
    <2> QED BY <2>2, <2>3, <2>4
  <1>3. at \in Boundary /\ at + new \in Boundary /\ at \in Nat
    <2>1. f \in Mapping /\ f.start = at /\ f.end = at + new /\ at \in Nat
      BY <1>1, Zenon DEF CanAdd, Fresh
    <2> HIDE DEF f
    <2> QED BY <2>1, Fields
  <1>4. PICK j \in Nat : at = j * Page
    <2>1. PICK j \in 0..Pages : at = j * Page
      BY <1>3, Zenon DEF Boundary
    <2>2. j \in Nat
      BY <1>0
    <2> QED BY <2>1, <2>2, Zenon
  <1>5. at + new = (j + n) * Page /\ at + old = (j + o) * Page /\ j + n <= Pages
    <2>1. at + new = (j + n) * Page /\ at + old = (j + o) * Page
      <3>1. j \in Int /\ n \in Int /\ o \in Int
        BY <1>0
      <3>2. j * Page + n * Page = (j + n) * Page /\ j * Page + o * Page = (j + o) * Page
        BY <3>1, MultiplesAdd, Zenon
      <3> QED BY <1>1, <1>4, <3>2
    <2>2. (j + n) * Page <= Max /\ j + n \in Nat
      <3>1. at + new <= Max
        BY <1>3, BoundaryIsNat, Zenon
      <3>2. j + n \in Nat
        BY <1>0
      <3> QED BY <2>1, <3>1, <3>2, Zenon
    <2>3. j + n \in 0..Pages
      BY <2>2, MultipleIsBoundary, Zenon
    <2>4. j + n <= Pages
      BY <1>0, <2>3
    <2> QED BY <2>1, <2>4, Zenon
  <1>6. CanRemove(A, a, old)
    <2>1. a \in Boundary /\ a + old \in Boundary
      <3>1. i \in 0..Pages /\ i + o \in 0..Pages
        BY <1>0
      <3> QED BY <1>1, <3>1, Zenon DEF Boundary
    <2>2. Proper(A)
      BY <1>1, Added, Zenon
    <2>3. ~Splits(A, a, old)
      <3>1. Holding(maps, a) # {} /\ ~Splits(maps, a, old) /\ a \in Nat /\ old \in Nat
        BY <1>2, Zenon DEF Moves
      <3> QED BY <1>1, <3>1, AddSplitsNothing, Zenon
    <2> QED BY <1>2, <2>1, <2>2, <2>3, Zenon DEF CanRemove
  <1>7. Proper(maps') /\ \A b \in Nat : Shows(maps', b) = IF a <= b /\ b < a + old THEN {} ELSE Shows(A, b)
    <2>1. maps' = Remove(A, a, old)
      BY Zenon DEF Moves
    <2> QED BY <1>6, <2>1, Removed, ZenonT(60)
  <1>8. \A b \in Nat : ~(at <= b /\ b < at + new) => Shows(A, b) = Shows(maps, b)
    <2> TAKE b \in Nat
    <2> QED BY <1>1, AddShows
  <1>9. /\ Fill(at, new, "zero") \in [PageNo -> Content]
        /\ \A q \in PageNo : Fill(at, new, "zero")[q] = IF q \in PagesIn(at, at + new) THEN "zero" ELSE mem[q]
    <2>1. "zero" \in Content
      BY DEF Content
    <2> QED BY <2>1, Filled, Zenon
  <1>10. at \div Page = j /\ a \div Page = i
    BY <1>1, <1>4, PageNumber, Zenon
  <1>11. ASSUME NEW q \in PageNo
         PROVE  /\ q \in PagesIn(at, at + old) <=> j <= q /\ q < j + o
                /\ q \in PagesIn(at, at + new) <=> j <= q /\ q < j + n
    <2>1. j + o \in Nat /\ j + n \in Nat
      BY <1>0
    <2> QED BY <1>4, <1>5, <2>1, PagesBetween, Zenon
  <1>12. \A q \in PageNo : mem'[q] = IF j <= q /\ q < j + o THEN mem[q - j + i]
                                     ELSE IF j <= q /\ q < j + n THEN "zero" ELSE mem[q]
    <2> TAKE q \in PageNo
    <2>1. mem'[q] = IF q \in PagesIn(at, at + old) THEN mem[q - at \div Page + a \div Page]
                    ELSE Fill(at, new, "zero")[q]
      BY Zenon DEF Moves
    <2>2. Fill(at, new, "zero")[q] = IF q \in PagesIn(at, at + new) THEN "zero" ELSE mem[q]
      BY <1>9, Zenon
    <2>3. /\ q \in PagesIn(at, at + old) <=> j <= q /\ q < j + o
          /\ q \in PagesIn(at, at + new) <=> j <= q /\ q < j + n
      BY <1>11, Zenon
    <2> QED BY <1>10, <2>1, <2>2, <2>3, Zenon
  <1>13. mem' \in [PageNo -> Content]
    <2>1. ASSUME NEW q \in PageNo PROVE mem'[q] \in Content
      <3>1. CASE j <= q /\ q < j + o
        <4>1. q - j + i \in PageNo
          BY <1>0, <3>1 DEF PageNo
        <4> QED BY <1>12, <3>1, <4>1 DEF MemoryInv
      <3>2. CASE ~(j <= q /\ q < j + o)
        BY <1>12, <3>2 DEF MemoryInv, Content
      <3> QED BY <3>1, <3>2, Zenon
    <2>2. DOMAIN mem' = PageNo /\ mem' = [q \in PageNo |-> mem'[q]]
      BY Zenon DEF Moves
    <2> QED BY <2>1, <2>2, Zenon
  <1>14. MemoryInv'
    <2>1. hint' \in Nat /\ brk' = brk /\ heapEnd' = heapEnd
      BY Zenon DEF Moves
    <2> QED BY <1>7, <1>13, <2>1 DEF MemoryInv
  <1> HIDE DEF A
  <1>15. KeptOutside(PagesIn(a, a + old) \cup PagesIn(at, at + new))
    <2> SUFFICES ASSUME NEW q \in PageNo \ (PagesIn(a, a + old) \cup PagesIn(at, at + new))
                 PROVE  Shows(maps', q * Page) = Shows(maps, q * Page) /\ mem'[q] = mem[q]
      BY Zenon DEF KeptOutside
    <2>1. q \in PageNo /\ q * Page \in Nat /\ ~(a <= q * Page /\ q * Page < a + old) /\ ~(at <= q * Page /\ q * Page < at + new)
      BY OutsidePages, Zenon
    <2>2. ~(j <= q /\ q < j + n)
      BY <1>11, <2>1, Zenon
    <2>3. ~(j <= q /\ q < j + o)
      <3>1. q \in Nat /\ o < n
        BY <1>0, <1>2, <2>1 DEF PageNo
      <3> QED BY <1>0, <2>2, <3>1
    <2>4. Shows(maps', q * Page) = Shows(maps, q * Page)
      BY <1>7, <1>8, <2>1, Zenon
    <2> QED BY <1>12, <2>1, <2>2, <2>3, <2>4, Zenon
  <1>16. \A k \in 0..(n - 1) : mem'[j + k] = IF k < o THEN mem[i + k] ELSE "zero"
    <2> SUFFICES ASSUME NEW k \in 0..(n - 1) PROVE mem'[j + k] = IF k < o THEN mem[i + k] ELSE "zero"
      BY Zenon
    <2>1. j + k \in PageNo /\ j <= j + k /\ j + k < j + n /\ (j + k < j + o <=> k < o)
      <3>1. j + n <= Pages
        BY <1>5, Zenon
      <3> QED BY <1>0, <3>1 DEF PageNo
    <2>2. (j + k) - j + i = i + k
      BY <1>0
    <2> QED BY <1>12, <2>1, <2>2
  <1>17. \A k \in 0..(o - 1) : i + k \notin j..(j + n - 1) => Shows(maps', (i + k) * Page) = {}
    <2> SUFFICES ASSUME NEW k \in 0..(o - 1) PROVE Shows(maps', (i + k) * Page) = {}
      BY Zenon
    <2>1. i + k \in Nat /\ i + o \in Nat /\ i <= i + k /\ i + k < i + o
      BY <1>0
    <2>2. i * Page <= (i + k) * Page /\ (i + k) * Page < (i + o) * Page
      BY <1>0, <2>1, SameOrder, Zenon
    <2>3. (i + k) * Page \in Nat
      <3>1. Page \in Nat
        BY Sizes
      <3> QED BY <2>1, <3>1
    <2> QED BY <1>1, <1>7, <2>2, <2>3, Zenon
  <1>18. a = i * Page /\ a + old = (i + o) * Page /\ at = j * Page /\ new = n * Page /\ Moved(a, a + old, at, new)
    BY <1>1, <1>4, Zenon DEF Moves
  <1> QED BY <1>1, <1>4, <1>14, <1>15, <1>16, <1>17, <1>18, MovedWell, Zenon


(* The ranges of mremap are whole pages.                                   *)
LEMMA NamedPages ==
    ASSUME NEW a \in Nat, Aligned(a), NEW old \in Nat, Fits(a, old), NEW new \in Nat,
           \E k \in Nat : old = k * Page, \E k \in Nat : new = k * Page
    PROVE  \E i, o, n : Named(a, i, o, n, old, new)
  <1>1. a <= Max /\ a + old <= Max
    BY Sizes DEF Fits
  <1>2. PICK i \in Nat : a = i * Page
    <2>1. a \div Page \in 0..Pages /\ a = (a \div Page) * Page
      BY <1>1, AlignedIsBoundary
    <2>2. a \div Page \in Nat
      BY <2>1, Sizes
    <2> QED BY <2>1, <2>2
  <1>3. PICK o \in Nat : old = o * Page
    OBVIOUS
  <1>4. PICK n \in Nat : new = n * Page
    OBVIOUS
  <1>5. a + old = (i + o) * Page /\ a + new = (i + n) * Page
    <2>1. i * Page + o * Page = (i + o) * Page /\ i * Page + n * Page = (i + n) * Page
      <3>1. i \in Int /\ o \in Int /\ n \in Int
        OBVIOUS
      <3> QED BY <3>1, MultiplesAdd, Zenon
    <2> QED BY <1>2, <1>3, <1>4, <2>1
  <1>6. i + o \in 0..Pages
    <2>1. i + o \in Nat /\ (i + o) * Page <= Max
      BY <1>1, <1>5, SMTT(20), SMTT(30), Zenon
    <2> QED BY <2>1, MultipleIsBoundary
  <1>7. Named(a, i, o, n, old, new)
    BY <1>2, <1>3, <1>4, <1>5, <1>6, Sizes, SMTT(20), SMTT(30), Zenon DEF Named
  <1> QED BY <1>7

(* Mremap shrinks, grows, moves, or leaves everything as it was.           *)
LEMMA MremapGood ==
    ASSUME MemoryInv, ~MaySplit, NEW a \in Addr, NEW oldLength \in Length, NEW newLength \in Length,
           NEW flags, NEW target \in Nat, Mremap(a, oldLength, newLength, flags, target)
    PROVE  Good
  <1> DEFINE old == PageLength(oldLength)
             new == PageLength(newLength)
             m == MappingAt(maps, a)
             oneMapping == \A q \in PagesIn(a, a + old) :
                               /\ Holding(maps, q * Page) # {}
                               /\ MappingAt(maps, q * Page).prot = m.prot
                               /\ MappingAt(maps, q * Page).name = m.name
             behind == Fits(a, new) /\ isFree(maps, a + old, a + new)
             list == IF behind THEN AddedAndRemoved(maps, a + old, new - old, m.prot, m.name) ELSE maps
             want == IF "fixed" \in flags THEN target ELSE 0
             at == Place(list, want, new, hint)
             targetOK == Aligned(target) /\ Fits(target, new) /\ isFree(list, target, target + new)
             refused == \/ ~Accepted(oldLength) \/ ~Accepted(newLength) \/ ~Aligned(a) \/ ~Fits(a, old)
                        \/ Holding(maps, a) = {}
             stays == \/ "move" \notin flags
                      \/ ~checkRange(list, a, old, "r")
                      \/ "fixed" \in flags /\ ~targetOK
  <1>1. a \in Nat /\ oldLength \in Nat /\ newLength \in Nat /\ hint \in Nat /\ Proper(maps)
    BY Arguments DEF MemoryInv
  <1>2. /\ old \in Nat /\ \E k \in Nat : old = k * Page
        /\ new \in Nat /\ \E k \in Nat : new = k * Page
    BY <1>1, LengthIsMultiple
  <1>3. CASE refused \/ ~oneMapping
    <2>1. FailsWith(maps) /\ hint' = hint
      BY <1>3, Zenon DEF Mremap, Fails
    <2> QED BY <1>1, <2>1, FailedWell
  <1>4. CASE ~refused /\ oneMapping
    <2>1. Aligned(a) /\ Fits(a, old) /\ Holding(maps, a) # {}
      BY <1>4, SMTT(20), SMTT(30), Zenon
    <2>2. m.prot \in SUBSET {"r", "w", "x"} /\ m.name \in {"image", "heap", "mmap2"}
      <3>1. m \in Mapping
        BY <1>1, <2>1, HeldBy
      <3> HIDE DEF m
      <3> QED BY <3>1, Fields, SMTT(20), SMTT(30), Zenon
    <2>3. CASE new <= old
      <3>1. /\ new = old \/ ~Splits(maps, a + new, old - new)
            /\ maps' = IF new = old THEN maps ELSE Remove(maps, a + new, old - new)
            /\ Moved(a, a + old, a, new) /\ UNCHANGED <<mem, hint, brk, heapEnd>>
        BY <1>4, <2>3, ZenonT(60) DEF Mremap, KeepBrk
      <3> HIDE DEF old, new
      <3>2. PICK i, o, n : Named(a, i, o, n, old, new)
        BY <1>1, <1>2, <2>1, NamedPages
      <3> QED BY <2>3, <3>1, <3>2, ShrinkGood, Zenon
    <2>4. CASE ~(new <= old)
      <3>1. old < new
        BY <1>2, <2>4, SMTT(30)
      <3>2. behind => CanAdd(maps, a + old, new - old, m.prot, m.name)
        <4> SUFFICES ASSUME behind PROVE CanAdd(maps, a + old, new - old, m.prot, m.name)
          OBVIOUS
        <4>0. Fits(a, new) /\ isFree(maps, a + old, a + new)
          OBVIOUS
        <4> HIDE DEF old, new, m
        <4>1. new - old \in Nat \ {0} /\ old + (new - old) = new /\ \E k \in Nat : new - old = k * Page
          BY <1>2, <3>1, Difference, SMTT(20), SMTT(30), Zenon
        <4>2. a + old \in Boundary /\ a + old \in Nat
          BY <1>1, <1>2, <2>1, RangeBounds, SMTT(20), SMTT(30), Zenon
        <4>3. (a + old) + (new - old) = a + new /\ a + new <= Max
          BY <1>1, <1>2, <4>0, Sizes, SMTT(30) DEF Fits
        <4>4. Fresh(a + old, new - old, m.prot, m.name) \in Mapping
          BY <2>2, <4>1, <4>2, <4>3, FreshFits, Zenon
        <4> QED BY <1>1, <4>0, <4>1, <4>2, <4>3, <4>4, ZenonT(60) DEF CanAdd
      <3>3. list = maps
        BY <3>2, PutBack
      <3>4. CASE behind /\ "w" \in m.prot
        <4>1. /\ maps' = Add(maps, a + old, new - old, m.prot, m.name)
              /\ mem' = Fill(a + old, new - old, "zero")
              /\ Moved(a, a + old, a, new) /\ UNCHANGED <<hint, brk, heapEnd>>
          BY <1>4, <2>4, <3>4, ZenonT(40) DEF Mremap, KeepBrk
        <4>2. Fits(a, new) /\ CanAdd(maps, a + old, new - old, m.prot, m.name)
          BY <3>2, <3>4, SMTT(20), SMTT(30), Zenon
        <4> HIDE DEF old, new, m
        <4>3. PICK i, o, n : Named(a, i, o, n, old, new)
          BY <1>1, <1>2, <2>1, NamedPages
        <4>4. i + n <= Pages
          <5>1. i + n \in Nat /\ (i + n) * Page <= Max
            <6>1. a + new <= Max
              BY <1>1, <1>2, <4>2, Sizes DEF Fits
            <6> QED BY <4>3, <6>1 DEF Named
          <5>2. i + n \in 0..Pages
            BY <5>1, MultipleIsBoundary, SMTT(20), SMTT(30), Zenon
          <5> QED BY <5>2, Sizes
        <4> QED BY <3>1, <4>1, <4>2, <4>3, <4>4, GrowGood, Zenon
      <3>5. CASE ~(behind /\ "w" \in m.prot) /\ stays
        <4>1. FailsWith(list) /\ hint' = hint
          BY <1>4, <2>4, <3>5, ZenonT(40) DEF Mremap
        <4> QED BY <1>1, <3>3, <4>1, FailedWell
      <3>6. CASE ~(behind /\ "w" \in m.prot) /\ ~stays
        <4>1. /\ hint' = HintAfter(want, at, new) /\ ~Splits(maps, a, old)
              /\ at # 0 /\ "w" \in m.prot /\ old > 0 =>
                   /\ maps' = Remove(Add(list, at, new, m.prot, m.name), a, old)
                   /\ mem' = [q \in PageNo |->
                                IF q \in PagesIn(at, at + old) THEN mem[q - at \div Page + a \div Page]
                                ELSE Fill(at, new, "zero")[q]]
                   /\ Moved(a, a + old, at, new) /\ UNCHANGED <<brk, heapEnd>>
              /\ ~(at # 0 /\ "w" \in m.prot /\ old > 0) => FailsWith(AddedAndRemoved(list, at, new, m.prot, m.name))
          BY <1>4, <2>4, <3>6, ZenonT(40) DEF Mremap, KeepBrk
        <4>2. want \in Nat /\ (want # 0 => Aligned(want))
          BY <3>6, Zenon
        <4>3. new \in Nat \ {0}
          BY <1>2, <3>1
        <4> HIDE DEF old, new, m, list, want
        <4>4. at # 0 => CanAdd(maps, at, new, m.prot, m.name)
          <5>1. at = Place(maps, want, new, hint)
            BY <3>3, Zenon
          <5>2. /\ Proper(maps) /\ hint \in Nat /\ want \in Nat /\ (want # 0 => Aligned(want))
                /\ new \in Nat \ {0} /\ (new <= Max => \E k \in Nat : new = k * Page)
                /\ m.prot \in SUBSET {"r", "w", "x"} /\ m.name \in {"image", "heap", "mmap2"}
            BY <1>1, <1>2, <2>2, <4>2, <4>3, ZenonT(40)
          <5> HIDE DEF at
          <5>3. Place(maps, want, new, hint) # 0 => CanAdd(maps, Place(maps, want, new, hint), new, m.prot, m.name)
            BY <5>2, Placed, SMTT(20), SMTT(30), Zenon
          <5> QED BY <5>1, <5>3, Zenon
        <4>5. hint' \in Nat
          <5>1. at # 0 => at \in Nat
            BY <4>4 DEF CanAdd
          <5>2. hint' = HintAfter(want, at, new)
            BY <4>1, Zenon
          <5> HIDE DEF at
          <5> QED BY <1>1, <1>2, <5>1, <5>2, SMTT(20), SMTT(30), Zenon DEF HintAfter
        <4> HIDE DEF at
        <4>6. CASE at # 0 /\ "w" \in m.prot /\ old > 0
          <5>1. PICK i, o, n : Named(a, i, o, n, old, new)
            BY <1>1, <1>2, <2>1, NamedPages
          <5>2. /\ maps' = Remove(Add(maps, at, new, m.prot, m.name), a, old)
                /\ mem' = [q \in PageNo |->
                             IF q \in PagesIn(at, at + old) THEN mem[q - at \div Page + a \div Page]
                             ELSE Fill(at, new, "zero")[q]]
                /\ Moved(a, a + old, at, new) /\ UNCHANGED <<brk, heapEnd>>
            BY <3>3, <4>1, <4>6, Zenon
          <5>3. CanAdd(maps, at, new, m.prot, m.name) /\ ~Splits(maps, a, old) /\ old > 0
            BY <4>1, <4>4, <4>6, Zenon
          <5>4. Moves(a, i, o, n, old, new, at, m.prot, m.name)
            BY <2>1, <3>1, <4>5, <5>1, <5>2, <5>3, Zenon DEF Moves
          <5> QED BY <5>4, MoveGood, Zenon
        <4>7. CASE ~(at # 0 /\ "w" \in m.prot /\ old > 0)
          <5>1. FailsWith(maps)
            <6>1. AddedAndRemoved(maps, at, new, m.prot, m.name) = maps
              BY <4>4, PutBack, ZenonT(60)
            <6> QED BY <3>3, <4>1, <4>7, <6>1, Zenon
          <5> QED BY <4>5, <5>1, FailedWell
        <4> QED BY <4>6, <4>7, ZenonT(40)
      <3> QED BY <3>4, <3>5, <3>6, Zenon
    <2> QED BY <2>3, <2>4, SMTT(20), SMTT(30), Zenon
  <1> QED BY <1>3, <1>4

-----------------------------------------------------------------------------
(* What holds of the image the loader leaves.                              *)
LEMMA MemoryInvInit == Init => MemoryInv
  <1>1. /\ Proper(Image) /\ Brk0 \in 1..Max /\ Hint0 \in Nat /\ Brk0 \in Nat
    BY MemoryAssumption, Sizes DEF Proper
  <1> QED BY <1>1 DEF Init, MemoryInv, Content

(* Every step is good.                                                     *)
LEMMA MemoryStep ==
    ASSUME MemoryInv, ~MaySplit, [Next]_vars
    PROVE  MemoryInv' /\ (UNCHANGED vars \/ (FailureStep /\ BytesStep))
  <1>1. CASE UNCHANGED vars
    <2>1. maps' = maps /\ mem' = mem /\ hint' = hint /\ brk' = brk /\ heapEnd' = heapEnd
      BY <1>1 DEF vars
    <2>2. MemoryInv'
      BY <2>1 DEF MemoryInv
    <2> QED BY <1>1, <2>2
  <1>2. ASSUME NEW q \in PageNo, Store(q) PROVE Good
    BY <1>2, StoreGood
  <1>3. ASSUME NEW a \in Addr, NEW n \in Length, Munmap(a, n) PROVE Good
    BY <1>3, MunmapGood
  <1>4. ASSUME NEW a \in Addr, NEW n \in Length, NEW p \in Prots, Mprotect(a, n, p) PROVE Good
    BY <1>4, MprotectGood
  <1>5. ASSUME NEW a \in Addr, NEW n \in Length, NEW p \in Prots, NEW fixed \in BOOLEAN, NEW source \in Sources,
               Mmap2(a, n, p, fixed, source)
        PROVE  Good
    BY <1>5, Mmap2Good
  <1>6. ASSUME NEW a \in Addr, NEW n \in Length, NEW m \in Length, NEW flags, Mremap(a, n, m, flags, 0) PROVE Good
    BY <1>6, MremapGood, SMTT(20), SMTT(30), Zenon
  <1>7. ASSUME NEW a \in Addr, NEW n \in Length, NEW m \in Length, NEW b \in Addr,
               Mremap(a, n, m, {"move", "fixed"}, b)
        PROVE  Good
    BY <1>7, MremapGood, Arguments, SMTT(20), SMTT(30), Zenon
  <1>8. ASSUME NEW r \in Breaks, Brk(r) PROVE Good
    BY <1>8, BrkGood
  <1>9. Next => Good
    BY <1>2, <1>3, <1>4, <1>5, <1>6, <1>7, <1>8, Zenon DEF Next
  <1> QED BY <1>1, <1>9 DEF Good

(* The list of mappings stays sorted and without overlaps, for every image *)
(* and every sequence of calls, as long as no call unmaps the inside of a  *)
(* mapping: what MappingAt, FindHole and mremap take for granted.          *)
THEOREM MappingsStayDisjoint ==
    ASSUME ~MaySplit
    PROVE  Spec => []MappingsDisjoint
  <1>1. MemoryInv => MappingsDisjoint
    <2> SUFFICES ASSUME MemoryInv PROVE MappingsDisjoint
      OBVIOUS
    <2>1. Proper(maps) /\ Len(maps) \in Nat /\ \A i \in 1..Len(maps) : maps[i] \in Mapping
      BY DEF MemoryInv, Proper
    <2>2. \A i \in 1..Len(maps) : maps[i].start < maps[i].end /\ maps[i].end <= Max
      BY <2>1, Fields, Zenon DEF Proper, InOrder
    <2>3. ASSUME NEW i \in 1..(Len(maps) - 1) PROVE maps[i].end <= maps[i + 1].start
      <3>1. i \in 1..Len(maps) /\ i + 1 \in 1..Len(maps) /\ i < i + 1
        BY <2>1
      <3> QED BY <2>1, <3>1 DEF Proper, InOrder
    <2> QED BY <2>2, <2>3 DEF MappingsDisjoint
  <1> QED BY <1>1, MemoryInvInit, MemoryStep, PTL DEF Spec

(* A call that fails, at whichever of its steps, leaves the mappings, the  *)
(* memory and the break alone: what mmap2 and mremap have put in by then   *)
(* is taken out without a trace.                                           *)
THEOREM FailureKeepsAll ==
    ASSUME ~MaySplit
    PROVE  Spec => FailureChangesNothing
  <1>1. ASSUME MemoryInv, [Next]_vars PROVE MemoryInv' /\ [FailureStep]_vars
    BY <1>1, MemoryStep
  <1>2. FailureStep <=> (~call'.ok => UNCHANGED <<maps, mem, brk, heapEnd>>)
    BY DEF FailureStep
  <1> QED BY <1>1, <1>2, MemoryInvInit, PTL DEF Spec, FailureChangesNothing, FailureStep

(* A call keeps the protection and the contents of the pages it is not     *)
(* about, and an mremap the bytes of its mapping.                          *)
THEOREM CallsKeepBytes ==
    ASSUME ~MaySplit
    PROVE  Spec => BytesAreKept
  <1>1. ASSUME MemoryInv, [Next]_vars PROVE MemoryInv' /\ [BytesStep]_vars
    BY <1>1, MemoryStep
  <1> QED BY <1>1, MemoryInvInit, PTL DEF Spec, BytesAreKept, BytesStep
=============================================================================
