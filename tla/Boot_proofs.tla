---------------------------- MODULE Boot_proofs ----------------------------
(***************************************************************************)
(* Proofs about modules Files and Boot: what the image of a running        *)
(* program holds, for any programs, strings and files, and what execve     *)
(* leaves of the caller when it fails.                                     *)
(***************************************************************************)
EXTENDS Boot, Loader_proofs, TLAPS

(* What a program reads on its stack.                                      *)

(* The words at the end of a run of words.                                 *)
LEMMA WordsFrom ==
    ASSUME NEW mem, NEW stack \in Nat, NEW w, NEW n \in Nat,
           \A j \in 1..n : WordIn(mem, stack + Cell * (j - 1), w[j]),
           NEW off \in Nat, NEW i \in Nat \ {0}, off + i <= n, NEW a, a = stack + Cell * off
    PROVE  WordIn(mem, a + Cell * (i - 1), w[off + i])
  <1>1. Cell \in Nat
    BY Sizes
  <1>2. PICK j : j = off + i
    OBVIOUS
  <1>3. j \in 1..n
    BY <1>2
  <1>4. stack + Cell * (j - 1) = a + Cell * (i - 1)
    BY <1>1, <1>2
  <1>5. WordIn(mem, stack + Cell * (j - 1), w[j])
    BY <1>3, Zenon
  <1> QED BY <1>2, <1>4, <1>5, Zenon

(* A word of the image.                                                    *)
LEMMA WordIs ==
    ASSUME NEW a, NEW v, WordIn(image.mem, a, v)
    PROVE  WordAt(a, v)
  BY Zenon DEF WordIn, WordAt

(* Pointers followed by zero, with the strings in place, are a vector.     *)
LEMMA VectorIs ==
    ASSUME NEW size \in Nat, image.size = size, size - Page \in Nat, DOMAIN image.mem = 0..(size - 1),
           NEW vs, IsStrings(vs), NEW n \in Nat, n = Len(vs),
           NEW ptrs, Shown(image.mem, image.stack, size - Page, ptrs, vs),
           NEW a, \A i \in 1..n : WordIn(image.mem, a + Cell * (i - 1), ptrs[i]),
           WordIn(image.mem, a + Cell * n, 0)
    PROVE  VectorAt(a, vs)
  <1>1. WordAt(a + Cell * Len(vs), 0)
    BY WordIs, Zenon
  <1>2. ASSUME NEW i \in 1..n
        PROVE  \E p \in DOMAIN image.mem : WordAt(a + Cell * (i - 1), p) /\ InStack(p) /\ StringAt(p, vs[i])
    <2>1. PICK p : p = ptrs[i]
      OBVIOUS
    <2>2. PICK len \in Nat : len = Len(vs[i])
      BY Zenon DEF IsStrings
    <2>3. p \in Nat /\ image.stack <= p /\ p + len < size - Page /\ StringIn(image.mem, p, vs[i])
      BY <2>1, <2>2, Zenon DEF Shown
    <2>4. Page \in Nat
      BY Sizes, SMTT(20), SMTT(30)
    <2>5. p \in 0..(size - 1) /\ p < size - Page
      BY <2>3, <2>4
    <2>6. InStack(p)
      BY <2>3, <2>5, Zenon DEF InStack
    <2>7. StringAt(p, vs[i])
      BY <2>3, Zenon DEF StringIn, StringAt
    <2>8. WordAt(a + Cell * (i - 1), p)
      BY <2>1, WordIs, Zenon
    <2> QED BY <2>5, <2>6, <2>7, <2>8, Zenon
  <1> QED BY <1>1, <1>2, Zenon DEF VectorAt

(* Two words one after the other are an entry of the auxiliary vector.     *)
LEMMA EntryIs ==
    ASSUME NEW a \in Nat, NEW i \in 1..6, NEW key, NEW val, NEW k, NEW l, k = 2 * i - 1, l = 2 * i,
           WordIn(image.mem, a + Cell * (k - 1), key), WordIn(image.mem, a + Cell * (l - 1), val)
    PROVE  AuxAt(a, i, key, val)
  <1>1. Cell \in Nat
    BY Sizes
  <1>2. a + 2 * Cell * (i - 1) = a + Cell * (k - 1) /\ a + 2 * Cell * (i - 1) + Cell = a + Cell * (l - 1)
    BY <1>1
  <1>3. WordAt(a + Cell * (k - 1), key) /\ WordAt(a + Cell * (l - 1), val)
    BY WordIs, Zenon
  <1> QED BY <1>2, <1>3, Zenon DEF AuxAt

IsAuxv(auxv, e, dynamic, at) ==
    /\ auxv[1] = <<3, e.phdr>> /\ auxv[2] = <<9, e.entry>> /\ auxv[3] = <<25, at>> /\ auxv[4] = <<31, 0>>
    /\ dynamic => auxv[5] = <<7, InterpBase>>

(* The entries the loader writes.                                          *)
LEMMA AuxvEntries ==
    ASSUME NEW e, NEW dynamic \in BOOLEAN, NEW at, NEW auxv, auxv = AuxvOf(e, dynamic, at)
    PROVE  IsAuxv(auxv, e, dynamic, at)
  <1>1. CASE dynamic
    BY <1>1 DEF AuxvOf, IsAuxv
  <1>2. CASE ~dynamic
    BY <1>2 DEF AuxvOf, IsAuxv
  <1> QED BY <1>1, <1>2

EntryWords(aux, n, first, key, val, k, l) ==
    /\ k \in 1..(2 * n) /\ l \in 1..(2 * n)
    /\ aux[k] = key /\ aux[l] = (IF key = 31 THEN first ELSE val)

(* The words of an entry.                                                  *)
LEMMA AuxWords ==
    ASSUME NEW auxv, NEW n \in Nat, n = Len(auxv), NEW first, NEW i \in 1..n, NEW key, NEW val, auxv[i] = <<key, val>>,
           NEW k, NEW l, k = 2 * i - 1, l = 2 * i
    PROVE  EntryWords(AuxOf(auxv, first), n, first, key, val, k, l)
  <1>1. k \in 1..(2 * n) /\ l \in 1..(2 * n) /\ (k + 1) \div 2 = i /\ (l + 1) \div 2 = i /\ k % 2 = 1 /\ l % 2 = 0
    OBVIOUS
  <1>2. PICK entry : entry = auxv[i]
    BY ZenonT(40), SMTT(20), SMTT(30)
  <1>3. entry[1] = key /\ entry[2] = val
    BY <1>2
  <1>4. AuxOf(auxv, first)[k] = entry[1]
    BY <1>1, <1>2, Zenon DEF AuxOf
  <1>5. l % 2 # 1
    BY <1>1
  <1>6. AuxOf(auxv, first)[l] = IF entry[1] = 31 THEN first ELSE entry[2]
    BY <1>1, <1>2, <1>5, Zenon DEF AuxOf
  <1> QED BY <1>1, <1>3, <1>4, <1>6, Zenon DEF EntryWords

(* The end of the auxiliary vector of n entries at a.                      *)
AuxEnds(a, n) == AuxAt(a, n + 1, 0, 0)
AuxIs(a, auxv, n, first) ==
    \A i \in 1..n : \A key, val : auxv[i] = <<key, val>> => AuxAt(a, i, key, IF key = 31 THEN first ELSE val)

EntryNumbers(n, dynamic) ==
    /\ {1, 2, 3, 4} \subseteq 1..n /\ (dynamic => 5 \in 1..n)
    /\ n + 1 = (IF dynamic THEN 6 ELSE 5)

(* The numbers of the entries.                                             *)
LEMMA NumberedEntries ==
    ASSUME NEW dynamic \in BOOLEAN, NEW n, n = (IF dynamic THEN 5 ELSE 4)
    PROVE  EntryNumbers(n, dynamic)
  <1>1. CASE dynamic
    BY <1>1 DEF EntryNumbers
  <1>2. CASE ~dynamic
    BY <1>2 DEF EntryNumbers
  <1> QED BY <1>1, <1>2

(* The entry behind the last.                                              *)
LEMMA NextEntry ==
    ASSUME NEW n \in 0..5
    PROVE  n + 1 \in 1..6
  OBVIOUS

WordsShow(stack, envAt, auxAt, args, envp, auxv, n, first) ==
    /\ WordAt(stack, Len(args)) /\ VectorAt(stack + Cell, args) /\ VectorAt(envAt, envp)
    /\ AuxIs(auxAt, auxv, n, first) /\ AuxEnds(auxAt, n)

(* The vectors and the auxiliary vector in the words.                      *)
LEMMA WordsRead ==
    ASSUME NEW size \in Nat, size - Page \in Nat, NEW sp, NEW args, IsStrings(args), NEW envp, IsStrings(envp),
           NEW auxv, NEW n \in 0..5, n = Len(auxv), NEW p, NEW q, NEW w, Stacked(sp, size, args, envp, auxv, p, q, w, image),
           NEW envAt, envAt = image.stack + Cell * (Len(args) + 2),
           NEW auxAt, auxAt = envAt + Cell * (Len(envp) + 1)
    PROVE  WordsShow(image.stack, envAt, auxAt, args, envp, auxv, n, p[1])
  <1>1. PICK na \in Nat, ne \in Nat : na = Len(args) /\ ne = Len(envp)
    BY Zenon DEF IsStrings
  <1>2. PICK mem, aux : mem = image.mem /\ aux = AuxOf(auxv, p[1])
    OBVIOUS
  <1>3. PICK stack \in Nat : stack = image.stack
    BY Zenon DEF Stacked
  <1>4. Cell \in Nat
    BY Sizes, SMTT(20), SMTT(30)
  <1>5. PICK off : off = na + ne + 3
    OBVIOUS
  <1>6. PICK argAt : argAt = stack + Cell
    OBVIOUS
  <1>7. /\ argAt = stack + Cell * 1 /\ stack = stack + Cell * 0 /\ envAt = stack + Cell * (na + 2)
        /\ auxAt = stack + Cell * off /\ auxAt \in Nat /\ off \in Nat /\ na + 2 \in Nat
    <2>1. envAt = stack + Cell * (na + 2) /\ auxAt = envAt + Cell * (ne + 1)
      BY <1>1, <1>3, Zenon
    <2>2. Cell * (na + 2) \in Nat /\ Cell * (ne + 1) \in Nat /\ Cell * off = Cell * (na + 2) + Cell * (ne + 1)
      BY <1>4, <1>5, SMTT(20), SMTT(30)
    <2> QED BY <1>4, <1>5, <1>6, <2>1, <2>2, SMTT(20), SMTT(30)
  <1>8. PICK nx \in Nat, len \in Nat : nx = 2 * n /\ len = na + ne + nx + 5
    OBVIOUS
  <1>9. WordsAre(w, na, ne, nx, na, p, q, aux)
    BY <1>1, <1>2, <1>8, Zenon DEF Stacked
  <1>10. Len(w) = len
    BY <1>8, <1>9, Zenon DEF WordsAre
  <1>11. \A j \in 1..len : WordIn(mem, stack + Cell * (j - 1), w[j])
    BY <1>2, <1>3, <1>10, Zenon DEF Stacked
  <1>12. ASSUME NEW o \in Nat, NEW i \in Nat \ {0}, o + i <= len, NEW a, a = stack + Cell * o
         PROVE  WordIn(mem, a + Cell * (i - 1), w[o + i])
    BY <1>11, <1>12, WordsFrom, Zenon
  <1>13. WordAt(image.stack, Len(args))
    <2>1. 0 + 1 <= len /\ 0 \in Nat /\ 1 \in Nat \ {0} /\ 0 + 1 = 1 /\ stack + Cell * (1 - 1) = stack
      BY <1>4, <1>8
    <2>2. WordIn(mem, stack + Cell * (1 - 1), w[0 + 1])
      BY <1>7, <1>12, <2>1, Zenon
    <2>3. w[1] = na
      BY <1>9, Zenon DEF WordsAre
    <2>4. WordIn(mem, stack, na)
      BY <2>1, <2>2, <2>3, Zenon
    <2> QED BY <1>1, <1>2, <1>3, <2>4, WordIs, Zenon
  <1>14. DOMAIN image.mem = 0..(size - 1) /\ image.size = size
    BY Zenon DEF Stacked
  <1>15. VectorAt(image.stack + Cell, args)
    <2>1. ASSUME NEW i \in 1..na PROVE WordIn(mem, argAt + Cell * (i - 1), p[i])
      <3>1. 1 + i <= len /\ 1 \in Nat /\ i \in Nat \ {0}
        BY <1>8
      <3>2. WordIn(mem, argAt + Cell * (i - 1), w[1 + i])
        BY <1>7, <1>12, <3>1, Zenon
      <3>3. w[1 + i] = p[i]
        BY <1>9, Zenon DEF WordsAre
      <3> QED BY <3>2, <3>3, Zenon
    <2>2. WordIn(mem, argAt + Cell * na, 0)
      <3>1. /\ 1 + (na + 1) <= len /\ 1 \in Nat /\ na + 1 \in Nat \ {0} /\ 1 + (na + 1) = na + 2
            /\ (na + 1) - 1 = na
        BY <1>8
      <3>2. WordIn(mem, argAt + Cell * ((na + 1) - 1), w[1 + (na + 1)])
        BY <1>7, <1>12, <3>1, Zenon
      <3>3. w[na + 2] = 0
        BY <1>9, Zenon DEF WordsAre
      <3> QED BY <3>1, <3>2, <3>3, Zenon
    <2>3. Shown(mem, image.stack, size - Page, p, args)
      BY <1>2, Zenon DEF Stacked
    <2>4. VectorAt(argAt, args)
      BY <1>1, <1>2, <1>14, <2>1, <2>2, <2>3, VectorIs, Zenon
    <2> QED BY <1>3, <1>6, <2>4, Zenon
  <1>16. VectorAt(envAt, envp)
    <2>1. ASSUME NEW i \in 1..ne PROVE WordIn(mem, envAt + Cell * (i - 1), q[i])
      <3>1. (na + 2) + i <= len /\ i \in Nat \ {0}
        BY <1>8
      <3>2. WordIn(mem, envAt + Cell * (i - 1), w[na + 2 + i])
        BY <1>7, <1>12, <3>1, Zenon
      <3>3. w[na + 2 + i] = q[i]
        BY <1>9, Zenon DEF WordsAre
      <3> QED BY <3>2, <3>3, Zenon
    <2>2. WordIn(mem, envAt + Cell * ne, 0)
      <3>1. /\ (na + 2) + (ne + 1) <= len /\ ne + 1 \in Nat \ {0} /\ (na + 2) + (ne + 1) = na + ne + 3
            /\ (ne + 1) - 1 = ne
        BY <1>8
      <3>2. WordIn(mem, envAt + Cell * ((ne + 1) - 1), w[(na + 2) + (ne + 1)])
        BY <1>7, <1>12, <3>1, Zenon
      <3>3. w[na + ne + 3] = 0
        BY <1>9, Zenon DEF WordsAre
      <3> QED BY <3>1, <3>2, <3>3, Zenon
    <2>3. Shown(mem, image.stack, size - Page, q, envp)
      BY <1>2, Zenon DEF Stacked
    <2> QED BY <1>1, <1>2, <1>14, <2>1, <2>2, <2>3, VectorIs, Zenon
  <1>17. ASSUME NEW i \in 1..n, NEW key, NEW val, auxv[i] = <<key, val>>
         PROVE  AuxAt(auxAt, i, key, IF key = 31 THEN p[1] ELSE val)
    <2>1. PICK k, l : k = 2 * i - 1 /\ l = 2 * i
      OBVIOUS
    <2>2. n \in Nat /\ i \in 1..6
      BY SMTT(20), SMTT(30)
    <2>3. PICK second : second = IF key = 31 THEN p[1] ELSE val
      OBVIOUS
    <2>4. k \in 1..nx /\ l \in 1..nx /\ aux[k] = key /\ aux[l] = second
      <3>1. EntryWords(AuxOf(auxv, p[1]), n, p[1], key, val, k, l)
        BY <1>17, <2>1, <2>2, AuxWords, Zenon
      <3> QED BY <1>2, <1>8, <2>3, <3>1, Zenon DEF EntryWords
    <2>5. k \in Nat \ {0} /\ l \in Nat \ {0} /\ off + k <= len /\ off + l <= len
      BY <1>5, <1>8, <2>4, SMTT(20), SMTT(30)
    <2>6. WordIn(mem, auxAt + Cell * (k - 1), w[off + k]) /\ WordIn(mem, auxAt + Cell * (l - 1), w[off + l])
      BY <1>7, <1>12, <2>5, Zenon
    <2>7. w[off + k] = aux[k] /\ w[off + l] = aux[l]
      BY <1>5, <1>9, <2>4, Zenon DEF WordsAre
    <2>8. WordIn(image.mem, auxAt + Cell * (k - 1), key) /\ WordIn(image.mem, auxAt + Cell * (l - 1), second)
      BY <1>2, <2>4, <2>6, <2>7, Zenon
    <2>9. AuxAt(auxAt, i, key, second)
      BY <1>7, <2>1, <2>2, <2>8, EntryIs, Zenon
    <2> QED BY <2>3, <2>9, Zenon
  <1>18. AuxEnds(auxAt, n)
    <2>0. n + 1 \in 1..6
      BY NextEntry, Zenon
    <2>a. PICK i \in 1..6 : i = n + 1
      BY <2>0, Zenon
    <2>b. PICK k, l : k = 2 * i - 1 /\ l = 2 * i
      OBVIOUS
    <2>1. i = n + 1 /\ k = 2 * i - 1 /\ l = 2 * i
      BY <2>a, <2>b, Zenon
    <2>2. /\ i \in 1..6 /\ k \in Nat \ {0} /\ l \in Nat \ {0} /\ off + k <= len /\ off + l <= len
          /\ off + k = na + ne + nx + 4 /\ off + l = na + ne + nx + 5
      <3>1. i \in 1..6 /\ k = nx + 1 /\ l = nx + 2
        BY <1>8, <2>1
      <3> QED BY <1>5, <1>8, <3>1, SMTT(20), SMTT(30)
    <2>3. WordIn(mem, auxAt + Cell * (k - 1), w[off + k]) /\ WordIn(mem, auxAt + Cell * (l - 1), w[off + l])
      BY <1>7, <1>12, <2>2, Zenon
    <2>4. w[na + ne + nx + 4] = 0 /\ w[na + ne + nx + 5] = 0
      BY <1>9, Zenon DEF WordsAre
    <2>5. WordIn(image.mem, auxAt + Cell * (k - 1), 0) /\ WordIn(image.mem, auxAt + Cell * (l - 1), 0)
      BY <1>2, <2>2, <2>3, <2>4, Zenon
    <2>6. AuxAt(auxAt, i, 0, 0)
      BY <1>7, <2>1, <2>2, <2>5, EntryIs, Zenon
    <2> QED BY <2>1, <2>6, Zenon DEF AuxEnds
  <1> QED BY <1>13, <1>15, <1>16, <1>17, <1>18, Zenon DEF AuxIs, WordsShow

(* A program reads its stack as the ABI says.                              *)
LEMMA StackReads ==
    ASSUME NEW size \in Nat, Multiple(size, Page), DefaultMemory <= size, NEW sp,
           IsStrings(ran.argv), Len(ran.argv) > 0, IsStrings(ran.envp), NEW dynamic \in BOOLEAN, ran.interp.ok = dynamic,
           NEW auxv, auxv = AuxvOf(ran.prog, dynamic, (size - Page) - Align),
           NEW p, NEW q, NEW w, Stacked(sp, size, ran.argv, ran.envp, auxv, p, q, w, image)
    PROVE  StackIsReadable
  <1>1. PICK args, envp : args = ran.argv /\ envp = ran.envp
    OBVIOUS
  <1>2. PICK na \in Nat : na = Len(args) /\ na > 0
    <2>1. Len(args) \in Nat /\ Len(args) > 0
      BY <1>1, Zenon DEF IsStrings
    <2> QED BY <2>1, Zenon
  <1>3. PICK floor \in Nat, top \in Nat, low \in Nat : floor = size - StackReserve /\ top = size - Page /\ low = top - Align
    BY StackSizes, Zenon
  <1>4. Multiple(top, Align) /\ low + Align = top /\ top < size
    BY <1>3, StackSizes, Zenon
  <1>5. PICK stack \in Nat : stack = image.stack
    BY Zenon DEF Stacked
  <1>6. PICK envAt : envAt = stack + Cell * (Len(args) + 2)
    BY SMTT(20), SMTT(30)
  <1>7. PICK auxAt : auxAt = envAt + Cell * (Len(envp) + 1)
    OBVIOUS
  <1>8. PICK n \in 0..5 : n = Len(auxv) /\ n = (IF dynamic THEN 5 ELSE 4)
    <2>1. Len(auxv) = IF dynamic THEN 5 ELSE 4
      BY AuxvLength, Zenon
    <2>2. 5 \in 0..5 /\ 4 \in 0..5
      OBVIOUS
    <2> QED BY <2>1, <2>2, Zenon
  <1>9. /\ WordAt(stack, Len(args)) /\ VectorAt(stack + Cell, args) /\ VectorAt(envAt, envp)
        /\ AuxIs(auxAt, auxv, n, p[1]) /\ AuxEnds(auxAt, n)
    <2>1. WordsShow(image.stack, envAt, auxAt, args, envp, auxv, n, p[1])
      BY <1>1, <1>3, <1>5, <1>6, <1>7, <1>8, WordsRead, Zenon
    <2> QED BY <1>5, <2>1, Zenon DEF WordsShow
  <1>10. /\ auxv[1] = <<3, ran.prog.phdr>> /\ auxv[2] = <<9, ran.prog.entry>> /\ auxv[3] = <<25, low>>
         /\ auxv[4] = <<31, 0>> /\ (dynamic => auxv[5] = <<7, InterpBase>>)
    <2>1. IsAuxv(auxv, ran.prog, dynamic, low)
      BY <1>3, AuxvEntries, Zenon
    <2> QED BY <2>1, Zenon DEF IsAuxv
  <1>11. /\ 1 \in 1..n /\ 2 \in 1..n /\ 3 \in 1..n /\ 4 \in 1..n /\ (dynamic => 5 \in 1..n)
         /\ n + 1 = (IF dynamic THEN 6 ELSE 5)
    <2>1. EntryNumbers(n, dynamic)
      BY <1>8, NumberedEntries, Zenon
    <2> QED BY <2>1, Zenon DEF EntryNumbers
  <1>12. 3 # 31 /\ 9 # 31 /\ 25 # 31 /\ 7 # 31
    OBVIOUS
  <1>13. AuxAt(auxAt, 1, 3, ran.prog.phdr) /\ AuxAt(auxAt, 2, 9, ran.prog.entry)
    BY <1>9, <1>10, <1>11, <1>12, Zenon DEF AuxIs
  <1>14. AuxAt(auxAt, 3, 25, low) /\ AuxAt(auxAt, 4, 31, p[1]) /\ (dynamic => AuxAt(auxAt, 5, 7, InterpBase))
    BY <1>9, <1>10, <1>11, <1>12, Zenon DEF AuxIs
  <1>15. AuxAt(auxAt, IF dynamic THEN 6 ELSE 5, 0, 0)
    BY <1>9, <1>11, Zenon DEF AuxEnds
  <1>16. Align \in Nat \ {0} /\ Cell \in Nat \ {0} /\ Page \in Nat
    BY Sizes
  <1>17. /\ image.size = size /\ floor <= stack /\ Multiple(stack, Cell) /\ DOMAIN image.mem = 0..(size - 1)
         /\ Shown(image.mem, stack, top, p, args)
         /\ \E d \in Nat : Multiple(d, Align) /\ stack <= d /\ Shown(image.mem, d, top, p, args)
    BY <1>1, <1>3, <1>5, Zenon DEF Stacked, InReserve
  <1>18. stack % Cell = 0
    BY <1>16, <1>17, MultipleIs, Zenon
  <1>19. PICK f, v : f = p[1] /\ v = args[1]
    BY SMTT(20), SMTT(30)
  <1>20. 1 \in 1..na
    BY <1>2
  <1>21. PICK len \in Nat : len = Len(v)
    BY <1>1, <1>2, <1>19, <1>20, Zenon DEF IsStrings
  <1>22. f \in Nat /\ f + len < top /\ StringIn(image.mem, f, v)
    BY <1>2, <1>17, <1>19, <1>20, <1>21, Zenon DEF Shown
  <1>23. f \in DOMAIN image.mem /\ StringAt(f, v)
    <2>1. f \in 0..(size - 1)
      BY <1>4, <1>22
    <2> QED BY <1>17, <1>22, <2>1, Zenon DEF StringIn, StringAt
  <1>24. low \in DOMAIN image.mem /\ InStack(low) /\ InStack(low + Align - 1)
    <2>1. PICK d \in Nat : Multiple(d, Align) /\ stack <= d /\ Shown(image.mem, d, top, p, args)
      BY <1>17
    <2>2. d <= f
      BY <1>2, <1>19, <1>20, <2>1, Zenon DEF Shown
    <2>3. d < top
      BY <1>22, <2>2, SMTT(20), SMTT(30)
    <2>4. d + Align <= top
      BY <1>4, <1>16, <2>1, <2>3, MultiplesApart, SMTT(20), SMTT(30)
    <2>5. stack <= low /\ low < top /\ stack <= low + Align - 1 /\ low + Align - 1 < top /\ low \in 0..(size - 1)
      BY <1>4, <1>16, <2>1, <2>4, SMTT(20), SMTT(30)
    <2> QED BY <1>3, <1>5, <1>17, <2>5, Zenon DEF InStack
  <1>25. stack >= floor
    BY <1>17, ZenonT(40), SMTT(20), SMTT(30)
  <1> QED BY <1>1, <1>3, <1>5, <1>6, <1>7, <1>9, <1>13, <1>14, <1>15, <1>17, <1>18, <1>19, <1>23, <1>24, <1>25, Zenon
          DEF StackIsReadable

-----------------------------------------------------------------------------
(* The segments of the image.                                              *)

SegmentsOf(e, interp, dynamic) == Placed(e, 0) \o (IF dynamic THEN Placed(interp, InterpBase) ELSE <<>>)
PlacedFrom(L, off, e, base) == \A i \in 1..Len(e.segs) : IsPlaced(L[off + i], e.segs[i], base)
Listed(L, e, interp, dynamic) ==
    /\ Len(L) = Len(e.segs) + (IF dynamic THEN Len(interp.segs) ELSE 0)
    /\ PlacedFrom(L, 0, e, 0) /\ (dynamic => PlacedFrom(L, Len(e.segs), interp, InterpBase))

(* The segments of one program in a list.                                  *)
LEMMA PlacedIs ==
    ASSUME NEW e, IsProgram(e), NEW base, NEW P, P = Placed(e, base), NEW n \in Nat, n = Len(e.segs)
    PROVE  IsVector(P, n) /\ \A i \in 1..n : IsPlaced(P[i], e.segs[i], base)
  <1>1. P = [i \in 1..n |-> [at |-> base + e.segs[i].vaddr, memsz |-> e.segs[i].memsz,
                             file |-> e.segs[i].file, flags |-> e.segs[i].flags]]
    BY Zenon DEF Placed
  <1>2. IsVector(P, n)
    BY <1>1, Zenon DEF IsVector
  <1>3. ASSUME NEW i \in 1..n PROVE IsPlaced(P[i], e.segs[i], base)
    <2>1. PICK p, at : p = e.segs[i] /\ at = base + e.segs[i].vaddr
      BY ZenonT(40), SMTT(20), SMTT(30)
    <2>2. P[i] = [at |-> at, memsz |-> p.memsz, file |-> p.file, flags |-> p.flags]
      BY <1>1, <2>1, Zenon
    <2>3. P[i].at = at /\ P[i].memsz = p.memsz /\ P[i].file = p.file /\ P[i].flags = p.flags
      BY <2>2, SMT
    <2> QED BY <2>1, <2>3, Zenon DEF IsPlaced
  <1> QED BY <1>2, <1>3, Zenon

(* Vectors are sequences.                                                  *)
LEMMA VectorsAre ==
    ASSUME NEW P, NEW m \in Nat, IsVector(P, m), NEW Q, NEW n \in Nat, IsVector(Q, n)
    PROVE  \E S : P \in Seq(S) /\ Len(P) = m /\ Q \in Seq(S) /\ Len(Q) = n
  <1>1. PICK S : S = {P[i] : i \in 1..m} \cup {Q[i] : i \in 1..n}
    BY ZenonT(40), SMTT(20), SMTT(30)
  <1>2. P \in [1..m -> S] /\ Q \in [1..n -> S]
    BY <1>1, Zenon DEF IsVector
  <1>3. P \in Seq(S) /\ Len(P) = m
    BY <1>2
  <1>4. Q \in Seq(S) /\ Len(Q) = n
    BY <1>2
  <1> QED BY <1>3, <1>4, Zenon

(* The segments of the program and of the interpreter in a list.           *)
LEMMA SegmentsListed ==
    ASSUME NEW e, IsProgram(e), NEW dynamic \in BOOLEAN, NEW interp, dynamic => IsProgram(interp),
           NEW L, L = SegmentsOf(e, interp, dynamic)
    PROVE  Listed(L, e, interp, dynamic)
  <1>1. PICK m \in Nat : m = Len(e.segs)
    BY Zenon DEF IsProgram
  <1>2. PICK P : P = Placed(e, 0)
    OBVIOUS
  <1>3. IsVector(P, m) /\ \A i \in 1..m : IsPlaced(P[i], e.segs[i], 0)
    BY <1>1, <1>2, PlacedIs, Zenon
  <1>4. \A i \in 1..m : 0 + i = i
    OBVIOUS
  <1>5. CASE dynamic
    <2>1. PICK n \in Nat : n = Len(interp.segs)
      BY <1>5, Zenon DEF IsProgram
    <2>2. PICK Q : Q = Placed(interp, InterpBase)
      OBVIOUS
    <2>3. IsVector(Q, n) /\ \A i \in 1..n : IsPlaced(Q[i], interp.segs[i], InterpBase)
      BY <1>5, <2>1, <2>2, PlacedIs, Zenon
    <2>4. PICK S : P \in Seq(S) /\ Len(P) = m /\ Q \in Seq(S) /\ Len(Q) = n
      BY <1>3, <2>3, VectorsAre, Zenon
    <2>5. L = P \o Q
      BY <1>2, <1>5, <2>2, Zenon DEF SegmentsOf
    <2>6. Follows(S, P, Q, m, n, L)
      BY <2>4, <2>5, Behind, Zenon
    <2>7. Len(L) = m + n /\ (\A i \in 1..m : L[i] = P[i]) /\ (\A i \in 1..n : L[m + i] = Q[i])
      BY <2>6, Zenon DEF Follows
    <2> QED BY <1>1, <1>3, <1>4, <1>5, <2>1, <2>3, <2>7, Zenon DEF Listed, PlacedFrom
  <1>6. CASE ~dynamic
    <2>1. PICK S : P \in Seq(S) /\ Len(P) = m /\ P \in Seq(S) /\ Len(P) = m
      BY <1>3, VectorsAre, Zenon
    <2>2. L = P \o <<>>
      BY <1>2, <1>6, Zenon DEF SegmentsOf
    <2>3. L = P /\ m + 0 = m
      BY <2>1, <2>2, SMTT(20), SMTT(30)
    <2> QED BY <1>1, <1>3, <1>4, <1>6, <2>1, <2>3, Zenon DEF Listed, PlacedFrom
  <1> QED BY <1>5, <1>6

(* The segments of the list have pages of their own.                       *)
OwnPagesOf(L) ==
    \A i, j \in 1..Len(L) : L[i].memsz > 0 /\ (i # j => PagesOf(L[i]) \cap PagesOf(L[j]) = {})

(* A number up to a sum is one up to the first part, or behind it.         *)
LEMMA TwoParts ==
    ASSUME NEW m \in Nat, NEW n \in Nat, NEW i \in 1..(m + n)
    PROVE  i \in 1..m \/ \E j \in 1..n : i = m + j
  <1>1. CASE i <= m
    BY <1>1
  <1>2. CASE ~(i <= m)
    <2>1. PICK j : j = i - m
      OBVIOUS
    <2>2. j \in 1..n /\ i = m + j
      BY <1>2, <2>1
    <2> QED BY <2>2, Zenon
  <1> QED BY <1>1, <1>2, SMTT(20), SMTT(30)

IsLoadable(s) ==
    s.at \in Nat /\ s.memsz \in Nat /\ Len(s.file) \in Nat /\ Len(s.file) <= s.memsz

(* A placed segment of a program the loader accepts.                       *)
LEMMA PlacedLoadable ==
    ASSUME NEW e, IsProgram(e), validateELF(e), NEW base \in Nat, NEW i \in 1..Len(e.segs),
           NEW s, IsPlaced(s, e.segs[i], base)
    PROVE  IsLoadable(s)
  <1>1. PICK p : p = e.segs[i]
    OBVIOUS
  <1>2. p.vaddr \in Nat /\ p.memsz \in Nat /\ Len(p.file) \in Nat
    BY <1>1, ProgramSegments, Zenon DEF IsSegment
  <1>3. Len(p.file) <= p.memsz
    BY <1>1, Zenon DEF validateELF
  <1>4. s.at = base + p.vaddr /\ s.memsz = p.memsz /\ s.file = p.file
    BY <1>1, Zenon DEF IsPlaced
  <1>5. s.at \in Nat
    BY <1>2, <1>4
  <1> QED BY <1>2, <1>3, <1>4, <1>5, Zenon DEF IsLoadable

(* The segments the linkers make are a list of the loader.                 *)
LEMMA OwnSegments ==
    ASSUME NEW e, IsProgram(e), validateELF(e), NEW dynamic \in BOOLEAN,
           NEW interp, dynamic => IsProgram(interp) /\ validateELF(interp),
           NEW L, Listed(L, e, interp, dynamic), OwnPagesOf(L)
    PROVE  OwnList(L)
  <1>1. PICK m \in Nat : m = Len(e.segs)
    BY Zenon DEF IsProgram
  <1>2. 0 \in Nat /\ InterpBase \in Nat
    BY Sizes
  <1>3. \A i \in 1..m : 0 + i = i
    OBVIOUS
  <1>4. ASSUME NEW i \in 1..m PROVE IsLoadable(L[i])
    <2>1. IsPlaced(L[i], e.segs[i], 0)
      BY <1>1, <1>3, Zenon DEF Listed, PlacedFrom
    <2> QED BY <1>1, <1>2, <2>1, PlacedLoadable, Zenon
  <1>5. Len(L) \in Nat /\ \A i \in 1..Len(L) : IsLoadable(L[i])
    <2>1. CASE dynamic
      <3>1. PICK n \in Nat : n = Len(interp.segs)
        BY <2>1, Zenon DEF IsProgram
      <3>2. Len(L) = m + n
        BY <1>1, <2>1, <3>1, Zenon DEF Listed
      <3>3. m + n \in Nat
        OBVIOUS
      <3>4. ASSUME NEW j \in 1..n PROVE IsLoadable(L[m + j])
        <4>1. IsPlaced(L[m + j], interp.segs[j], InterpBase)
          BY <1>1, <2>1, <3>1, Zenon DEF Listed, PlacedFrom
        <4> QED BY <1>2, <2>1, <3>1, <4>1, PlacedLoadable, Zenon
      <3>5. ASSUME NEW i \in 1..(m + n) PROVE IsLoadable(L[i])
        BY <1>4, <3>4, TwoParts, Zenon
      <3> QED BY <3>2, <3>3, <3>5, Zenon
    <2>2. CASE ~dynamic
      <3>1. Len(L) = m + 0
        BY <1>1, <2>2, Zenon DEF Listed
      <3>2. m + 0 = m
        OBVIOUS
      <3> QED BY <1>4, <3>1, <3>2, Zenon
    <2> QED BY <2>1, <2>2
  <1>6. \A i, j \in 1..Len(L) : L[i].memsz > 0 /\ (i # j => PagesOf(L[i]) \cap PagesOf(L[j]) = {})
    BY Zenon DEF OwnPagesOf
  <1> QED BY <1>5, <1>6, Zenon DEF OwnList, IsLoadable

(* The images are loaded with all their segments.                          *)
LEMMA ImagesLoad ==
    ASSUME NEW e, IsProgram(e), NEW dynamic \in BOOLEAN, dynamic = (e.interp # NoName),
           NEW interp, dynamic => IsProgram(interp), NEW size, NEW loaded, Built(e, interp, size, loaded),
           NEW L, Listed(L, e, interp, dynamic), OwnList(L)
    PROVE  Loaded(loaded, size, L, Len(L))
  <1>1. PICK m \in Nat : m = Len(e.segs)
    BY Zenon DEF IsProgram
  <1>2. 0 \in Nat /\ InterpBase \in Nat
    BY Sizes
  <1>3. size \in Nat /\ size <= Word - 1 /\ loaded = LoadImages(e, interp, size) /\ IsSpace(loaded, size)
    BY Zenon DEF Built
  <1>4. loaded.ok = TRUE /\ Failed.ok = FALSE
    BY <1>3, SpaceIsOk, FailedStays, Zenon
  <1>5. PICK first : first = loadSegments(Space(size), e, 0, ProgramName)
    OBVIOUS
  <1>6. loaded = (IF dynamic /\ first.ok THEN loadSegments(first, interp, InterpBase, InterpreterName) ELSE first)
    BY <1>3, <1>5, Zenon DEF LoadImages
  <1>7. loaded # Failed
    BY <1>4, Zenon
  <1>8. first # Failed
    BY <1>4, <1>6, <1>7, Zenon
  <1>9. ProgramName # StackName /\ InterpreterName # StackName
    BY Zenon DEF ProgramName, InterpreterName, StackName
  <1>10. Len(L) \in Nat
    BY Zenon DEF OwnList
  <1>11. 0 + m = m /\ 0 + m <= Len(L)
    <2>1. CASE dynamic
      <3>1. PICK n \in Nat : n = Len(interp.segs)
        BY <2>1, Zenon DEF IsProgram
      <3>2. Len(L) = m + n
        BY <1>1, <2>1, <3>1, Zenon DEF Listed
      <3> QED BY <3>2
    <2>2. CASE ~dynamic
      <3>1. Len(L) = m + 0
        BY <1>1, <2>2, Zenon DEF Listed
      <3> QED BY <3>1
    <2> QED BY <2>1, <2>2, SMTT(20), SMTT(30)
  <1>12. Loaded(first, size, L, 0 + m)
    <2>1. Loaded(Space(size), size, L, 0)
      BY <1>3, SpaceIsLoaded, Zenon
    <2>2. \A i \in 1..Len(e.segs) : IsPlaced(L[0 + i], e.segs[i], 0)
      BY Zenon DEF Listed, PlacedFrom
    <2> QED BY <1>1, <1>2, <1>3, <1>5, <1>8, <1>9, <1>11, <2>1, <2>2, SegmentsLoad, Zenon
  <1>13. CASE dynamic
    <2>1. PICK n \in Nat : n = Len(interp.segs)
      BY <1>13, Zenon DEF IsProgram
    <2>2. Len(L) = m + n
      BY <1>1, <1>13, <2>1, Zenon DEF Listed
    <2>3. m + n <= Len(L)
      BY <2>2
    <2>4. \A i \in 1..n : IsPlaced(L[m + i], interp.segs[i], InterpBase)
      BY <1>1, <1>13, <2>1, Zenon DEF Listed, PlacedFrom
    <2>5. first.ok
      <3>1. IsSpace(first, size)
        BY <1>12, Zenon DEF Loaded
      <3> QED BY <3>1, SpaceIsOk, Zenon
    <2>6. loaded = loadSegments(first, interp, InterpBase, InterpreterName)
      BY <1>6, <1>13, <2>5, Zenon
    <2>7. Loaded(first, size, L, m)
      BY <1>11, <1>12, Zenon
    <2>8. Loaded(loaded, size, L, m + n)
      BY <1>2, <1>3, <1>7, <1>9, <1>13, <2>1, <2>3, <2>4, <2>6, <2>7, SegmentsLoad, Zenon
    <2> QED BY <2>2, <2>8, Zenon
  <1>14. CASE ~dynamic
    <2>1. Len(L) = m + 0 /\ m + 0 = m
      <3>1. Len(L) = m + 0
        BY <1>1, <1>14, Zenon DEF Listed
      <3> QED BY <3>1, SMTT(20), SMTT(30)
    <2>2. loaded = first
      BY <1>6, <1>14, Zenon
    <2> QED BY <1>11, <1>12, <2>1, <2>2, Zenon
  <1> QED BY <1>13, <1>14

SegmentShown(s, img) ==
    \A k \in 0..(s.memsz - 1) :
        /\ img.mem[s.at + k] = (IF k < Len(s.file) THEN s.file[k + 1] ELSE Zero)
        /\ \E m \in img.maps : /\ MappingAt(img, s.at + k) = {m}
                               /\ m.prot = s.flags /\ m.name # StackName
StackShown(img) ==
    \A a \in img.stack..(img.size - Page - 1) :
        \E m \in img.maps : MappingAt(img, a) = {m} /\ m.name = StackName

(* The parts of the mapping of the stack.                                  *)
LEMMA StackMappingIs ==
    ASSUME NEW size
    PROVE  /\ StackMapping(size).start = size - StackReserve /\ StackMapping(size).end = size - Page
           /\ StackMapping(size).name = StackName
  <1>1. PICK name, start, end : name = StackName /\ start = size - StackReserve /\ end = size - Page
    OBVIOUS
  <1>2. StackMapping(size) = [start |-> start, end |-> end, prot |-> {"r", "w"}, name |-> name]
    BY <1>1, Zenon DEF StackMapping
  <1>3. StackMapping(size).start = start /\ StackMapping(size).end = end /\ StackMapping(size).name = name
    BY <1>2, SMT
  <1> QED BY <1>1, <1>3, Zenon

Holds(m, a) == m.start <= a /\ a < m.end

(* An address in two mappings makes them overlap.                          *)
LEMMA HeldTwice ==
    ASSUME NEW m, m.start \in Nat, m.end \in Nat, NEW start \in Nat, NEW end \in Nat, NEW a \in Nat,
           Holds(m, a), start <= a, a < end
    PROVE  Overlaps(m, start, end)
  BY DEF Holds, Overlaps

(* A mapping that alone holds an address is what MappingAt finds.          *)
LEMMA HeldOnce ==
    ASSUME NEW img, NEW a, NEW m \in img.maps, Holds(m, a), \A o \in img.maps : Holds(o, a) => o = m
    PROVE  MappingAt(img, a) = {m}
  BY Zenon DEF Holds, MappingAt

(* The image shows a loaded segment, which the stack has not touched.      *)
LEMMA SegmentHolds ==
    ASSUME NEW size \in Nat, Multiple(size, Page), DefaultMemory <= size, NEW L, OwnList(L), NEW c \in Nat, c = Len(L),
           NEW sp, Loaded(sp, size, L, c), NEW img, img.maps = sp.maps \cup {StackMapping(size)},
           \A x \in 0..(size - 1) : ~InReserve(size, x) => img.mem[x] = sp.mem[x],
           \A m \in sp.maps : ~Overlaps(m, size - StackReserve, size - Page), NEW i \in 1..c
    PROVE  SegmentShown(L[i], img)
  <1>1. PICK s : s = L[i]
    OBVIOUS
  <1>2. s.at \in Nat /\ s.memsz \in Nat
    BY <1>1, Zenon DEF OwnList
  <1>3. PICK floor \in Nat, top \in Nat : floor = size - StackReserve /\ top = size - Page
    BY StackSizes, Zenon
  <1>4. PICK end : end = EndOf(s)
    OBVIOUS
  <1>5. end = s.at + s.memsz /\ end <= size
    BY <1>1, <1>4, Zenon DEF Loaded, Fits, EndOf
  <1>6. PICK m \in sp.maps : m.start <= s.at /\ end <= m.end /\ m.prot = s.flags
    BY <1>1, <1>4, Zenon DEF Loaded, Covered
  <1>7. \A o \in sp.maps : o.start \in Nat /\ o.end \in Nat /\ o.name # StackName
    BY Zenon DEF Loaded, Ranges
  <1>8. ASSUME NEW k \in 0..(s.memsz - 1)
        PROVE  /\ img.mem[s.at + k] = (IF k < Len(s.file) THEN s.file[k + 1] ELSE Zero)
               /\ \E o \in img.maps : MappingAt(img, s.at + k) = {o} /\ o.prot = s.flags /\ o.name # StackName
    <2>1. PICK a : a = s.at + k
      BY SMTT(20), SMTT(30)
    <2>2. PICK start \in Nat, stop \in Nat : start = m.start /\ stop = m.end
      BY <1>7, SMTT(20), SMTT(30)
    <2>3. a \in Nat /\ a \in 0..(size - 1) /\ start <= a /\ a < stop
      <3>1. start <= s.at /\ end <= stop
        BY <1>6, <2>2, Zenon
      <3>2. PICK at \in Nat, size1 \in Nat : at = s.at /\ size1 = s.memsz
        BY <1>2
      <3>3. start <= at /\ end <= stop /\ end = at + size1 /\ end <= size /\ a = at + k /\ k \in 0..(size1 - 1)
        BY <1>5, <2>1, <3>1, <3>2, Zenon
      <3>4. end \in Nat /\ k \in Nat /\ k < size1
        BY <3>3
      <3> QED BY <3>3, <3>4
    <2>4. Holds(m, a)
      BY <2>2, <2>3, Zenon DEF Holds
    <2>5. ~(floor <= a /\ a < top)
      <3>1. ~Overlaps(m, floor, top)
        BY <1>3, Zenon
      <3> QED BY <1>7, <2>3, <2>4, <3>1, HeldTwice, Zenon
    <2>6. img.mem[a] = sp.mem[a]
      BY <1>3, <2>3, <2>5, Zenon DEF InReserve
    <2>7. sp.mem[a] = (IF k < Len(s.file) THEN s.file[k + 1] ELSE Zero)
      BY <1>1, <2>1, Zenon DEF Loaded, Filled
    <2>8. ASSUME NEW o \in img.maps, Holds(o, a) PROVE o = m
      <3>1. o # StackMapping(size)
        <4>1. SUFFICES ASSUME o = StackMapping(size) PROVE FALSE
          BY Zenon
        <4>2. o.start = floor /\ o.end = top
          BY <1>3, <4>1, StackMappingIs, Zenon
        <4> QED BY <2>5, <2>8, <4>2, Zenon DEF Holds
      <3>2. o \in sp.maps
        BY <3>1, Zenon
      <3>3. SUFFICES ASSUME o # m PROVE FALSE
        BY Zenon
      <3>4. ~Overlaps(o, m.start, m.end)
        BY <3>2, <3>3, Zenon DEF Loaded, Apart
      <3>5. o.start \in Nat /\ o.end \in Nat
        BY <1>7, <3>2, Zenon
      <3> QED BY <2>2, <2>3, <2>8, <3>4, <3>5, HeldTwice, Zenon
    <2>9. m \in img.maps
      BY Zenon
    <2>10. MappingAt(img, a) = {m}
      BY <2>4, <2>8, <2>9, HeldOnce, Zenon
    <2> QED BY <1>6, <1>7, <2>1, <2>6, <2>7, <2>9, <2>10, Zenon
  <1> QED BY <1>1, <1>8, Zenon DEF SegmentShown

(* The stack of the image has pages of its own.                            *)
LEMMA StackHolds ==
    ASSUME NEW size \in Nat, Multiple(size, Page), DefaultMemory <= size, NEW L, NEW c,
           NEW sp, Loaded(sp, size, L, c), NEW img, img.maps = sp.maps \cup {StackMapping(size)}, img.size = size,
           img.stack \in Nat, InReserve(size, img.stack),
           \A m \in sp.maps : ~Overlaps(m, size - StackReserve, size - Page)
    PROVE  StackShown(img)
  <1>1. PICK floor \in Nat, top \in Nat : floor = size - StackReserve /\ top = size - Page
    BY StackSizes, Zenon
  <1>2. PICK stack \in Nat : stack = img.stack
    BY Zenon
  <1>3. floor <= stack
    BY <1>1, <1>2, Zenon DEF InReserve
  <1>4. PICK m : m = StackMapping(size)
    OBVIOUS
  <1>5. m.start = floor /\ m.end = top /\ m.name = StackName /\ m \in img.maps
    BY <1>1, <1>4, StackMappingIs, Zenon
  <1>6. \A o \in sp.maps : o.start \in Nat /\ o.end \in Nat
    BY Zenon DEF Loaded, Ranges
  <1>7. ASSUME NEW a \in stack..(top - 1) PROVE MappingAt(img, a) = {m}
    <2>1. a \in Nat /\ floor <= a /\ a < top
      BY <1>3
    <2>2. Holds(m, a)
      BY <1>5, <2>1, Zenon DEF Holds
    <2>3. ASSUME NEW o \in img.maps, Holds(o, a) PROVE o = m
      <3>1. CASE o \in sp.maps
        <4>1. ~Overlaps(o, floor, top)
          BY <1>1, <3>1, Zenon
        <4> QED BY <1>6, <2>1, <2>3, <3>1, <4>1, HeldTwice, Zenon
      <3> QED BY <1>4, <3>1, Zenon
    <2> QED BY <1>5, <2>2, <2>3, HeldOnce, Zenon
  <1> QED BY <1>1, <1>2, <1>5, <1>7, Zenon DEF StackShown

-----------------------------------------------------------------------------
(* The names.                                                              *)

(* The path that clean has built of the first parts.                       *)
Cleaning(f, parts, n) == f = [k \in 0..n |-> IF k = 0 THEN <<>> ELSE Joined(f[k - 1], parts[k])]

(* There is one, by induction on its length.                               *)
LEMMA CleaningExists ==
    ASSUME NEW parts, NEW n \in Nat
    PROVE  \E f : Cleaning(f, parts, n)
  <1> DEFINE S0 == <<>>
             G(s, k) == Joined(s, parts[k])
             Bad == {m \in Nat : ~\E f : Cleaning(f, parts, m)}
  <1>0. \A f, m : Cleaning(f, parts, m) <=> f = [i \in 0..m |-> IF i = 0 THEN S0 ELSE G(f[i - 1], i)]
    BY Zenon DEF Cleaning
  <1> HIDE DEF G, S0
  <1> SUFFICES ASSUME Bad # {} PROVE FALSE
    OBVIOUS
  <1>1. PICK m \in Bad : \A j \in Bad : m <= j
    BY LeastOf, Zenon
  <1>2. CASE m = 0
    <2> DEFINE g == [i \in 0..0 |-> S0]
    <2>1. g = [i \in 0..0 |-> IF i = 0 THEN S0 ELSE G(g[i - 1], i)]
      OBVIOUS
    <2> QED BY <1>0, <1>1, <1>2, <2>1, Zenon
  <1>3. CASE m # 0
    <2>0. m - 1 \in Nat /\ ~(m <= m - 1)
      BY <1>1, <1>3
    <2>1. PICK f : Cleaning(f, parts, m - 1)
      BY <1>1, <2>0
    <2> DEFINE g == [i \in 0..m |-> IF i = m THEN G(f[m - 1], m) ELSE f[i]]
    <2>3. \A i \in 0..m : g[i] = IF i = 0 THEN S0 ELSE G(g[i - 1], i)
      <3> TAKE i \in 0..m
      <3>1. CASE i = m
        <4>1. m - 1 \in 0..m /\ m - 1 # m
          BY <1>1, <2>0
        <4> QED BY <1>3, <3>1, <4>1
      <3>2. CASE i # m
        <4>1. i \in 0..(m - 1)
          BY <1>1, <3>2
        <4>2. f[i] = IF i = 0 THEN S0 ELSE G(f[i - 1], i)
          BY <1>0, <2>1, <4>1
        <4>3. i # 0 => i - 1 \in 0..m /\ i - 1 # m
          BY <1>1, <4>1, SMTT(20), SMTT(30)
        <4> QED BY <3>2, <4>1, <4>2, <4>3
      <3> QED BY <3>1, <3>2
    <2>4. g = [i \in 0..m |-> IF i = 0 THEN S0 ELSE G(g[i - 1], i)]
      BY <2>3
    <2> QED BY <1>0, <1>1, <2>4, Zenon
  <1> QED BY <1>2, <1>3

(* One part of a name is joined to a path.                                 *)
LEMMA JoinedIs ==
    ASSUME NEW p \in Seq(Part), NEW s \in Part
    PROVE  Joined(p, s) \in Seq(Part)
  <1>1. CASE s # ".."
    <2>1. Append(p, s) \in Seq(Part)
      OBVIOUS
    <2> QED BY <1>1, <2>1, Zenon DEF Joined
  <1>2. CASE s = ".." /\ p = <<>>
    BY <1>2, Zenon DEF Joined
  <1>3. CASE s = ".." /\ p # <<>>
    <2>1. SubSeq(p, 1, Len(p) - 1) \in Seq(Part)
      <3>1. Len(p) \in Nat /\ Len(p) # 0
        BY <1>3
      <3>2. \A i \in 1..(Len(p) - 1) : p[i] \in Part
        BY <3>1
      <3> QED BY <3>1, <3>2
    <2> QED BY <1>3, <2>1, Zenon DEF Joined, Parent
  <1> QED BY <1>1, <1>2, <1>3, SMTT(20), SMTT(30)

(* A clean path is a sequence of parts.                                    *)
LEMMA CleanIs ==
    ASSUME NEW parts \in Seq(Part)
    PROVE  clean(parts) \in Seq(Part)
  <1>1. PICK n \in Nat : n = Len(parts)
    OBVIOUS
  <1>2. PICK f : f = CHOOSE g : Cleaning(g, parts, n)
    OBVIOUS
  <1>3. Cleaning(f, parts, n)
    BY <1>2, CleaningExists, Zenon
  <1>4. clean(parts) = f[n]
    BY <1>1, <1>2, Zenon DEF clean, Cleaning
  <1>5. PICK S : S = {k \in Nat : k <= n => f[k] \in Seq(Part)}
    BY ZenonT(40), SMTT(20), SMTT(30)
  <1>6. f[0] = <<>> /\ \A k \in 1..n : f[k] = Joined(f[k - 1], parts[k])
    <2>1. \A k \in 0..n : f[k] = IF k = 0 THEN <<>> ELSE Joined(f[k - 1], parts[k])
      BY <1>3, Zenon DEF Cleaning
    <2>2. 0 \in 0..n /\ \A k \in 1..n : k \in 0..n /\ k # 0
      OBVIOUS
    <2> QED BY <2>1, <2>2, Zenon
  <1>7. S \in SUBSET Nat /\ 0 \in S
    <2>1. f[0] \in Seq(Part)
      BY <1>6
    <2> QED BY <1>5, <2>1
  <1>8. ASSUME NEW k \in 1..n, k - 1 \in S PROVE k \in S
    <2>1. k - 1 <= n /\ k \in Nat
      OBVIOUS
    <2>2. f[k - 1] \in Seq(Part)
      BY <1>5, <1>8, <2>1, Zenon
    <2>3. parts[k] \in Part
      BY <1>1
    <2>4. f[k] \in Seq(Part)
      BY <1>6, <2>2, <2>3, JoinedIs, Zenon
    <2> QED BY <1>5, <2>1, <2>4, Zenon
  <1>9. n \in S /\ n <= n
    BY <1>7, <1>8, Reaches, SMTT(20), SMTT(30)
  <1> QED BY <1>4, <1>5, <1>9, Zenon

(* So is a name of the guest, wherever it is.                              *)
LEMMA GuestPathIs ==
    ASSUME cwd \in Seq(Part), NEW n \in Text(Part)
    PROVE  guestPath(n) \in Seq(Part)
  <1>1. n.parts \in Seq(Part)
    <2>1. n.parts \in UNION {[1..k -> Part] : k \in 0..MaxDepth}
      BY DEF Text
    <2>2. PICK k \in 0..MaxDepth : n.parts \in [1..k -> Part]
      BY <2>1
    <2>3. k \in Nat
      BY FilesAssumption
    <2> QED BY <2>2, <2>3, SMTT(20), SMTT(30)
  <1>2. cwd \o n.parts \in Seq(Part)
    BY <1>1
  <1>3. CASE n.abs
    BY <1>1, <1>3, CleanIs, Zenon DEF guestPath
  <1>4. CASE ~n.abs
    BY <1>2, <1>4, CleanIs, Zenon DEF guestPath
  <1> QED BY <1>3, <1>4, SMTT(20), SMTT(30)

-----------------------------------------------------------------------------
(* The inductive invariant: every file holds a program Elf knows, the      *)
(* guest's directory is a path, and a running image is what the loader     *)
(* makes of what ran says, an interpreter being there for exactly the      *)
(* dynamic programs.                                                       *)

IsRead(e) == e = Failed \/ (e.ok = TRUE /\ IsProgram(e))
FilesAreRead == \A p \in DOMAIN tree : tree[p].kind = "file" => tree[p].data \in DOMAIN Elf

Made(img, r) ==
    /\ img = LoadWithEnvResolver(r.prog, r.argv, r.envp, r.interp)
    /\ IsProgram(r.prog) /\ (r.prog.interp # NoName => IsProgram(r.interp))
    /\ r.interp.ok = (r.prog.interp # NoName)
    /\ IsStrings(r.argv) /\ Len(r.argv) > 0 /\ IsStrings(r.envp)

BootInv == cwd \in Seq(Part) /\ FilesAreRead /\ (image.ok => Made(image, ran))

(* What is read from a file is a program or an error.                      *)
LEMMA ReadIs ==
    ASSUME FilesAreRead, NEW r
    PROVE  IsRead(ReadProgram(r))
  <1>1. CASE r.ok /\ Is(tree, r.path, "file")
    <2>1. tree[r.path].data \in DOMAIN Elf
      BY <1>1, Zenon DEF FilesAreRead, Is
    <2>2. ReadProgram(r) = Elf[tree[r.path].data]
      BY <1>1, Zenon DEF ReadProgram
    <2> QED BY <2>1, <2>2, BootAssumption, Zenon DEF IsRead
  <1>2. CASE ~(r.ok /\ Is(tree, r.path, "file"))
    BY <1>2, Zenon DEF ReadProgram, IsRead
  <1> QED BY <1>1, <1>2, Zenon

(* The interpreter is one too, and there is none for a static program.     *)
LEMMA InterpreterIs ==
    ASSUME FilesAreRead, NEW e
    PROVE  IsRead(Interpreter(e)) /\ (e.interp = NoName => Interpreter(e) = Failed)
  <1>1. IsRead(Failed)
    BY Zenon DEF IsRead
  <1>2. IsRead(ReadProgram(Resolve(tree, clean(e.interp.parts))))
    BY ReadIs, Zenon
  <1>3. Interpreter(e) = Failed \/ Interpreter(e) = ReadProgram(Resolve(tree, clean(e.interp.parts)))
    BY Zenon DEF Interpreter
  <1>4. e.interp = NoName => Interpreter(e) = Failed
    BY Zenon DEF Interpreter
  <1> QED BY <1>1, <1>2, <1>3, <1>4, Zenon

(* The loader replaces an empty argv before it looks at it.                *)
LEMMA ArgsTwice ==
    ASSUME NEW e, NEW argv, NEW envp, NEW interp
    PROVE  LoadWithEnvResolver(e, ArgsOf(argv), envp, interp) = LoadWithEnvResolver(e, argv, envp, interp)
  <1>1. << <<"ish-go">> >> # <<>>
    OBVIOUS
  <1>2. ArgsOf(ArgsOf(argv)) = ArgsOf(argv)
    BY <1>1, Zenon DEF ArgsOf
  <1>3. ASSUME NEW sp PROVE LoadStack(sp, e, ArgsOf(argv), envp) = LoadStack(sp, e, argv, envp)
    <2>1. PICK b : b = ArgsOf(argv)
      OBVIOUS
    <2>2. (IF b = <<>> THEN << <<"ish-go">> >> ELSE b) = (IF argv = <<>> THEN << <<"ish-go">> >> ELSE argv)
      BY <1>2, <2>1, Zenon DEF ArgsOf
    <2>3. LoadStack(sp, e, b, envp) = LoadStack(sp, e, argv, envp)
      BY <2>2, Zenon DEF LoadStack
    <2> QED BY <2>1, <2>3, Zenon
  <1>4. PICK size : size = SizeFor(Max({imageBounds(e, 0).max, SecondOf(e, interp).max}))
    OBVIOUS
  <1>5. PICK b, sp : b = ArgsOf(argv) /\ sp = LoadImages(e, interp, size)
    OBVIOUS
  <1>6. LoadStack(sp, e, b, envp) = LoadStack(sp, e, argv, envp)
    BY <1>3, <1>5, Zenon
  <1>7. LoadWithEnvResolver(e, b, envp, interp) = LoadWithEnvResolver(e, argv, envp, interp)
    BY <1>4, <1>5, <1>6, Zenon DEF LoadWithEnvResolver, SecondOf
  <1> QED BY <1>5, <1>7, Zenon

(* argv is never empty for the program.                                    *)
LEMMA ArgsAre ==
    ASSUME NEW argv, IsStrings(argv)
    PROVE  IsStrings(ArgsOf(argv)) /\ (Len(argv) > 0 => ArgsOf(argv) = argv)
  <1>1. IsStrings(<< <<"ish-go">> >>)
    BY DEF IsStrings
  <1>2. Len(<<>>) = 0 /\ ~(0 > 0)
    OBVIOUS
  <1> QED BY <1>1, <1>2, Zenon DEF ArgsOf

(* What a successful start or execve makes of the files.                   *)
LEMMA LoadIsMade ==
    ASSUME FilesAreRead, NEW n, NEW argv, IsStrings(argv), Len(argv) > 0, NEW envp, IsStrings(envp),
           NEW load, ArgsOf(load) = argv, NEW img, img = LoadFrom(n, load, envp), img.ok,
           NEW e, e = ReadProgram(Target(n)), NEW r, r = [prog |-> e, interp |-> Interpreter(e), argv |-> argv, envp |-> envp]
    PROVE  Made(img, r)
  <1>1. PICK interp : interp = Interpreter(e)
    BY SMTT(20), SMTT(30)
  <1>2. r.prog = e /\ r.interp = interp /\ r.argv = argv /\ r.envp = envp
    BY <1>1
  <1>3. IsRead(e) /\ IsRead(interp) /\ (e.interp = NoName => interp = Failed)
    BY <1>1, ReadIs, InterpreterIs, Zenon
  <1>4. img # Failed /\ Failed.ok = FALSE
    BY FailedStays, Zenon
  <1>5. e.ok /\ img = LoadWithEnvResolver(e, load, envp, interp)
    BY <1>1, <1>4, Zenon DEF LoadFrom
  <1>6. IsProgram(e)
    BY <1>3, <1>4, <1>5, Zenon DEF IsRead
  <1>7. e.interp # NoName => interp.ok
    <2>1. \E size, loaded, pushed :
              Accepted(e, interp, size) /\ LoadRun(e, load, envp, interp, size, loaded, pushed, img)
      BY <1>5, LoadSteps, Zenon
    <2> QED BY <2>1, Zenon DEF Accepted
  <1>8. e.interp # NoName => IsProgram(interp) /\ interp.ok = TRUE
    BY <1>3, <1>4, <1>7, Zenon DEF IsRead
  <1>9. interp.ok = (e.interp # NoName)
    <2>1. CASE e.interp = NoName
      BY <1>3, <1>4, <2>1, Zenon
    <2>2. CASE e.interp # NoName
      BY <1>8, <2>2, Zenon
    <2> QED BY <2>1, <2>2, Zenon
  <1>10. img = LoadWithEnvResolver(e, argv, envp, interp)
    BY <1>5, ArgsTwice, Zenon
  <1> QED BY <1>2, <1>6, <1>8, <1>9, <1>10, Zenon DEF Made

(* There is always a first argument.                                       *)
LEMMA ArgsLonger ==
    ASSUME NEW argv, IsStrings(argv)
    PROVE  Len(ArgsOf(argv)) > 0
  <1>1. Len(<< <<"ish-go">> >>) > 0
    OBVIOUS
  <1>2. argv # <<>> => Len(argv) > 0
    BY Zenon DEF IsStrings
  <1> QED BY <1>1, <1>2, Zenon DEF ArgsOf

(* What a call makes of the files.                                         *)
TreeStep ==
    \/ tree' = tree
    \/ \E p : tree' = With(p, Dir) \/ tree' = With(p, File("none")) \/ tree' = [q \in DOMAIN tree \ {p} |-> tree[q]]
    \/ \E p, q : tree' = MovedTo(p, q)

(* No other change is made by a call.                                      *)
LEMMA FilesStep ==
    ASSUME NEW n \in Written,
           \/ mkdir(n) \/ unlink(n) \/ chdir(n)
           \/ \E flags \in Flags : open(n, flags)
           \/ \E m \in Written : rename(n, m)
    PROVE  TreeStep /\ (cwd' = cwd \/ cwd' = guestPath(n))
  <1>1. ASSUME NEW m, Fails(m) PROVE tree' = tree /\ cwd' = cwd
    BY <1>1 DEF Fails
  <1>2. CASE mkdir(n)
    BY <1>1, <1>2, Zenon DEF mkdir, TreeStep
  <1>3. CASE unlink(n)
    BY <1>1, <1>3, Zenon DEF unlink, TreeStep
  <1>4. CASE chdir(n)
    BY <1>1, <1>4, Zenon DEF chdir, TreeStep
  <1>5. ASSUME NEW flags \in Flags, open(n, flags) PROVE TreeStep /\ cwd' = cwd
    <2>1. \/ Fails(n)
          \/ UNCHANGED <<tree, cwd>>
          \/ (\E p : tree' = With(p, File("none"))) /\ UNCHANGED cwd
      BY <1>5, Zenon DEF open
    <2> QED BY <1>1, <2>1, Zenon DEF TreeStep
  <1>6. ASSUME NEW m \in Written, rename(n, m) PROVE TreeStep /\ cwd' = cwd
    BY <1>1, <1>6, Zenon DEF rename, TreeStep
  <1> QED BY <1>2, <1>3, <1>4, <1>5, <1>6, Zenon

(* Every change leaves only files Elf knows.                               *)
LEMMA TreeStepIsRead ==
    ASSUME FilesAreRead, TreeStep
    PROVE  FilesAreRead'
  <1>1. SUFFICES ASSUME NEW y \in DOMAIN tree', tree'[y].kind = "file" PROVE tree'[y].data \in DOMAIN Elf
    BY Zenon DEF FilesAreRead
  <1>2. ASSUME NEW x \in DOMAIN tree, tree'[y] = tree[x] PROVE tree'[y].data \in DOMAIN Elf
    BY <1>1, <1>2, Zenon DEF FilesAreRead
  <1>3. CASE tree' = tree
    BY <1>2, <1>3, Zenon
  <1>4. ASSUME NEW p, NEW node, tree' = With(p, node), node.kind = "file" => node.data \in DOMAIN Elf
        PROVE  tree'[y].data \in DOMAIN Elf
    <2>1. CASE y = p
      BY <1>1, <1>4, <2>1, Zenon DEF With
    <2>2. CASE y # p
      <3>1. y \in DOMAIN tree /\ tree'[y] = tree[y]
        BY <1>4, <2>2, Zenon DEF With
      <3> QED BY <1>2, <3>1, Zenon
    <2> QED BY <2>1, <2>2, Zenon
  <1>5. Dir.kind # "file" /\ File("none").data \in DOMAIN Elf
    <2>1. Dir.kind = "dir" /\ File("none").data = "none"
      BY DEF Dir, File
    <2>2. "dir" # "file"
      OBVIOUS
    <2> QED BY <2>1, <2>2, BootAssumption, Zenon
  <1>6. ASSUME NEW p, tree' = [q \in DOMAIN tree \ {p} |-> tree[q]] PROVE tree'[y].data \in DOMAIN Elf
    BY <1>2, <1>6, Zenon
  <1>7. ASSUME NEW p, NEW q, tree' = MovedTo(p, q) PROVE tree'[y].data \in DOMAIN Elf
    <2> DEFINE below == {x \in DOMAIN tree : Above(p, x)}
               new(x) == q \o SubSeq(x, Len(p) + 1, Len(x))
               old(z) == CHOOSE x \in below : new(x) = z
               moved == {new(x) : x \in below}
    <2>1. below \subseteq DOMAIN tree
      OBVIOUS
    <2>2. moved = {new(x) : x \in below}
      OBVIOUS
    <2>3. tree' = [z \in (DOMAIN tree \ below) \cup moved |-> IF z \in moved THEN tree[old(z)] ELSE tree[z]]
      BY <1>7, Zenon DEF MovedTo
    <2> HIDE DEF below, new, moved
    <2>4. CASE y \in moved
      <3>1. old(y) \in below
        BY <2>2, <2>4, Zenon
      <3> HIDE DEF old
      <3>2. old(y) \in DOMAIN tree /\ tree'[y] = tree[old(y)]
        BY <2>1, <2>3, <2>4, <3>1, Zenon
      <3> QED BY <1>2, <3>2, Zenon
    <2>5. CASE y \notin moved
      <3>1. y \in DOMAIN tree /\ tree'[y] = tree[y]
        BY <2>3, <2>5, Zenon
      <3> QED BY <1>2, <3>1, Zenon
    <2> QED BY <2>4, <2>5, Zenon
  <1> QED BY <1>3, <1>4, <1>5, <1>6, <1>7, Zenon DEF TreeStep

Steps == BootNext \/ (FilesNext /\ UNCHANGED bvars)

(* Every step keeps the invariant.                                         *)
LEMMA BootInvStep ==
    ASSUME BootInv, [Steps]_<<fvars, bvars>>
    PROVE  BootInv'
  <1>1. cwd \in Seq(Part) /\ FilesAreRead /\ (image.ok => Made(image, ran))
    BY Zenon DEF BootInv
  <1>2. ASSUME UNCHANGED <<tree, cwd, image, ran>> PROVE BootInv'
    <2>1. tree' = tree /\ cwd' = cwd /\ image' = image /\ ran' = ran
      BY <1>2
    <2> QED BY <1>1, <2>1, Zenon DEF BootInv, FilesAreRead
  <1>3. ASSUME NEW n, NEW argv, IsStrings(argv), Len(argv) > 0, NEW envp, IsStrings(envp), NEW load, ArgsOf(load) = argv,
               NEW img, img = LoadFrom(n, load, envp), img.ok, Runs(n, argv, envp, img), UNCHANGED <<tree, cwd>>
        PROVE  BootInv'
    <2>1. PICK e : e = ReadProgram(Target(n))
      OBVIOUS
    <2>2. image' = img /\ ran' = [prog |-> e, interp |-> Interpreter(e), argv |-> argv, envp |-> envp]
      BY <1>3, <2>1, Zenon DEF Runs
    <2>3. Made(image', ran')
      BY <1>1, <1>3, <2>1, <2>2, LoadIsMade, Zenon
    <2>4. tree' = tree /\ cwd' = cwd
      BY <1>3
    <2> QED BY <1>1, <2>3, <2>4, Zenon DEF BootInv, FilesAreRead
  <1>4. ASSUME NEW n \in Executed, NEW argv \in Argvs, Start(n, argv) PROVE BootInv'
    <2>1. PICK args : args = ArgsOf(argv)
      OBVIOUS
    <2>2. PICK img : img = LoadFrom(n, argv, <<>>)
      OBVIOUS
    <2>3. img.ok /\ Runs(n, args, <<>>, img) /\ UNCHANGED <<tree, cwd>>
      <3>1. img.ok /\ Runs(n, args, <<>>, img) /\ UNCHANGED <<tree, cwd, fds, fdCloexec>>
        BY <1>4, <2>1, <2>2, Zenon DEF Start, ArgsOf
      <3> QED BY <3>1
    <2>4. IsStrings(argv) /\ IsStrings(<<>>)
      <3>1. IsStrings(<<>>)
        BY DEF IsStrings
      <3> QED BY <3>1, BootAssumption, Zenon
    <2>5. IsStrings(args) /\ Len(args) > 0
      <3>1. IsStrings(args)
        BY <2>1, <2>4, ArgsAre, Zenon
      <3>2. Len(args) > 0
        BY <2>1, <2>4, ArgsLonger, Zenon
      <3> QED BY <3>1, <3>2, SMTT(20), SMTT(30)
    <2> QED BY <1>3, <2>1, <2>2, <2>3, <2>4, <2>5, Zenon
  <1>5. ASSUME NEW n \in Executed, NEW argv \in Argvs, NEW envp \in Envps, execve(n, argv, envp) PROVE BootInv'
    <2>1. PICK args : args = IF argv = <<>> THEN <<guestPath(n)>> ELSE argv
      BY ZenonT(40), SMTT(20), SMTT(30)
    <2>2. PICK img : img = LoadFrom(n, args, envp)
      OBVIOUS
    <2>3. /\ UNCHANGED <<tree, cwd>>
          /\ (img.ok /\ Runs(n, args, envp, img)) \/ UNCHANGED bvars
      BY <1>5, <2>1, <2>2, Zenon DEF execve
    <2>4. IsStrings(argv) /\ IsStrings(envp)
      BY BootAssumption, Zenon
    <2>5. IsStrings(args) /\ Len(args) > 0
      <3>1. CASE argv = <<>>
        <4>1. n \in Text(Part)
          BY BootAssumption, Zenon
        <4>2. PICK g \in Seq(Part) : g = guestPath(n)
          BY <1>1, <4>1, GuestPathIs, Zenon
        <4>3. args = <<g>>
          BY <2>1, <3>1, <4>2, Zenon
        <4>4. Len(g) \in Nat
          OBVIOUS
        <4> QED BY <4>3, <4>4, SMTT(20), SMTT(30) DEF IsStrings
      <3>2. CASE argv # <<>>
        <4>1. args = argv /\ ArgsOf(argv) = argv
          BY <2>1, <3>2, Zenon DEF ArgsOf
        <4>2. Len(ArgsOf(argv)) > 0
          BY <2>4, ArgsLonger, Zenon
        <4> QED BY <2>4, <4>1, <4>2, Zenon
      <3> QED BY <3>1, <3>2, Zenon
    <2>6. ArgsOf(args) = args
      BY <2>5, ArgsAre, Zenon
    <2>7. CASE img.ok /\ Runs(n, args, envp, img)
      BY <1>3, <2>2, <2>3, <2>4, <2>5, <2>6, <2>7, Zenon
    <2>8. CASE UNCHANGED bvars
      <3>1. UNCHANGED <<tree, cwd, image, ran>>
        BY <2>3, <2>8, SMTT(20), SMTT(30) DEF bvars
      <3> QED BY <1>2, <3>1, Zenon
    <2> QED BY <2>3, <2>7, <2>8, Zenon
  <1>6. CASE FilesNext /\ UNCHANGED bvars
    <2>1. PICK n \in Written : \/ mkdir(n) \/ unlink(n) \/ chdir(n)
                               \/ \E flags \in Flags : open(n, flags)
                               \/ \E m \in Written : rename(n, m)
      BY <1>6, Zenon DEF FilesNext
    <2>2. TreeStep /\ (cwd' = cwd \/ cwd' = guestPath(n))
      BY <2>1, FilesStep, Zenon
    <2>3. FilesAreRead'
      BY <1>1, <2>2, TreeStepIsRead, Zenon
    <2>4. cwd' \in Seq(Part)
      <3>1. n \in Text(Part)
        BY FilesAssumption, Zenon
      <3> QED BY <1>1, <2>2, <3>1, GuestPathIs, Zenon
    <2>5. image' = image /\ ran' = ran
      BY <1>6 DEF bvars
    <2> QED BY <1>1, <2>3, <2>4, <2>5, Zenon DEF BootInv
  <1>7. CASE UNCHANGED <<fvars, bvars>>
    <2>1. UNCHANGED <<tree, cwd, image, ran>>
      BY <1>7 DEF fvars, bvars
    <2> QED BY <1>2, <2>1, Zenon
  <1> QED BY <1>4, <1>5, <1>6, <1>7, Zenon DEF Steps, BootNext

(* The installed roots satisfy the invariant.                              *)
LEMMA BootInvInit ==
    ASSUME FilesInit, BootInit
    PROVE  BootInv
  <1>1. tree \in Trees /\ cwd = <<>> /\ image = Failed
    BY DEF FilesInit, BootInit
  <1>2. cwd \in Seq(Part)
    BY <1>1
  <1>3. FilesAreRead
    BY <1>1, BootAssumption, Zenon DEF FilesAreRead
  <1>4. ~image.ok
    BY <1>1, FailedStays, Zenon
  <1> QED BY <1>2, <1>3, <1>4, Zenon DEF BootInv

(* What is known of a running image with room on its stack.                *)
LEMMA RunningShape ==
    ASSUME BootInv, image.ok, StackFits
    PROVE  \E size, loaded, p, q, w :
               /\ Built(ran.prog, ran.interp, size, loaded)
               /\ Stacked(loaded, size, ran.argv, ran.envp,
                          AuxvOf(ran.prog, ran.prog.interp # NoName, (size - Page) - Align), p, q, w, image)
  <1>1. Made(image, ran)
    BY Zenon DEF BootInv
  <1>2. PICK e, interp, argv, envp, img : e = ran.prog /\ interp = ran.interp /\ argv = ran.argv /\ envp = ran.envp /\ img = image
    OBVIOUS
  <1>3. /\ img = LoadWithEnvResolver(e, argv, envp, interp) /\ img.ok
        /\ IsProgram(e) /\ (e.interp # NoName => IsProgram(interp))
        /\ IsStrings(argv) /\ Len(argv) > 0 /\ IsStrings(envp)
    BY <1>1, <1>2, Zenon DEF Made
  <1>4. ArgsOf(argv) = argv
    BY <1>3, ArgsAre, Zenon
  <1>5. Enough(argv, envp)
    BY <1>2, Zenon DEF StackFits, Enough
  <1>6. \E size, loaded, p, q, w :
               /\ Built(e, interp, size, loaded)
               /\ Stacked(loaded, size, ArgsOf(argv), envp, AuxvOf(e, e.interp # NoName, (size - Page) - Align), p, q, w, img)
    BY <1>3, <1>4, <1>5, ImageShape, Zenon
  <1> QED BY <1>2, <1>4, <1>6, Zenon

(* The invariant makes the stack readable.                                 *)
LEMMA ReadableStack ==
    ASSUME BootInv
    PROVE  StackIsReadable
  <1>1. CASE image.ok /\ StackFits
    <2>1. PICK dynamic \in BOOLEAN : dynamic = (ran.prog.interp # NoName)
      BY Zenon
    <2>2. IsStrings(ran.argv) /\ Len(ran.argv) > 0 /\ IsStrings(ran.envp) /\ ran.interp.ok = dynamic
      BY <1>1, <2>1, Zenon DEF BootInv, Made
    <2>3. PICK size, loaded, p, q, w :
               /\ Built(ran.prog, ran.interp, size, loaded)
               /\ Stacked(loaded, size, ran.argv, ran.envp,
                          AuxvOf(ran.prog, ran.prog.interp # NoName, (size - Page) - Align), p, q, w, image)
      BY <1>1, RunningShape, Zenon
    <2>4. PICK auxv : auxv = AuxvOf(ran.prog, dynamic, (size - Page) - Align)
      OBVIOUS
    <2>5. size \in Nat /\ Multiple(size, Page) /\ DefaultMemory <= size
      BY <2>3, Zenon DEF Built
    <2>6. Stacked(loaded, size, ran.argv, ran.envp, auxv, p, q, w, image)
      BY <2>1, <2>3, <2>4, Zenon
    <2> QED BY <2>2, <2>4, <2>5, <2>6, StackReads, Zenon
  <1>2. CASE ~(image.ok /\ StackFits)
    BY <1>2, Zenon DEF StackIsReadable
  <1> QED BY <1>1, <1>2, Zenon

(* The invariant makes the image a loaded one.                             *)
LEMMA LoadedImage ==
    ASSUME BootInv
    PROVE  ImageIsLoaded
  <1>1. CASE image.ok /\ OwnPages /\ StackFits
    <2>1. PICK dynamic \in BOOLEAN : dynamic = (ran.prog.interp # NoName)
      BY Zenon
    <2>2. PICK e, interp, L : e = ran.prog /\ interp = ran.interp /\ L = Segments
      OBVIOUS
    <2>3. IsProgram(e) /\ (dynamic => IsProgram(interp)) /\ interp.ok = dynamic
      BY <1>1, <2>1, <2>2, Zenon DEF BootInv, Made
    <2>4. PICK size, loaded, p, q, w :
               /\ Built(e, interp, size, loaded)
               /\ Stacked(loaded, size, ran.argv, ran.envp,
                          AuxvOf(e, ran.prog.interp # NoName, (size - Page) - Align), p, q, w, image)
      BY <1>1, <2>2, RunningShape, Zenon
    <2>5. /\ size \in Nat /\ Multiple(size, Page) /\ DefaultMemory <= size
          /\ validateELF(e) /\ (dynamic => validateELF(interp))
      BY <2>1, <2>2, <2>4, Zenon DEF Built
    <2>6. L = SegmentsOf(e, interp, dynamic)
      BY <2>2, <2>3, Zenon DEF Segments, SegmentsOf
    <2>7. Listed(L, e, interp, dynamic)
      BY <2>3, <2>6, SegmentsListed, Zenon
    <2>8. OwnPagesOf(L)
      BY <1>1, <2>2, Zenon DEF OwnPages, OwnPagesOf
    <2>9. OwnList(L)
      BY <2>3, <2>5, <2>7, <2>8, OwnSegments, Zenon
    <2>10. PICK c \in Nat : c = Len(L)
      BY <2>9, Zenon DEF OwnList
    <2>11. Loaded(loaded, size, L, c)
      BY <2>1, <2>2, <2>3, <2>4, <2>7, <2>9, <2>10, ImagesLoad, Zenon
    <2>12. /\ image.maps = loaded.maps \cup {StackMapping(size)} /\ image.size = size
           /\ image.stack \in Nat /\ InReserve(size, image.stack)
           /\ \A x \in 0..(size - 1) : ~InReserve(size, x) => image.mem[x] = loaded.mem[x]
           /\ \A m \in loaded.maps : ~Overlaps(m, size - StackReserve, size - Page)
      BY <2>4, Zenon DEF Stacked
    <2>13. \A i \in 1..c : SegmentShown(L[i], image)
      BY <2>5, <2>9, <2>10, <2>11, <2>12, SegmentHolds, Zenon
    <2>14. StackShown(image)
      BY <2>5, <2>11, <2>12, StackHolds, Zenon
    <2> QED BY <2>2, <2>10, <2>13, <2>14, Zenon DEF ImageIsLoaded, SegmentShown, StackShown
  <1>2. CASE ~(image.ok /\ OwnPages /\ StackFits)
    BY <1>2, Zenon DEF ImageIsLoaded
  <1> QED BY <1>1, <1>2, Zenon

-----------------------------------------------------------------------------
(* Every behaviour keeps the invariant: a running image is always what the *)
(* loader makes of the programs and the strings it was started with.       *)
THEOREM BootIsMade == BootSpec => []BootInv
  <1>1. FilesInit /\ BootInit => BootInv
    BY BootInvInit
  <1>2. BootInv /\ [BootNext \/ (FilesNext /\ UNCHANGED bvars)]_<<fvars, bvars>> => BootInv'
    BY BootInvStep DEF Steps
  <1> QED BY <1>1, <1>2, PTL DEF BootSpec

(* A running image holds the segments of its program and its interpreter,  *)
(* each with its bytes, zeros and protection, and a stack of its own, for  *)
(* any programs, page size, stack reserve and default memory.              *)
THEOREM ImageHolds == BootSpec => []ImageIsLoaded
  <1>1. BootInv => ImageIsLoaded
    BY LoadedImage, SMTT(20), SMTT(30)
  <1> QED BY <1>1, BootIsMade, PTL

(* A program finds its count, arguments, environment and auxiliary vector  *)
(* on the stack, for any strings that leave room there.                    *)
THEOREM StackHasAll == BootSpec => []StackIsReadable
  <1>1. BootInv => StackIsReadable
    BY ReadableStack
  <1> QED BY <1>1, BootIsMade, PTL

(* A failed execve changes neither the image nor the descriptors, and a    *)
(* successful one closes exactly those marked close-on-exec.               *)
THEOREM ExecKeeps == BootSpec => ExecIsAtomic
  <1> DEFINE Step == /\ ~call'.ok => UNCHANGED <<image, fds, fdCloexec>>
                     /\ (image.ok /\ image' # image) => fds' = fds \ fdCloexec /\ fdCloexec' = {}
  <1>1. ASSUME UNCHANGED bvars PROVE Step
    BY <1>1, SMTT(20), SMTT(30) DEF bvars
  <1>2. ASSUME NEW n, NEW made, Returns(n, TRUE, made) PROVE call'.ok
    BY <1>2 DEF Returns
  <1>3. ASSUME NEW n, NEW argv, Start(n, argv) PROVE Step
    <2>1. ~image.ok /\ Returns(n, TRUE, "none")
      BY <1>3, Zenon DEF Start
    <2> QED BY <1>2, <2>1, Zenon
  <1>4. ASSUME NEW n, NEW argv, NEW envp, execve(n, argv, envp) PROVE Step
    <2>1. (CloseCloexec /\ Returns(n, TRUE, "none")) \/ UNCHANGED bvars
      BY <1>4, Zenon DEF execve
    <2>2. CASE CloseCloexec /\ Returns(n, TRUE, "none")
      BY <1>2, <2>2, Zenon DEF CloseCloexec
    <2> QED BY <1>1, <2>1, <2>2, Zenon
  <1>5. [BootNext \/ (FilesNext /\ UNCHANGED bvars)]_<<fvars, bvars>> => [Step]_<<fvars, bvars>>
    <2> HIDE DEF Step
    <2> QED BY <1>1, <1>3, <1>4, Zenon DEF BootNext
  <1> QED BY <1>5, PTL DEF BootSpec, ExecIsAtomic

=============================================================================
