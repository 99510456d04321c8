--------------------------- MODULE Units_proofs ---------------------------
(***************************************************************************)
(* The string instructions and the BT group on memories, registers and     *)
(* counts of every size, and the floating-point unit with any number of    *)
(* registers and any arithmetic.                                           *)
(***************************************************************************)
EXTENDS Strings, X87, SequenceTheorems, WellFoundedInduction, TLAPS

(* Facts about remainders and products.                                    *)

(* Reduction to a width, by the range the unreduced value lies in.         *)
LEMMA ModIn == ASSUME NEW m \in Nat \ {0}, NEW v \in 0..(m - 1) PROVE v % m = v
  OBVIOUS

(* A sum that exceeds the width once wraps to itself less the width.       *)
LEMMA ModOver == ASSUME NEW m \in Nat \ {0}, NEW v \in m..(2 * m - 1) PROVE v % m = v - m
  OBVIOUS

(* A difference below zero wraps to itself plus the width.                 *)
LEMMA ModUnder == ASSUME NEW m \in Nat \ {0}, NEW v \in (0 - m)..(-1) PROVE v % m = v + m
  OBVIOUS

(* Every reduced value lies in its width.                                  *)
LEMMA ModRange == ASSUME NEW m \in Nat \ {0}, NEW v \in Int PROVE v % m \in 0..(m - 1)
  OBVIOUS

(* Division by any positive number.                                        *)
LEMMA DivMod ==
    ASSUME NEW m \in Nat \ {0}, NEW x \in Nat
    PROVE  x \div m \in Nat /\ x = m * (x \div m) + (x % m)
  OBVIOUS

(* Multiplication by a positive number keeps the order.                    *)
LEMMA TimesMonotone ==
    ASSUME NEW m \in Nat, NEW q \in Nat, NEW k \in Nat, q <= k
    PROVE  m * q \in Nat /\ m * q <= m * k
  OBVIOUS

(* A multiple and the next one.                                            *)
LEMMA TimesSucc ==
    ASSUME NEW m \in Nat, NEW q \in Nat
    PROVE  m * (q + 1) = m * q + m
  OBVIOUS

-----------------------------------------------------------------------------
(* t bytes are done when the pointer that started at p is here ...         *)
Pos(p, t) == IF DF THEN p - t ELSE p + t

(* ... and these bytes have been passed, elements of w bytes each.         *)
Low(p, t, w) == IF DF THEN p + w - t ELSE p
Passed(p, t, w) == Low(p, t, w) >= 0 /\ Low(p, t, w) + t <= Bytes

Fit(z, w) == 0 <= z /\ z + w <= Bytes

StrTypes ==
    /\ bytes \in [Address -> SUBSET BitNo]
    /\ esi \in 0..(RegWord - 1) /\ edi \in 0..(RegWord - 1)
    /\ DF \in BOOLEAN

(* The sizes.                                                              *)
LEMMA StrSizes ==
    /\ Bytes \in Nat \ {0} /\ RegWord \in Nat \ {0} /\ Bytes < RegWord
    /\ Dword \in Nat \ {0} /\ ByteBits \in Nat \ {0}
  BY StringsAssumption

(* Where a pointer that has wrapped points to, nothing can be accessed.    *)
LEMMA InsideMeans ==
    ASSUME NEW w \in Nat \ {0}, NEW z \in (0 - w)..(RegWord - 1), z < 0 => w < RegWord
    PROVE  Inside(z % RegWord, w) <=> Fit(z, w)
  <1>1. CASE z >= 0
    <2>1. z % RegWord = z
      BY <1>1, StrSizes, ModIn
    <2> QED BY <1>1, <2>1, StrSizes DEF Inside, Fit
  <1>2. CASE z < 0
    <2>1. z % RegWord = z + RegWord
      BY <1>2, StrSizes, ModUnder
    <2> QED BY <1>2, <2>1, StrSizes DEF Inside, Fit
  <1> QED BY <1>1, <1>2

(* A pointer moves on by one element.                                      *)
LEMMA Advance ==
    ASSUME DF \in BOOLEAN, NEW w \in Nat \ {0}, NEW z \in Int, Fit(z, w)
    PROVE  /\ z % RegWord = z
           /\ ((z % RegWord) + Step(w)) % RegWord = (IF DF THEN z - w ELSE z + w) % RegWord
  <1>1. z % RegWord = z
    BY StrSizes, ModIn DEF Fit
  <1>2. CASE DF /\ z >= w
    <2>0. z + (RegWord - w) \in RegWord..(2 * RegWord - 1)
      BY <1>2, StrSizes DEF Fit
    <2>1. (z + (RegWord - w)) % RegWord = (z + (RegWord - w)) - RegWord
      BY <2>0, StrSizes, ModOver, Zenon
    <2>2. (z - w) % RegWord = z - w
      BY <1>2, StrSizes, ModIn DEF Fit
    <2>3. (z + (RegWord - w)) - RegWord = z - w
      BY StrSizes
    <2> QED BY <1>1, <1>2, <2>1, <2>2, <2>3 DEF Step
  <1>3. CASE DF /\ z < w
    <2>1. (z + (RegWord - w)) % RegWord = z + (RegWord - w)
      BY <1>3, StrSizes, ModIn DEF Fit
    <2>2. (z - w) % RegWord = (z - w) + RegWord
      BY <1>3, StrSizes, ModUnder DEF Fit
    <2>3. (z - w) + RegWord = z + (RegWord - w)
      BY StrSizes
    <2> QED BY <1>1, <1>3, <2>1, <2>2, <2>3 DEF Step
  <1>4. CASE ~DF
    BY <1>1, <1>4 DEF Step
  <1> QED BY <1>2, <1>3, <1>4

(* One round, seen from one pointer: the access succeeds just when the     *)
(* element lies in memory, and when it does not the whole range does not.  *)
LEMMA PointerRound ==
    ASSUME DF \in BOOLEAN, NEW p \in 0..(RegWord - 1), NEW w \in Nat \ {0}, NEW t \in Nat, NEW n \in Nat,
           t + w <= n, t > 0 => Passed(p, t, w)
    PROVE  /\ Pos(p, t) \in Int
           /\ Inside(Pos(p, t) % RegWord, w) <=> Fit(Pos(p, t), w)
           /\ Fit(Pos(p, t), w) => /\ Pos(p, t) % RegWord = Pos(p, t)
                                   /\ ((Pos(p, t) % RegWord) + Step(w)) % RegWord = Pos(p, t + w) % RegWord
                                   /\ Passed(p, t + w, w)
           /\ ~Fit(Pos(p, t), w) => ~Passed(p, n, w)
  <1> DEFINE z == Pos(p, t)
  <1>1. z \in Int
    BY StrSizes DEF Pos
  <1>2. z \in (0 - w)..(RegWord - 1) /\ (z < 0 => w < RegWord)
    BY StrSizes DEF Pos, Passed, Low
  <1>3. Fit(z, w) => Passed(p, t + w, w)
    BY StrSizes DEF Pos, Passed, Low, Fit
  <1>4. ~Fit(z, w) => ~Passed(p, n, w)
    BY StrSizes DEF Pos, Passed, Low, Fit
  <1>5. (IF DF THEN z - w ELSE z + w) = Pos(p, t + w)
    BY StrSizes DEF Pos
  <1> HIDE DEF z
  <1>6. Inside(z % RegWord, w) <=> Fit(z, w)
    BY <1>2, InsideMeans
  <1>7. Fit(z, w) => z % RegWord = z /\ ((z % RegWord) + Step(w)) % RegWord = Pos(p, t + w) % RegWord
    BY <1>1, <1>5, Advance
  <1> QED BY <1>1, <1>3, <1>4, <1>6, <1>7 DEF z

(* The last position of a pointer, as the programmer's manual has it.      *)
LEMMA LastPosition ==
    ASSUME DF \in BOOLEAN, NEW p \in 0..(RegWord - 1), NEW w \in Nat \ {0}, NEW n \in Nat, n > 0 => Passed(p, n, w)
    PROVE  Pos(p, n) % RegWord = (p + (IF DF THEN RegWord - n ELSE n)) % RegWord
  <1>1. CASE ~DF
    BY <1>1 DEF Pos
  <1>2. CASE DF /\ p >= n
    <2>0. p - n \in 0..(RegWord - 1) /\ p + (RegWord - n) \in RegWord..(2 * RegWord - 1)
      BY <1>2, StrSizes
    <2>1. (p - n) % RegWord = p - n
      BY <2>0, StrSizes, ModIn
    <2>2. (p + (RegWord - n)) % RegWord = (p + (RegWord - n)) - RegWord
      BY <2>0, StrSizes, ModOver, Zenon
    <2>3. (p + (RegWord - n)) - RegWord = p - n
      BY StrSizes
    <2> QED BY <1>2, <2>1, <2>2, <2>3 DEF Pos
  <1>3. CASE DF /\ p < n
    <2>0. p - n \in (0 - RegWord)..(-1)
      BY <1>3, StrSizes DEF Passed, Low
    <2>1. (p - n) % RegWord = (p - n) + RegWord
      BY <2>0, StrSizes, ModUnder, SMTT(20), SMTT(30), Zenon
    <2>2. (p + (RegWord - n)) % RegWord = p + (RegWord - n)
      BY <2>0, StrSizes, ModIn
    <2>3. (p - n) + RegWord = p + (RegWord - n)
      BY StrSizes
    <2> QED BY <1>3, <2>1, <2>2, <2>3 DEF Pos
  <1> QED BY <1>1, <1>2, <1>3

(* A number is its quotient and its remainder in only one way.             *)
LEMMA ModUnique ==
    ASSUME NEW m \in Nat \ {0}, NEW q \in Nat, NEW k \in 0..(m - 1)
    PROVE  (m * q + k) % m = k
  <1> DEFINE x == m * q + k
             d == x \div m
             r == x % m
  <1>1. x \in Nat
    OBVIOUS
  <1>2. d \in Nat /\ x = m * d + r /\ r \in 0..(m - 1)
    <2>1. r \in 0..(m - 1)
      BY <1>1, ModRange
    <2> QED BY <1>1, <2>1, DivMod
  <1>3. m * q + k = m * d + r
    BY <1>2
  <1> HIDE DEF d, r
  <1>4. CASE d = q
    <2>1. m * d = m * q /\ m * q \in Nat
      BY <1>4
    <2> QED BY <1>2, <1>3, <2>1 DEF r
  <1>5. ASSUME d < q PROVE FALSE
    <2>1. m * (d + 1) <= m * q /\ m * (d + 1) = m * d + m /\ m * d \in Nat /\ m * q \in Nat
      BY <1>2, <1>5, TimesMonotone, TimesSucc
    <2> QED BY <1>2, <1>3, <2>1
  <1>6. ASSUME q < d PROVE FALSE
    <2>1. m * (q + 1) <= m * d /\ m * (q + 1) = m * q + m /\ m * d \in Nat /\ m * q \in Nat
      BY <1>2, <1>6, TimesMonotone, TimesSucc
    <2> QED BY <1>2, <1>3, <2>1
  <1> QED BY <1>2, <1>4, <1>5, <1>6

(* Remainders repeat.                                                      *)
LEMMA ModPeriod ==
    ASSUME NEW m \in Nat \ {0}, NEW x \in Nat, x >= m
    PROVE  (x - m) % m = x % m
  <1> DEFINE y == x - m
             d == y \div m
             k == y % m
  <1>1. y \in Nat /\ x = y + m
    OBVIOUS
  <1>2. d \in Nat /\ y = m * d + k /\ k \in 0..(m - 1)
    <2>1. k \in 0..(m - 1)
      BY <1>1, ModRange
    <2> QED BY <1>1, <2>1, DivMod
  <1> HIDE DEF y, d, k
  <1>3. m * (d + 1) = m * d + m /\ m * d \in Nat
    BY <1>2, TimesSucc
  <1>4. x = m * (d + 1) + k
    BY <1>1, <1>2, <1>3
  <1>5. x % m = k
    BY <1>2, <1>4, ModUnique
  <1> QED BY <1>5 DEF k, y

(* MOVS of n bytes in all.  It repeats a block when it runs forwards from  *)
(* a source into a destination inside it.  Nothing is claimed when it runs *)
(* backwards into its source, or over a block smaller than an element.     *)
Repeats(n) == ~DF /\ esi < edi /\ edi < esi + n
Unclaimed(n, w) == (DF /\ edi < esi /\ esi < edi + n) \/ (Repeats(n) /\ edi - esi < w)

(* The byte of the old memory that ends up at a.                           *)
Source(a, n) == IF Repeats(n) THEN esi + ((a - edi) % (edi - esi)) ELSE a - edi + esi

(* What memory is after t of n bytes.                                      *)
Copied(m, t, n, w) ==
    \A a \in Address : m[a] = IF Low(edi, t, w) <= a /\ a < Low(edi, t, w) + t THEN bytes[Source(a, n)] ELSE bytes[a]

(* The byte that a round moves to a comes from the old memory, or from a   *)
(* byte that the instruction has itself written a block before.            *)
LEMMA MovedByte ==
    ASSUME StrTypes, NEW w \in Nat \ {0}, NEW t \in Nat, NEW n \in Nat, t + w <= n, ~Unclaimed(n, w),
           NEW m, Copied(m, t, n, w), Fit(Pos(edi, t), w), Fit(Pos(esi, t), w),
           NEW a \in Int, Pos(edi, t) <= a, a < Pos(edi, t) + w
    PROVE  m[a - edi + esi] = bytes[Source(a, n)]
  <1> DEFINE c == a - edi + esi
  <1>1. esi \in Nat /\ edi \in Nat /\ DF \in BOOLEAN /\ Bytes \in Nat
    BY StrSizes DEF StrTypes
  <1>2. c \in Int /\ c \in Address
    BY <1>1 DEF Pos, Fit, Address
  <1>3. m[c] = IF Low(edi, t, w) <= c /\ c < Low(edi, t, w) + t THEN bytes[Source(c, n)] ELSE bytes[c]
    BY <1>2 DEF Copied
  <1>4. CASE ~Repeats(n)
    <2>1. ~(Low(edi, t, w) <= c /\ c < Low(edi, t, w) + t)
      BY <1>1, <1>4 DEF Low, Pos, Repeats, Unclaimed
    <2> QED BY <1>3, <1>4, <2>1 DEF Source
  <1>5. CASE Repeats(n)
    <2> DEFINE d == edi - esi
               x == a - edi
    <2>1. d \in Nat \ {0} /\ w <= d /\ ~DF /\ x \in Nat /\ x < t + w
      BY <1>1, <1>5 DEF Repeats, Unclaimed, Pos
    <2>2. c = edi + (x - d) /\ c = esi + x /\ c - edi = x - d
      BY <1>1
    <2>3. Source(a, n) = esi + (x % d) /\ Source(c, n) = esi + ((x - d) % d)
      BY <1>5, <2>2 DEF Source
    <2> HIDE DEF d, x, c
    <2>4. CASE x < d
      <3>1. x % d = x
        BY <2>1, <2>4, ModIn
      <3>2. ~(Low(edi, t, w) <= c)
        BY <1>1, <2>1, <2>2, <2>4 DEF Low
      <3> QED BY <1>3, <2>2, <2>3, <3>1, <3>2 DEF c
    <2>5. CASE x >= d
      <3>1. (x - d) % d = x % d
        BY <2>1, <2>5, ModPeriod, Zenon
      <3>2. Low(edi, t, w) <= c /\ c < Low(edi, t, w) + t
        BY <1>1, <2>1, <2>2, <2>5 DEF Low
      <3> QED BY <1>3, <2>3, <3>1, <3>2 DEF c
    <2> QED BY <2>1, <2>4, <2>5
  <1> QED BY <1>4, <1>5

(* One round of the copy.                                                  *)
LEMMA CopyRound ==
    ASSUME StrTypes, NEW w \in Nat \ {0}, NEW t \in Nat, NEW n \in Nat, t + w <= n, ~Unclaimed(n, w),
           NEW m, Copied(m, t, n, w), Fit(Pos(edi, t), w), Fit(Pos(esi, t), w),
           NEW g, \A a \in Address : g[a] = IF Pos(edi, t) <= a /\ a < Pos(edi, t) + w THEN m[a - edi + esi] ELSE m[a]
    PROVE  Copied(g, t + w, n, w)
  <1> SUFFICES ASSUME NEW a \in Address
               PROVE  g[a] = IF Low(edi, t + w, w) <= a /\ a < Low(edi, t + w, w) + (t + w)
                             THEN bytes[Source(a, n)] ELSE bytes[a]
    BY DEF Copied
  <1>1. esi \in Nat /\ edi \in Nat /\ DF \in BOOLEAN /\ a \in Int
    BY StrSizes DEF StrTypes, Address
  <1>2. CASE Pos(edi, t) <= a /\ a < Pos(edi, t) + w
    <2>1. g[a] = bytes[Source(a, n)]
      BY <1>1, <1>2, MovedByte
    <2>2. Low(edi, t + w, w) <= a /\ a < Low(edi, t + w, w) + (t + w)
      BY <1>1, <1>2 DEF Low, Pos
    <2> QED BY <2>1, <2>2
  <1>3. CASE ~(Pos(edi, t) <= a /\ a < Pos(edi, t) + w)
    <2>1. g[a] = m[a]
      BY <1>3
    <2>2. (Low(edi, t + w, w) <= a /\ a < Low(edi, t + w, w) + (t + w)) <=> (Low(edi, t, w) <= a /\ a < Low(edi, t, w) + t)
      BY <1>1, <1>3 DEF Low, Pos
    <2> QED BY <2>1, <2>2 DEF Copied
  <1> QED BY <1>2, <1>3

(* The states of the loop.                                                 *)
LoopState ==
    [m : [Address -> SUBSET BitNo], esi : 0..(RegWord - 1), edi : 0..(RegWord - 1), ok : BOOLEAN]

(* What holds after t of n bytes of a MOVS ...                             *)
MovesRight(s, t, n, w) ==
    /\ s \in LoopState
    /\ s.ok => /\ s.esi = Pos(esi, t) % RegWord /\ s.edi = Pos(edi, t) % RegWord
               /\ t > 0 => Passed(esi, t, w) /\ Passed(edi, t, w)
               /\ ~Unclaimed(n, w) => Copied(s.m, t, n, w)
    /\ ~s.ok => n > 0 /\ ~(Passed(esi, n, w) /\ Passed(edi, n, w))

(* ... and of a STOS, with EAX in every element.                           *)
Stored(m, t, n, w) ==
    \A a \in Address :
        m[a] = IF Low(edi, t, w) <= a /\ a < Low(edi, t, w) + t THEN EAX[((a - Low(edi, n, w)) % w) + 1] ELSE bytes[a]

StoresRight(s, t, n, w) ==
    /\ s \in LoopState
    /\ s.ok => /\ s.esi = esi /\ s.edi = Pos(edi, t) % RegWord
               /\ t > 0 => Passed(edi, t, w)
               /\ Stored(s.m, t, n, w)
    /\ ~s.ok => n > 0 /\ ~Passed(edi, n, w)

(* Memory with an element of w bytes written to z.                         *)
LEMMA StoreShows ==
    ASSUME NEW m \in [Address -> SUBSET BitNo], NEW w \in Nat \ {0}, NEW z \in Int,
           NEW v \in Seq(SUBSET BitNo), Len(v) = w
    PROVE  /\ Store(m, z, v) \in [Address -> SUBSET BitNo]
           /\ \A a \in Address : Store(m, z, v)[a] = IF z <= a /\ a < z + w THEN v[a - z + 1] ELSE m[a]
  <1>1. \A a \in Address : z <= a /\ a < z + w => v[a - z + 1] \in SUBSET BitNo
    <2> SUFFICES ASSUME NEW a \in Address, z <= a, a < z + w PROVE v[a - z + 1] \in SUBSET BitNo
      OBVIOUS
    <2>1. a - z + 1 \in 1..Len(v)
      BY StrSizes DEF Address
    <2> QED BY <2>1
  <1> QED BY <1>1 DEF Store

(* A failed state stays as it is.                                          *)
LEMMA Failed ==
    ASSUME NEW s \in LoopState
    PROVE  /\ [s EXCEPT !.ok = FALSE] \in LoopState
           /\ ~[s EXCEPT !.ok = FALSE].ok
  BY Zenon DEF LoopState

(* A round of MOVS.                                                        *)
LEMMA MoveRound ==
    ASSUME StrTypes, NEW w \in Nat \ {0}, NEW t \in Nat, NEW n \in Nat, t + w <= n,
           NEW s, MovesRight(s, t, n, w)
    PROVE  MovesRight(MOVS(s, w), t + w, n, w)
  <1> DEFINE r == MOVS(s, w)
             f == [s EXCEPT !.ok = FALSE]
             ss == Pos(esi, t)
             ds == Pos(edi, t)
  <1>1. /\ esi \in 0..(RegWord - 1) /\ edi \in 0..(RegWord - 1) /\ DF \in BOOLEAN /\ n > 0 /\ t + w > 0 /\ t + w \in Nat
        /\ esi \in Nat /\ edi \in Nat
    BY StrSizes DEF StrTypes
  <1>2. s \in LoopState
    BY DEF MovesRight
  <1>3. CASE ~s.ok
    <2>1. r = f
      BY <1>3 DEF MOVS
    <2>2. f \in LoopState /\ ~f.ok
      BY <1>2, Failed
    <2> HIDE DEF r, f
    <2>3. ~(Passed(esi, n, w) /\ Passed(edi, n, w))
      BY <1>3 DEF MovesRight
    <2>4. MovesRight(r, t + w, n, w)
      BY <1>1, <2>1, <2>2, <2>3 DEF MovesRight
    <2> QED BY <2>4 DEF r
  <1>4. CASE s.ok
    <2>1. /\ s.esi = ss % RegWord /\ s.edi = ds % RegWord
          /\ t > 0 => Passed(esi, t, w) /\ Passed(edi, t, w)
          /\ ~Unclaimed(n, w) => Copied(s.m, t, n, w)
      BY <1>4 DEF MovesRight
    <2>2. /\ ss \in Int
          /\ Inside(ss % RegWord, w) <=> Fit(ss, w)
          /\ Fit(ss, w) => /\ ss % RegWord = ss
                           /\ ((ss % RegWord) + Step(w)) % RegWord = Pos(esi, t + w) % RegWord
                           /\ Passed(esi, t + w, w)
          /\ ~Fit(ss, w) => ~Passed(esi, n, w)
      BY <1>1, <2>1, PointerRound
    <2>3. /\ ds \in Int
          /\ Inside(ds % RegWord, w) <=> Fit(ds, w)
          /\ Fit(ds, w) => /\ ds % RegWord = ds
                           /\ ((ds % RegWord) + Step(w)) % RegWord = Pos(edi, t + w) % RegWord
                           /\ Passed(edi, t + w, w)
          /\ ~Fit(ds, w) => ~Passed(edi, n, w)
      BY <1>1, <2>1, PointerRound
    <2>4. ss - ds = esi - edi
      BY <1>1 DEF Pos
    <2>5. CASE ~(Fit(ss, w) /\ Fit(ds, w))
      <3>1. r = f
        BY <2>1, <2>2, <2>3, <2>5, Zenon DEF MOVS
      <3>2. f \in LoopState /\ ~f.ok
        BY <1>2, Failed
      <3>3. ~(Passed(esi, n, w) /\ Passed(edi, n, w))
        BY <2>2, <2>3, <2>5
      <3> HIDE DEF r, f
      <3>4. MovesRight(r, t + w, n, w)
        BY <1>1, <3>1, <3>2, <3>3 DEF MovesRight
      <3> QED BY <3>4 DEF r
    <2>6. CASE Fit(ss, w) /\ Fit(ds, w)
      <3> DEFINE v == [k \in 1..w |-> s.m[ss + k - 1]]
                 g == Store(s.m, ds, v)
                 pe == Pos(esi, t + w) % RegWord
                 pd == Pos(edi, t + w) % RegWord
      <3>1. r = [m |-> g, esi |-> pe, edi |-> pd, ok |-> TRUE]
        <4>1. s.esi = ss /\ s.edi = ds /\ Inside(s.esi, w) /\ Inside(s.edi, w)
          BY <2>1, <2>2, <2>3, <2>6
        <4>2. (s.esi + Step(w)) % RegWord = pe /\ (s.edi + Step(w)) % RegWord = pd
          BY <2>1, <2>2, <2>3, <2>6, Zenon
        <4> HIDE DEF ss, ds, pe, pd
        <4> QED BY <1>4, <4>1, <4>2, Zenon DEF MOVS
      <3>2. s.m \in [Address -> SUBSET BitNo]
        BY <1>2 DEF LoopState
      <3>3. v \in Seq(SUBSET BitNo) /\ Len(v) = w
        <4>1. \A k \in 1..w : ss + k - 1 \in Address
          BY <2>2, <2>6, StrSizes DEF Fit, Address
        <4> HIDE DEF ss
        <4>2. v \in [1..w -> SUBSET BitNo]
          BY <3>2, <4>1
        <4> HIDE DEF v
        <4> QED BY <4>2
      <3>4. /\ g \in [Address -> SUBSET BitNo]
            /\ \A a \in Address : g[a] = IF ds <= a /\ a < ds + w THEN v[a - ds + 1] ELSE s.m[a]
        <4> HIDE DEF v, ds
        <4> QED BY <2>3, <3>2, <3>3, StoreShows
      <3>5. \A a \in Address : ds <= a /\ a < ds + w => v[a - ds + 1] = s.m[a - edi + esi]
        <4> SUFFICES ASSUME NEW a \in Address, ds <= a, a < ds + w PROVE v[a - ds + 1] = s.m[a - edi + esi]
          OBVIOUS
        <4>1. a - ds + 1 \in 1..w /\ ss + (a - ds + 1) - 1 = a - edi + esi
          <5>1. a \in Int
            BY StrSizes DEF Address
          <5> HIDE DEF ss, ds
          <5> QED BY <1>1, <2>2, <2>3, <2>4, <5>1
        <4> HIDE DEF ss, ds
        <4> QED BY <4>1
      <3>6. pe \in 0..(RegWord - 1) /\ pd \in 0..(RegWord - 1)
        <4>1. Pos(esi, t + w) \in Int /\ Pos(edi, t + w) \in Int
          BY <1>1 DEF Pos
        <4> QED BY <4>1, StrSizes, ModRange, Zenon
      <3>7. ~Unclaimed(n, w) => Copied(g, t + w, n, w)
        <4> SUFFICES ASSUME ~Unclaimed(n, w) PROVE Copied(g, t + w, n, w)
          OBVIOUS
        <4>1. Copied(s.m, t, n, w)
          BY <2>1
        <4>2. \A a \in Address : g[a] = IF ds <= a /\ a < ds + w THEN s.m[a - edi + esi] ELSE s.m[a]
          <5> HIDE DEF g, v, ds
          <5> QED BY <3>4, <3>5
        <4> HIDE DEF g
        <4> QED BY <2>6, <4>1, <4>2, CopyRound
      <3> HIDE DEF g, pe, pd
      <3>8. r \in LoopState /\ r.ok /\ r.esi = pe /\ r.edi = pd /\ r.m = g
        BY <3>1, <3>4, <3>6 DEF LoopState
      <3> HIDE DEF r
      <3>9. MovesRight(r, t + w, n, w)
        BY <2>2, <2>3, <2>6, <3>7, <3>8, Zenon DEF MovesRight, pe, pd
      <3> QED BY <3>9 DEF r
    <2> QED BY <2>5, <2>6
  <1> QED BY <1>3, <1>4

(* A round of STOS, at a whole number of elements from the lowest byte.    *)
LEMMA StoreRound ==
    ASSUME StrTypes, NEW w \in Nat \ {0}, w <= Dword, NEW t \in Nat, NEW n \in Nat, t + w <= n,
           NEW q \in Nat, Pos(edi, t) - Low(edi, n, w) = w * q,
           NEW s, StoresRight(s, t, n, w)
    PROVE  StoresRight(STOS(s, w), t + w, n, w)
  <1> DEFINE r == STOS(s, w)
             f == [s EXCEPT !.ok = FALSE]
             ds == Pos(edi, t)
  <1>1. /\ esi \in 0..(RegWord - 1) /\ edi \in 0..(RegWord - 1) /\ DF \in BOOLEAN /\ n > 0 /\ t + w > 0 /\ t + w \in Nat
        /\ edi \in Nat
    BY StrSizes DEF StrTypes
  <1>2. s \in LoopState
    BY DEF StoresRight
  <1>3. CASE ~s.ok
    <2>1. r = f
      BY <1>3 DEF STOS
    <2>2. f \in LoopState /\ ~f.ok
      BY <1>2, Failed
    <2> HIDE DEF r, f
    <2>3. ~Passed(edi, n, w)
      BY <1>3 DEF StoresRight
    <2>4. StoresRight(r, t + w, n, w)
      BY <1>1, <2>1, <2>2, <2>3 DEF StoresRight
    <2> QED BY <2>4 DEF r
  <1>4. CASE s.ok
    <2>1. /\ s.esi = esi /\ s.edi = ds % RegWord
          /\ t > 0 => Passed(edi, t, w)
          /\ Stored(s.m, t, n, w)
      BY <1>4 DEF StoresRight
    <2>3. /\ ds \in Int
          /\ Inside(ds % RegWord, w) <=> Fit(ds, w)
          /\ Fit(ds, w) => /\ ds % RegWord = ds
                           /\ ((ds % RegWord) + Step(w)) % RegWord = Pos(edi, t + w) % RegWord
                           /\ Passed(edi, t + w, w)
          /\ ~Fit(ds, w) => ~Passed(edi, n, w)
      BY <1>1, <2>1, PointerRound
    <2>5. CASE ~Fit(ds, w)
      <3>1. r = f
        BY <2>1, <2>3, <2>5, Zenon DEF STOS
      <3>2. f \in LoopState /\ ~f.ok
        BY <1>2, Failed
      <3>3. ~Passed(edi, n, w)
        BY <2>3, <2>5
      <3> HIDE DEF r, f
      <3>4. StoresRight(r, t + w, n, w)
        BY <1>1, <3>1, <3>2, <3>3 DEF StoresRight
      <3> QED BY <3>4 DEF r
    <2>6. CASE Fit(ds, w)
      <3> DEFINE v == SubSeq(EAX, 1, w)
                 g == Store(s.m, ds, v)
                 pd == Pos(edi, t + w) % RegWord
      <3>1. r = [m |-> g, esi |-> esi, edi |-> pd, ok |-> TRUE]
        <4>1. s.esi = esi /\ s.edi = ds /\ Inside(s.edi, w)
          BY <2>1, <2>3, <2>6
        <4>2. (s.edi + Step(w)) % RegWord = pd
          BY <2>1, <2>3, <2>6, Zenon
        <4> HIDE DEF ds, pd
        <4> QED BY <1>4, <4>1, <4>2, Zenon DEF STOS
      <3>2. s.m \in [Address -> SUBSET BitNo]
        BY <1>2 DEF LoopState
      <3>3. v \in Seq(SUBSET BitNo) /\ Len(v) = w /\ \A k \in 1..w : v[k] = EAX[k]
        <4>1. EAX \in Seq(SUBSET BitNo) /\ Len(EAX) = Dword
          BY StringsAssumption, StrSizes
        <4> QED BY <4>1, StrSizes
      <3>4. /\ g \in [Address -> SUBSET BitNo]
            /\ \A a \in Address : g[a] = IF ds <= a /\ a < ds + w THEN v[a - ds + 1] ELSE s.m[a]
        <4> HIDE DEF v, ds
        <4> QED BY <2>3, <3>2, <3>3, StoreShows, SMTT(20), SMTT(30), Zenon
      <3>5. ASSUME NEW a \in Address, ds <= a, a < ds + w
            PROVE  v[a - ds + 1] = EAX[((a - Low(edi, n, w)) % w) + 1]
        <4> DEFINE k == a - ds
        <4>1. a \in Int /\ k \in 0..(w - 1) /\ k + 1 \in 1..w
          BY <2>3, <3>5, StrSizes DEF Address
        <4>2. a - Low(edi, n, w) = w * q + k
          <5>1. Low(edi, n, w) \in Int
            BY <1>1 DEF Low
          <5>2. w * q \in Int
            OBVIOUS
          <5> HIDE DEF ds
          <5> QED BY <2>3, <4>1, <5>1, <5>2 DEF ds
        <4> HIDE DEF k
        <4>3. (w * q + k) % w = k
          BY <4>1, ModUnique
        <4>4. v[k + 1] = EAX[k + 1]
          BY <3>3, <4>1
        <4> HIDE DEF v, ds
        <4> QED BY <4>2, <4>3, <4>4 DEF k
      <3>6. pd \in 0..(RegWord - 1)
        <4>1. Pos(edi, t + w) \in Int
          BY <1>1 DEF Pos
        <4> QED BY <4>1, StrSizes, ModRange, Zenon
      <3>7. Stored(g, t + w, n, w)
        <4> HIDE DEF g, v
        <4> SUFFICES ASSUME NEW a \in Address
                     PROVE  g[a] = IF Low(edi, t + w, w) <= a /\ a < Low(edi, t + w, w) + (t + w)
                                   THEN EAX[((a - Low(edi, n, w)) % w) + 1] ELSE bytes[a]
          BY DEF Stored
        <4>1. a \in Int
          BY StrSizes DEF Address
        <4>2. CASE ds <= a /\ a < ds + w
          <5>1. g[a] = EAX[((a - Low(edi, n, w)) % w) + 1]
            <6> HIDE DEF ds
            <6> QED BY <3>4, <3>5, <4>2, Zenon
          <5>2. Low(edi, t + w, w) <= a /\ a < Low(edi, t + w, w) + (t + w)
            BY <1>1, <4>1, <4>2 DEF Low, Pos
          <5> QED BY <5>1, <5>2
        <4>3. CASE ~(ds <= a /\ a < ds + w)
          <5>1. g[a] = s.m[a]
            <6> HIDE DEF ds
            <6> QED BY <3>4, <4>3
          <5>2. (Low(edi, t + w, w) <= a /\ a < Low(edi, t + w, w) + (t + w)) <=> (Low(edi, t, w) <= a /\ a < Low(edi, t, w) + t)
            BY <1>1, <4>1, <4>3 DEF Low, Pos
          <5>3. s.m[a] = IF Low(edi, t, w) <= a /\ a < Low(edi, t, w) + t
                         THEN EAX[((a - Low(edi, n, w)) % w) + 1] ELSE bytes[a]
            BY <2>1 DEF Stored
          <5> QED BY <5>1, <5>2, <5>3, Zenon
        <4> QED BY <4>2, <4>3
      <3> HIDE DEF g, pd
      <3>8. r \in LoopState /\ r.ok /\ r.esi = esi /\ r.edi = pd /\ r.m = g
        BY <1>1, <3>1, <3>4, <3>6 DEF LoopState
      <3> HIDE DEF r
      <3>9. StoresRight(r, t + w, n, w)
        BY <2>3, <2>6, <3>7, <3>8, Zenon DEF StoresRight, pd
      <3> QED BY <3>9 DEF r
    <2> QED BY <2>5, <2>6
  <1> QED BY <1>3, <1>4

(* A non-empty set of natural numbers has a smallest one.                  *)
LEMMA SmallestOf ==
    ASSUME NEW S \in SUBSET Nat, S # {}
    PROVE  \E n \in S : \A m \in S : n <= m
  <1>1. IsWellFoundedOn(OpToRel(<, Nat), Nat)
    BY NatLessThanWellFounded, Zenon
  <1>2. PICK n \in S : \A m \in S : ~(<<m, n>> \in OpToRel(<, Nat))
    BY <1>1, WFMin, Zenon
  <1>3. \A m \in S : ~(m < n)
    BY <1>2, Zenon DEF OpToRel
  <1> QED BY <1>3

(* The loop of a string instruction: f runs through its first n rounds.    *)
Start == [m |-> bytes, esi |-> esi, edi |-> edi, ok |-> TRUE]
Element(op, s, w) == IF op = "MOVS" THEN MOVS(s, w) ELSE STOS(s, w)
Loops(f, op, w, n) == f = [i \in 0..n |-> IF i = 0 THEN Start ELSE Element(op, f[i - 1], w)]

(* There is such a function, by induction on the number of rounds ...      *)
LEMMA LoopExists ==
    ASSUME NEW op, NEW w, NEW n \in Nat
    PROVE  \E f : Loops(f, op, w, n)
  <1> DEFINE G(s) == Element(op, s, w)
             Bad == {k \in Nat : ~\E f : Loops(f, op, w, k)}
  <1>0. \A f, k : Loops(f, op, w, k) <=> f = [i \in 0..k |-> IF i = 0 THEN Start ELSE G(f[i - 1])]
    BY DEF Loops
  <1> HIDE DEF G
  <1> SUFFICES ASSUME Bad # {} PROVE FALSE
    OBVIOUS
  <1>1. PICK k \in Bad : \A j \in Bad : k <= j
    BY SmallestOf, Zenon
  <1>2. \A j \in Nat : j < k => j \notin Bad
    BY <1>1
  <1>3. CASE k = 0
    <2> DEFINE g == [i \in 0..0 |-> Start]
    <2>1. g = [i \in 0..0 |-> IF i = 0 THEN Start ELSE G(g[i - 1])]
      OBVIOUS
    <2> QED BY <1>0, <1>1, <1>3, <2>1, Zenon
  <1>4. CASE k # 0
    <2>1. PICK f : Loops(f, op, w, k - 1)
      BY <1>1, <1>2, <1>4
    <2> DEFINE g == [i \in 0..k |-> IF i = k THEN G(f[k - 1]) ELSE f[i]]
    <2>2. \A i \in 0..k : g[i] = IF i = 0 THEN Start ELSE G(g[i - 1])
      <3> TAKE i \in 0..k
      <3>1. CASE i = k
        <4>1. k - 1 \in 0..k /\ k - 1 # k
          BY <1>1, <1>4
        <4> QED BY <3>1, <1>4, <4>1
      <3>2. CASE i # k
        <4>1. i \in 0..(k - 1)
          BY <1>1, <3>2
        <4>2. f[i] = IF i = 0 THEN Start ELSE G(f[i - 1])
          BY <1>0, <2>1, <4>1
        <4>3. i # 0 => i - 1 \in 0..k /\ i - 1 # k
          BY <4>1, <1>1
        <4> QED BY <3>2, <4>1, <4>2, <4>3
      <3> QED BY <3>1, <3>2
    <2>3. g = [i \in 0..k |-> IF i = 0 THEN Start ELSE G(g[i - 1])]
      BY <2>2
    <2> QED BY <1>0, <1>1, <2>3, Zenon
  <1> QED BY <1>3, <1>4

(* ... and Rounds is one.                                                  *)
LEMMA RoundsUnfold ==
    ASSUME NEW op, NEW w, NEW n \in Nat
    PROVE  /\ Rounds(op, w, n)[0] = Start
           /\ \A i \in 1..n : Rounds(op, w, n)[i] = Element(op, Rounds(op, w, n)[i - 1], w)
  <1> DEFINE f == Rounds(op, w, n)
  <1>1. \E g : Loops(g, op, w, n)
    BY LoopExists
  <1>2. f = CHOOSE g : Loops(g, op, w, n)
    BY DEF Rounds, Loops, Start, Element
  <1> HIDE DEF f
  <1>3. Loops(f, op, w, n)
    BY <1>1, <1>2
  <1>4. \A i \in 0..n : f[i] = IF i = 0 THEN Start ELSE Element(op, f[i - 1], w)
    BY <1>3 DEF Loops
  <1>5. f[0] = Start /\ \A i \in 1..n : f[i] = Element(op, f[i - 1], w)
    BY <1>4
  <1> QED BY <1>5 DEF f

(* What holds after i of count elements.                                   *)
Right(op, s, i, count, w) ==
    IF op = "MOVS" THEN MovesRight(s, w * i, w * count, w) ELSE StoresRight(s, w * i, w * count, w)

(* Before the first round.                                                 *)
LEMMA StartRight ==
    ASSUME StrTypes, NEW op, NEW count \in Nat, NEW w \in Nat \ {0}
    PROVE  Right(op, Start, 0, count, w)
  <1>1. w * 0 = 0 /\ w * count \in Nat
    OBVIOUS
  <1>2. esi \in 0..(RegWord - 1) /\ edi \in 0..(RegWord - 1) /\ DF \in BOOLEAN
    BY DEF StrTypes
  <1>3. Pos(esi, 0) % RegWord = esi /\ Pos(edi, 0) % RegWord = edi
    <2>1. Pos(esi, 0) = esi /\ Pos(edi, 0) = edi
      BY <1>2, StrSizes DEF Pos
    <2> QED BY <1>2, <2>1, StrSizes, ModIn
  <1>4. \A a \in Address : ~(Low(edi, 0, w) <= a /\ a < Low(edi, 0, w) + 0)
    BY <1>2, StrSizes DEF Low, Address
  <1>5. Start \in LoopState /\ Start.ok /\ Start.esi = esi /\ Start.edi = edi /\ Start.m = bytes
    BY DEF Start, LoopState, StrTypes
  <1>6. \A n : Copied(bytes, 0, n, w) /\ Stored(bytes, 0, n, w)
    BY <1>4 DEF Copied, Stored
  <1>7. ~(0 > 0)
    OBVIOUS
  <1> QED BY <1>1, <1>3, <1>5, <1>6, <1>7, Zenon DEF Right, MovesRight, StoresRight

(* The next round.                                                         *)
LEMMA NextRight ==
    ASSUME StrTypes, NEW op \in {"MOVS", "STOS"}, NEW count \in Nat, NEW w \in Nat \ {0}, w <= Dword,
           NEW i \in 1..count, NEW s, Right(op, s, i - 1, count, w)
    PROVE  Right(op, Element(op, s, w), i, count, w)
  <1> DEFINE t == w * (i - 1)
             n == w * count
  <1>1. i - 1 \in Nat /\ count - i \in Nat /\ i \in Nat
    OBVIOUS
  <1>2. t \in Nat /\ t + w = w * i
    BY <1>1, TimesSucc
  <1>3. w * i <= n /\ n \in Nat
    BY <1>1, TimesMonotone
  <1>4. n - w * i = w * (count - i)
    BY <1>1
  <1>5. edi \in Nat /\ DF \in BOOLEAN
    BY StrSizes DEF StrTypes
  <1>6. CASE op = "MOVS"
    <2>1. MovesRight(s, t, n, w)
      BY <1>6 DEF Right
    <2> HIDE DEF t, n
    <2>2. MovesRight(MOVS(s, w), t + w, n, w)
      BY <1>2, <1>3, <2>1, MoveRound
    <2> QED BY <1>2, <1>6, <2>2 DEF Right, Element, n
  <1>7. CASE op = "STOS"
    <2>1. StoresRight(s, t, n, w)
      BY <1>7 DEF Right
    <2>2. \E q \in Nat : Pos(edi, t) - Low(edi, n, w) = w * q
      <3>1. CASE DF
        <4> HIDE DEF t, n
        <4>1. Pos(edi, t) - Low(edi, n, w) = n - (t + w)
          BY <1>2, <1>3, <1>5, <3>1 DEF Pos, Low
        <4> QED BY <1>1, <1>2, <1>4, <4>1, Zenon
      <3>2. CASE ~DF
        <4> HIDE DEF n
        <4>1. Pos(edi, t) - Low(edi, n, w) = w * (i - 1)
          BY <1>2, <1>5, <3>2 DEF Pos, Low
        <4> QED BY <1>1, <4>1
      <3> QED BY <3>1, <3>2
    <2> HIDE DEF t, n
    <2>3. StoresRight(STOS(s, w), t + w, n, w)
      BY <1>2, <1>3, <2>1, <2>2, StoreRound, Zenon
    <2> QED BY <1>2, <1>7, <2>3 DEF Right, Element, n
  <1> QED BY <1>6, <1>7

(* All rounds.                                                             *)
LEMMA LoopRight ==
    ASSUME StrTypes, NEW op \in {"MOVS", "STOS"}, NEW count \in Nat, NEW w \in Nat \ {0}, w <= Dword
    PROVE  Right(op, Rounds(op, w, count)[count], count, count, w)
  <1> DEFINE f == Rounds(op, w, count)
             Bad == {i \in 0..count : ~Right(op, f[i], i, count, w)}
  <1>1. f[0] = Start /\ \A i \in 1..count : f[i] = Element(op, f[i - 1], w)
    BY RoundsUnfold
  <1> HIDE DEF f
  <1>2. ASSUME Bad # {} PROVE FALSE
    <2>1. PICK k \in Bad : \A j \in Bad : k <= j
      <3>1. Bad \in SUBSET Nat
        OBVIOUS
      <3> QED BY <1>2, <3>1, SmallestOf, Zenon
    <2>2. CASE k = 0
      BY <1>1, <2>1, <2>2, StartRight
    <2>3. CASE k # 0
      <3>1. k \in 1..count /\ k - 1 \in 0..count /\ ~(k <= k - 1)
        BY <2>1, <2>3
      <3>2. Right(op, f[k - 1], k - 1, count, w)
        BY <2>1, <3>1
      <3>3. Right(op, f[k], k, count, w)
        BY <1>1, <3>1, <3>2, NextRight
      <3> QED BY <2>1, <3>3
    <2> QED BY <2>2, <2>3
  <1> QED BY <1>2 DEF f

(* MOVS and STOS leave behind what they have to.                           *)
LEMMA StringIsDone ==
    ASSUME StrTypes, NEW op \in {"MOVS", "STOS"}, NEW w \in {1, Dword}, NEW count \in Counts, String(op, w, count)
    PROVE  StrTypes' /\ StringsAreExact'
  <1> DEFINE s == Rounds(op, w, count)[count]
             n == w * count
             src == Low(esi, n, w)
             dst == Low(edi, n, w)
  <1>1. count \in Nat /\ w \in Nat \ {0} /\ w <= Dword
    BY StringsAssumption, StrSizes
  <1>2. n \in Nat
    BY <1>1
  <1>3. Right(op, s, count, count, w)
    BY <1>1, LoopRight
  <1>4. PICK x : x = [op |-> op, n |-> n, width |-> w, esi |-> esi, edi |-> edi, from |-> bytes]
    BY Zenon
  <1>5. x.op = op /\ x.n = n /\ x.width = w /\ x.esi = esi /\ x.edi = edi /\ x.from = bytes
    BY <1>4
  <1>6. /\ bytes' = s.m /\ esi' = s.esi /\ edi' = s.edi /\ strFault' = ~s.ok
        /\ ran' = {x} /\ DF' = DF
    BY <1>4 DEF String
  <1> HIDE DEF s, n
  <1>7. s \in LoopState /\ s.ok \in BOOLEAN
    BY <1>3 DEF Right, MovesRight, StoresRight, LoopState
  <1>8. StrTypes'
    BY <1>6, <1>7 DEF StrTypes, LoopState
  <1>9. DF \in BOOLEAN /\ esi \in 0..(RegWord - 1) /\ edi \in 0..(RegWord - 1) /\ esi \in Int /\ edi \in Int
    BY StrSizes DEF StrTypes
  <1>10. \A p : Lowest(p, x)' = Low(p, n, w)
    BY <1>5, <1>6 DEF Lowest, Low
  <1>11. \A p : Within(Low(p, n, w), n) <=> Passed(p, n, w)
    BY DEF Within, Passed, Low
  <1>12. CASE op = "MOVS"
    <2>1. /\ s.ok => /\ s.esi = Pos(esi, n) % RegWord /\ s.edi = Pos(edi, n) % RegWord
                     /\ n > 0 => Passed(esi, n, w) /\ Passed(edi, n, w)
                     /\ ~Unclaimed(n, w) => Copied(s.m, n, n, w)
          /\ ~s.ok => n > 0 /\ ~(Passed(esi, n, w) /\ Passed(edi, n, w))
      BY <1>3, <1>12, Zenon DEF Right, MovesRight, n
    <2>2. strFault' <=> n > 0 /\ ~(Passed(edi, n, w) /\ Passed(esi, n, w))
      BY <1>6, <1>7, <2>1, Zenon
    <2>3. s.ok => /\ s.edi = (edi + (IF DF THEN RegWord - n ELSE n)) % RegWord
                  /\ s.esi = (esi + (IF DF THEN RegWord - n ELSE n)) % RegWord
      BY <1>1, <1>2, <1>9, <2>1, LastPosition
    <2>4. s.ok => Moved(x)'
      <3> SUFFICES ASSUME s.ok PROVE Moved(x)'
        OBVIOUS
      <3>1. CASE Unclaimed(n, w)
        <4>1. \/ DF /\ dst < src /\ src < dst + n
              \/ Repeats(n) /\ dst - src < w /\ src = esi /\ dst = edi /\ ~DF
          BY <1>1, <1>2, <1>9, <3>1, SMTT(20), SMTT(30), Zenon DEF Unclaimed, Low, Repeats
        <4> HIDE DEF src, dst
        <4>2. Lowest(x.esi, x)' = src /\ Lowest(x.edi, x)' = dst /\ x.n = n /\ x.width = w
          BY <1>5, <1>10, SMTT(20), SMTT(30), Zenon DEF src, dst
        <4> QED BY <1>6, <4>1, <4>2 DEF Moved, Repeats
      <3>2. CASE ~Unclaimed(n, w)
        <4>1. Copied(s.m, n, n, w)
          BY <2>1, <3>2, SMTT(20), SMTT(30), Zenon
        <4> DEFINE rep == ~DF /\ src < dst /\ dst < src + n
                   k(a) == IF rep THEN (a - dst) % (dst - src) ELSE a - dst
        <4>2. \A a \in Address : Source(a, n) = src + k(a)
          <5> TAKE a \in Address
          <5>1. a \in Int
            BY StrSizes DEF Address
          <5>2. rep <=> Repeats(n)
            BY DEF Repeats, Low
          <5>3. CASE rep
            BY <5>2, <5>3 DEF Source, Low
          <5>4. CASE ~rep
            <6>1. src - dst = esi - edi /\ src \in Int /\ dst \in Int
              BY <1>1, <1>2, <1>9 DEF Low
            <6> HIDE DEF src, dst
            <6>2. src + (a - dst) = a - edi + esi
              BY <1>9, <5>1, <6>1
            <6> QED BY <5>2, <5>4, <6>2 DEF Source
          <5> QED BY <5>3, <5>4
        <4>3. \A a \in Address : s.m[a] = IF dst <= a /\ a < dst + n THEN bytes[src + k(a)] ELSE bytes[a]
          <5> HIDE DEF k
          <5> QED BY <4>1, <4>2 DEF Copied
        <4>4. s.m \in [Address -> SUBSET BitNo]
          BY <1>7, SMTT(20), SMTT(30), Zenon DEF LoopState
        <4> HIDE DEF k
        <4>5. bytes' = [a \in Address |-> IF dst <= a /\ a < dst + n THEN bytes[src + k(a)] ELSE bytes[a]]
          BY <1>6, <4>3, <4>4, SMTT(20), SMTT(30), Zenon
        <4> HIDE DEF src, dst
        <4>6. Lowest(x.esi, x)' = src /\ Lowest(x.edi, x)' = dst
          BY <1>5, <1>10 DEF src, dst
        <4> QED BY <1>5, <1>6, <4>5, <4>6 DEF Moved, k
      <3> QED BY <3>1, <3>2
    <2>5. StringDone(x)'
      <3>1. Lowest(x.esi, x)' = src /\ Lowest(x.edi, x)' = dst
        BY <1>5, <1>10
      <3>2. (Within(src, n) <=> Passed(esi, n, w)) /\ (Within(dst, n) <=> Passed(edi, n, w))
        BY <1>11
      <3> HIDE DEF src, dst
      <3>3. (strFault' <=> x.n > 0 /\ ~(Within(dst, x.n) /\ (x.op = "MOVS" => Within(src, x.n))))
        BY <1>5, <1>12, <2>2, <3>2
      <3> QED BY <1>5, <1>6, <1>7, <1>12, <2>3, <2>4, <3>1, <3>3, ZenonT(60) DEF StringDone
    <2> QED BY <1>5, <1>6, <1>8, <1>12, <2>5 DEF StringsAreExact
  <1>13. CASE op = "STOS"
    <2>1. /\ s.ok => /\ s.esi = esi /\ s.edi = Pos(edi, n) % RegWord
                     /\ n > 0 => Passed(edi, n, w)
                     /\ Stored(s.m, n, n, w)
          /\ ~s.ok => n > 0 /\ ~Passed(edi, n, w)
      BY <1>3, <1>13, Zenon DEF Right, StoresRight, n
    <2>2. strFault' <=> n > 0 /\ ~Passed(edi, n, w)
      BY <1>6, <1>7, <2>1, Zenon
    <2>3. s.ok => s.edi = (edi + (IF DF THEN RegWord - n ELSE n)) % RegWord
      BY <1>1, <1>2, <1>9, <2>1, LastPosition, SMTT(20), SMTT(30), Zenon
    <2>4. s.ok => bytes' = [a \in Address |-> IF dst <= a /\ a < dst + n THEN EAX[((a - dst) % w) + 1] ELSE bytes[a]]
      <3>1. s.m \in [Address -> SUBSET BitNo]
        BY <1>7 DEF LoopState
      <3> QED BY <1>6, <2>1, <3>1 DEF Stored
    <2>5. StringDone(x)'
      <3>1. Lowest(x.esi, x)' = src /\ Lowest(x.edi, x)' = dst
        BY <1>5, <1>10
      <3>2. Within(dst, n) <=> Passed(edi, n, w)
        BY <1>11
      <3> HIDE DEF src, dst
      <3>3. (strFault' <=> x.n > 0 /\ ~(Within(dst, x.n) /\ (x.op = "MOVS" => Within(src, x.n))))
        BY <1>5, <1>13, <2>2, <3>2
      <3> QED BY <1>5, <1>6, <1>7, <1>13, <2>3, <2>4, <3>1, <3>3, ZenonT(60) DEF StringDone
    <2> QED BY <1>5, <1>6, <1>8, <1>13, <2>5 DEF StringsAreExact
  <1> QED BY <1>12, <1>13

(* The bit index that a pair of address and bit number has.                *)
LEMMA BitNumber ==
    ASSUME NEW a \in Int, NEW b \in BitNo, NEW c \in Int, NEW d \in BitNo, a * ByteBits + b = c * ByteBits + d
    PROVE  a = c /\ b = d
  <1>1. ByteBits \in Nat \ {0}
    BY StrSizes
  <1>2. b \in 0..(ByteBits - 1) /\ d \in 0..(ByteBits - 1)
    BY DEF BitNo
  <1>3. \A q \in Nat : q > 0 => ByteBits * q >= ByteBits
    BY <1>1
  <1>4. ~(a < c)
    <2> SUFFICES ASSUME a < c PROVE FALSE
      OBVIOUS
    <2>1. c - a \in Nat /\ c - a > 0
      OBVIOUS
    <2>2. ByteBits * (c - a) >= ByteBits
      BY <1>3, <2>1
    <2>3. ByteBits * (c - a) = c * ByteBits - a * ByteBits
      BY <1>1
    <2>4. a * ByteBits \in Int /\ c * ByteBits \in Int
      BY <1>1
    <2> QED BY <1>1, <1>2, <2>2, <2>3, <2>4
  <1>5. ~(c < a)
    <2> SUFFICES ASSUME c < a PROVE FALSE
      OBVIOUS
    <2>1. a - c \in Nat /\ a - c > 0
      OBVIOUS
    <2>2. ByteBits * (a - c) >= ByteBits
      BY <1>3, <2>1
    <2>3. ByteBits * (a - c) = a * ByteBits - c * ByteBits
      BY <1>1
    <2>4. a * ByteBits \in Int /\ c * ByteBits \in Int
      BY <1>1
    <2> QED BY <1>1, <1>2, <2>2, <2>3, <2>4
  <1>6. a = c
    BY <1>4, <1>5
  <1>7. c * ByteBits \in Int
    BY <1>1
  <1> QED BY <1>2, <1>6, <1>7

(* Division of any integer by a positive number.                           *)
LEMMA DivModInt ==
    ASSUME NEW v \in Int, NEW m \in Nat \ {0}
    PROVE  /\ v \div m \in Int /\ (v % m) \in 0..(m - 1)
           /\ v = m * (v \div m) + (v % m)
  OBVIOUS

(* The remainder of a number is the only one in its range.                 *)
LEMMA ModUniqueInt ==
    ASSUME NEW m \in Nat \ {0}, NEW q \in Int, NEW r \in 0..(m - 1)
    PROVE  ((m * q + r) % m) = r
  <1> DEFINE v == m * q + r
             d == v \div m
             e == v % m
  <1>1. v \in Int
    OBVIOUS
  <1>2. d \in Int /\ e \in 0..(m - 1) /\ v = m * d + e
    BY <1>1, DivModInt
  <1>3. m * d + e = m * q + r
    BY <1>2
  <1> HIDE DEF d, e
  <1>4. \A k \in Nat : k > 0 => m * k >= m
    OBVIOUS
  <1>5. m * d \in Int /\ m * q \in Int /\ m * (d - q) = m * d - m * q /\ m * (q - d) = m * q - m * d
    BY <1>2
  <1>6. ~(d < q)
    <2> SUFFICES ASSUME d < q PROVE FALSE
      OBVIOUS
    <2>1. q - d \in Nat /\ q - d > 0
      BY <1>2
    <2>2. m * (q - d) >= m
      BY <1>4, <2>1
    <2> QED BY <1>2, <1>3, <1>5, <2>2
  <1>7. ~(q < d)
    <2> SUFFICES ASSUME q < d PROVE FALSE
      OBVIOUS
    <2>1. d - q \in Nat /\ d - q > 0
      BY <1>2
    <2>2. m * (d - q) >= m
      BY <1>4, <2>1
    <2> QED BY <1>2, <1>3, <1>5, <2>2
  <1>8. d = q
    BY <1>2, <1>6, <1>7
  <1>9. e = r
    BY <1>2, <1>3, <1>5, <1>8
  <1> QED BY <1>9 DEF e

(* Where the quotient towards zero and the low bits name the same index.   *)
LEMMA IndexParts ==
    ASSUME NEW i \in Int, i >= 0 \/ (i % DwordBits) = 0
    PROVE  /\ Truncated(i, DwordBits) \in Int /\ (i % DwordBits) \in 0..(DwordBits - 1)
           /\ i = DwordBits * Truncated(i, DwordBits) + (i % DwordBits)
  <1>1. DwordBits \in Nat \ {0}
    BY StrSizes DEF DwordBits
  <1>2. /\ i \div DwordBits \in Int /\ (i % DwordBits) \in 0..(DwordBits - 1)
        /\ i = DwordBits * (i \div DwordBits) + (i % DwordBits)
    BY <1>1, DivModInt, Zenon
  <1>3. CASE i >= 0
    BY <1>2, <1>3 DEF Truncated
  <1>4. CASE i < 0
    <2> DEFINE D == DwordBits
               e == 0 - (i \div D)
    <2>1. e \in Int /\ (i % D) = 0 /\ i = D * (i \div D)
      BY <1>1, <1>2, <1>4
    <2>2. 0 - i = D * e
      BY <1>1, <1>2, <2>1
    <2>3. (D * e) \div D = e
      <3>1. D * e \in Int
        BY <1>1, <2>1
      <3>2. ((D * e) \div D) \in Int /\ D * e = D * ((D * e) \div D) + ((D * e) % D)
        BY <1>1, <3>1, DivModInt, Zenon
      <3>3. ((D * e) % D) = 0
        <4>1. 0 \in 0..(D - 1)
          BY <1>1
        <4>2. ((D * e + 0) % D) = 0
          BY <1>1, <2>1, <4>1, ModUniqueInt
        <4>3. D * e + 0 = D * e
          BY <3>1
        <4> QED BY <4>2, <4>3
      <3>4. D * e = D * ((D * e) \div D)
        <4>1. \A y, z, r \in Int : y = z + r /\ r = 0 => y = z
          OBVIOUS
        <4>2. D * ((D * e) \div D) \in Int /\ ((D * e) % D) \in Int
          BY <1>1, <3>1, <3>2, <3>3
        <4> HIDE DEF D, e
        <4> QED BY <3>1, <3>2, <3>3, <4>1, <4>2, Zenon
      <3>5. \A y, z \in Int : D * y = D * z => y = z
        BY <1>1
      <3> QED BY <2>1, <3>2, <3>4, <3>5
    <2>4. Truncated(i, D) = 0 - e
      BY <1>4, <2>2, <2>3 DEF Truncated
    <2>5. 0 - e = i \div D
      BY <1>2
    <2> QED BY <1>2, <2>4, <2>5
  <1> QED BY <1>3, <1>4

(* The bit that base and index name, where the dword is inside memory: it  *)
(* is the one bit of memory with that number.                              *)
LEMMA OneBit ==
    ASSUME NEW base \in 0..(RegWord - 1), NEW i \in Int, i >= 0 \/ (i % DwordBits) = 0,
           NEW word, word = ((base + Truncated(i, DwordBits) * Dword) % RegWord),
           NEW r, r = (i % DwordBits), Inside(word, Dword),
           NEW at, at = word + (r \div ByteBits), NEW b, b = (r % ByteBits)
    PROVE  /\ at \in Address /\ b \in BitNo
           /\ {c \in Address \X BitNo : c[1] * ByteBits + c[2] = (base * ByteBits + i) % (RegWord * ByteBits)}
                = {<<at, b>>}
  <1> DEFINE t == Truncated(i, DwordBits)
             u == (base + t * Dword) \div RegWord
             M == RegWord * ByteBits
             h == r \div ByteBits
  <1>1. ByteBits \in Nat \ {0} /\ Dword \in Nat \ {0} /\ RegWord \in Nat \ {0} /\ Bytes \in Nat /\ Bytes < RegWord
    BY StrSizes, StringsAssumption
  <1>2. t \in Int /\ r \in 0..(DwordBits - 1) /\ i = DwordBits * t + r
    BY IndexParts
  <1>3. DwordBits = Dword * ByteBits /\ DwordBits \in Nat \ {0}
    BY <1>1 DEF DwordBits
  <1>4. r \in Nat /\ r < Dword * ByteBits
    BY <1>2, <1>3
  <1> HIDE DEF t
  <1>5. base \in Int /\ t * Dword \in Int /\ base + t * Dword \in Int
    BY <1>1, <1>2
  <1>6. u \in Int /\ word \in 0..(RegWord - 1) /\ base + t * Dword = RegWord * u + word
    <2>1. base + t * Dword \in Int /\ word = ((base + t * Dword) % RegWord)
      BY <1>5 DEF t
    <2>2. (base + t * Dword) \div RegWord \in Int /\ ((base + t * Dword) % RegWord) \in 0..(RegWord - 1)
          /\ base + t * Dword = RegWord * ((base + t * Dword) \div RegWord) + ((base + t * Dword) % RegWord)
      BY <1>1, <2>1, DivModInt, Zenon
    <2> QED BY <2>1, <2>2
  <1>7. h \in Int /\ b \in 0..(ByteBits - 1) /\ r = ByteBits * h + b
    <2>1. r \in Int
      BY <1>4
    <2>2. r \div ByteBits \in Int /\ (r % ByteBits) \in 0..(ByteBits - 1)
          /\ r = ByteBits * (r \div ByteBits) + (r % ByteBits)
      BY <1>1, <2>1, DivModInt, Zenon
    <2> QED BY <2>2
  <1> HIDE DEF u, h
  <1>8. h >= 0
    <2> SUFFICES ASSUME h < 0 PROVE FALSE
      BY <1>7
    <2>1. h <= -1
      BY <1>7
    <2>2. ByteBits * h <= 0 - ByteBits
      BY <1>1, <1>7, <2>1
    <2>3. ByteBits * h \in Int
      BY <1>1, <1>7
    <2> QED BY <1>1, <1>4, <1>7, <2>2, <2>3
  <1>9. h < Dword
    <2> SUFFICES ASSUME h >= Dword PROVE FALSE
      BY <1>1, <1>7
    <2>1. ByteBits * h >= Dword * ByteBits
      BY <1>1, <1>7
    <2>2. ByteBits * h \in Int /\ Dword * ByteBits \in Int
      BY <1>1, <1>7
    <2> QED BY <1>1, <1>4, <1>7, <2>1, <2>2, SMTT(20), SMTT(30), Zenon
  <1>10. word + Dword <= Bytes /\ word \in Nat
    BY <1>1, <1>6 DEF Inside
  <1>11. at = word + h
    BY DEF h
  <1>12. at \in Address /\ at \in Nat
    BY <1>1, <1>7, <1>8, <1>9, <1>10, <1>11, SMTT(20), SMTT(30), Zenon DEF Address
  <1>13. b \in BitNo
    BY <1>7 DEF BitNo
  <1>14. at * ByteBits + b = word * ByteBits + r
    <2>1. at * ByteBits = word * ByteBits + ByteBits * h
      BY <1>1, <1>7, <1>10, <1>11
    <2>2. word * ByteBits \in Int /\ ByteBits * h \in Int
      BY <1>1, <1>7, <1>10
    <2> QED BY <1>4, <1>7, <2>1, <2>2
  <1>15. M \in Nat \ {0}
    BY <1>1
  <1>16. word * ByteBits + r \in 0..(M - 1)
    <2>1. word * ByteBits \in Nat /\ Dword * ByteBits \in Nat
      BY <1>1, <1>10
    <2>2. (word + Dword) * ByteBits = word * ByteBits + Dword * ByteBits
      BY <1>1, <1>10
    <2>3. (word + Dword) * ByteBits <= RegWord * ByteBits
      BY <1>1, <1>10
    <2> HIDE DEF M
    <2>4. word * ByteBits + Dword * ByteBits <= M
      BY <2>2, <2>3, SMTT(20), SMTT(30), Zenon DEF M
    <2> QED BY <1>4, <1>15, <2>1, <2>4, SMTT(20), SMTT(30), Zenon
  <1>17. base * ByteBits + i = M * u + (word * ByteBits + r)
    <2>1. base * ByteBits + (t * Dword) * ByteBits = (base + t * Dword) * ByteBits
      BY <1>1, <1>5
    <2>2. (RegWord * u + word) * ByteBits = M * u + word * ByteBits
      BY <1>1, <1>6
    <2>3. (t * Dword) * ByteBits = DwordBits * t
      BY <1>1, <1>2, <1>3, SMTT(20), SMTT(30), Zenon
    <2>4. /\ base * ByteBits \in Int /\ DwordBits * t \in Int /\ M * u \in Int /\ word * ByteBits \in Int
      BY <1>1, <1>2, <1>3, <1>5, <1>6, SMTT(20), SMTT(30), Zenon
    <2> HIDE DEF M
    <2>5. base * ByteBits + DwordBits * t = M * u + word * ByteBits
      BY <1>6, <2>1, <2>2, <2>3, SMTT(20), SMTT(30), Zenon
    <2> QED BY <1>2, <1>4, <2>4, <2>5, SMTT(20), SMTT(30), Zenon
  <1>18. ((base * ByteBits + i) % M) = at * ByteBits + b
    <2> HIDE DEF M
    <2>1. ((M * u + (word * ByteBits + r)) % M) = word * ByteBits + r
      BY <1>6, <1>15, <1>16, ModUniqueInt, Zenon
    <2> QED BY <1>14, <1>17, <2>1
  <1>19. ASSUME NEW c \in Address \X BitNo
         PROVE  (c[1] * ByteBits + c[2] = at * ByteBits + b) <=> (c = <<at, b>>)
    <2>1. c[1] \in Int /\ c[2] \in BitNo /\ c = <<c[1], c[2]>>
      BY <1>1 DEF Address
    <2>2. c[1] * ByteBits + c[2] = at * ByteBits + b => c[1] = at /\ c[2] = b
      <3>1. at \in Int
        BY <1>12
      <3>2. PICK a, d : a = c[1] /\ d = c[2]
        OBVIOUS
      <3>3. a \in Int /\ d \in BitNo
        BY <2>1, <3>2
      <3>4. a * ByteBits + d = at * ByteBits + b => a = at /\ d = b
        BY <1>13, <3>1, <3>3, BitNumber
      <3> QED BY <3>2, <3>4
    <2> QED BY <2>1, <2>2
  <1>20. <<at, b>> \in Address \X BitNo
    BY <1>12, <1>13
  <1> HIDE DEF M
  <1>21. {c \in Address \X BitNo : c[1] * ByteBits + c[2] = ((base * ByteBits + i) % M)} = {<<at, b>>}
    BY <1>18, <1>19, <1>20, SMTT(20), SMTT(30), Zenon
  <1> QED BY <1>12, <1>13, <1>21 DEF M

(* The BT group leaves behind what it has to.                              *)
LEMMA BitIsDone ==
    ASSUME StrTypes, NEW op \in {"BT", "BTS", "BTR", "BTC"}, NEW i \in Indexes, BitString(op, i)
    PROVE  StrTypes' /\ StringsAreExact'
  <1> DEFINE word == (esi + Truncated(i, DwordBits) * Dword) % RegWord
             r == i % DwordBits
             at == word + (r \div ByteBits)
             b == r % ByteBits
             new(v) == CASE op = "BT" -> v
                         [] op = "BTS" -> v \cup {b}
                         [] op = "BTR" -> v \ {b}
                         [] op = "BTC" -> IF b \in v THEN v \ {b} ELSE v \cup {b}
  <1>1. PICK x : x = [op |-> op, base |-> esi, index |-> i, from |-> bytes]
    BY Zenon
  <1>2. x.op = op /\ x.base = esi /\ x.index = i /\ x.from = bytes
    BY <1>1
  <1>3. BitPlace(esi, i).word = word /\ BitPlace(esi, i).bit = r
    BY DEF BitPlace
  <1>4. /\ Inside(word, Dword) => /\ CF' = (b \in bytes[at])
                                  /\ bytes' = [bytes EXCEPT ![at] = new(@)] /\ strFault' = FALSE
        /\ ~Inside(word, Dword) => strFault' = TRUE /\ CF' = CF /\ bytes' = bytes
        /\ ran' = {x} /\ esi' = esi /\ edi' = edi /\ DF' = DF
    BY <1>1, <1>3, Zenon DEF BitString
  <1>5. i \in Int /\ esi \in 0..(RegWord - 1) /\ bytes \in [Address -> SUBSET BitNo]
    BY StringsAssumption DEF StrTypes
  <1>6. b \in BitNo
    <2>1. ByteBits \in Nat \ {0} /\ DwordBits \in Nat \ {0}
      BY StrSizes DEF DwordBits
    <2>2. r \in Int
      BY <1>5, <2>1, DivModInt
    <2> HIDE DEF r
    <2> QED BY <2>1, <2>2, DivModInt DEF BitNo
  <1> HIDE DEF word, r, at, b
  <1>7. \A v \in SUBSET BitNo : new(v) \in SUBSET BitNo
    BY <1>6
  <1> HIDE DEF new
  <1>8. bytes' \in [Address -> SUBSET BitNo]
    BY <1>4, <1>5, <1>7
  <1>9. StrTypes'
    BY <1>4, <1>8 DEF StrTypes
  <1>10. BitDone(x)'
    <2>1. CASE ~Inside(word, Dword)
      BY <1>4, <2>1 DEF BitDone
    <2>2. CASE i < 0 /\ (i % DwordBits) # 0
      BY <1>2, <2>2 DEF BitDone
    <2>3. CASE Inside(word, Dword) /\ (i >= 0 \/ (i % DwordBits) = 0)
      <3> DEFINE this == {c \in Address \X BitNo :
                            c[1] * ByteBits + c[2] = (x.base * ByteBits + x.index) % (RegWord * ByteBits)}
                 on(m) == {c \in Address \X BitNo : c[2] \in m[c[1]]}
      <3>1. /\ at \in Address
            /\ {c \in Address \X BitNo : c[1] * ByteBits + c[2] = (esi * ByteBits + i) % (RegWord * ByteBits)}
                 = {<<at, b>>}
        BY <1>5, <2>3, OneBit DEF word, r, at, b
      <3>2. this = {<<at, b>>}
        BY <1>2, <3>1
      <3>3. PICK new1 : new1 = bytes'
        OBVIOUS
      <3>4. /\ new1 = [bytes EXCEPT ![at] = new(bytes[at])]
            /\ CF' = (b \in bytes[at])
        BY <1>4, <2>3, <3>3
      <3>5. PICK old : old = bytes
        OBVIOUS
      <3>6. old \in [Address -> SUBSET BitNo] /\ new1 = [old EXCEPT ![at] = new(old[at])]
        BY <1>5, <3>4, <3>5
      <3>7. ASSUME NEW c \in Address \X BitNo
            PROVE  c[1] \in Address /\ c[2] \in BitNo /\ (c = <<at, b>> <=> c[1] = at /\ c[2] = b)
        BY SMTT(20), SMTT(30), Zenon
      <3>8. ASSUME NEW c \in Address \X BitNo
            PROVE  c[2] \in new1[c[1]] <=> IF c = <<at, b>> THEN b \in new(old[at]) ELSE c[2] \in old[c[1]]
        <4>1. c[1] # at => new1[c[1]] = old[c[1]]
          BY <3>6, <3>7
        <4>2. new1[at] = new(old[at])
          BY <3>1, <3>6
        <4>3. \A d : d # b => (d \in new(old[at]) <=> d \in old[at])
          BY DEF new
        <4> QED BY <3>7, <4>1, <4>2, <4>3
      <3>9. b \in new(old[at]) <=> CASE op = "BT" -> b \in old[at]
                                    [] op = "BTS" -> TRUE
                                    [] op = "BTR" -> FALSE
                                    [] op = "BTC" -> b \notin old[at]
        BY Zenon DEF new
      <3>10. <<at, b>> \in Address \X BitNo
        BY <1>6, <3>1
      <3>11. CF' = (this \subseteq on(old))
        BY <3>2, <3>4, <3>5, <3>10
      <3>12. on(new1) = CASE op = "BT" -> on(old)
                          [] op = "BTS" -> on(old) \cup this
                          [] op = "BTR" -> on(old) \ this
                          [] op = "BTC" -> (on(old) \ this) \cup (this \ on(old))
        <4>1. CASE op = "BT"
          BY <3>8, <3>9, <4>1, <3>10
        <4>2. CASE op = "BTS"
          BY <3>2, <3>8, <3>9, <4>2, <3>10
        <4>3. CASE op = "BTR"
          BY <3>2, <3>8, <3>9, <4>3, <3>10
        <4>4. CASE op = "BTC"
          BY <3>2, <3>8, <3>9, <4>4, <3>10
        <4> QED BY <4>1, <4>2, <4>3, <4>4
      <3> QED BY <1>2, <3>3, <3>5, <3>11, <3>12, SMTT(20), SMTT(30), Zenon DEF BitDone
    <2> QED BY <1>5, <2>1, <2>2, <2>3
  <1> QED BY <1>2, <1>4, <1>9, <1>10 DEF StringsAreExact

(* MOVS, STOS and the BT group leave the state they have to, for memories, *)
(* registers and counts of every size: StringsAreExact (CPU.Step).         *)
THEOREM StringsStayExact == StrSpec => []StringsAreExact
  <1> DEFINE I == StrTypes /\ StringsAreExact
  <1>1. StrInit => I
    BY StringsAssumption DEF StrInit, StrTypes, StringsAreExact
  <1>2. I /\ [StrNext]_strVars => I'
    <2> SUFFICES ASSUME I, [StrNext]_strVars PROVE I'
      OBVIOUS
    <2>1. CASE StrNext
      <3>1. CASE \E op \in {"MOVS", "STOS"}, width \in {1, Dword}, count \in Counts : String(op, width, count)
        BY <3>1, StringIsDone
      <3>2. CASE \E op \in {"BT", "BTS", "BTR", "BTC"}, i \in Indexes : BitString(op, i)
        BY <3>2, BitIsDone
      <3> QED BY <2>1, <3>1, <3>2 DEF StrNext
    <2>2. CASE UNCHANGED strVars
      <3>1. /\ bytes' = bytes /\ esi' = esi /\ edi' = edi /\ DF' = DF
            /\ strFault' = strFault /\ CF' = CF /\ ran' = ran
        BY <2>2 DEF strVars
      <3>2. StrTypes'
        BY <3>1 DEF StrTypes
      <3>3. \A p, x : Lowest(p, x)' = Lowest(p, x)
        BY <3>1 DEF Lowest
      <3>4. \A x : Moved(x)' <=> Moved(x)
        <4> TAKE x
        <4>1. Lowest(x.esi, x)' = Lowest(x.esi, x) /\ Lowest(x.edi, x)' = Lowest(x.edi, x)
          BY <3>3, SMTT(20), SMTT(30), Zenon
        <4> QED BY <3>1, <4>1, Zenon DEF Moved
      <3>5. \A x : StringDone(x)' <=> StringDone(x)
        BY <3>1, <3>3, <3>4 DEF StringDone
      <3>6. \A x : BitDone(x)' <=> BitDone(x)
        BY <3>1 DEF BitDone
      <3> QED BY <3>1, <3>2, <3>5, <3>6, Zenon DEF StringsAreExact
    <2> QED BY <2>1, <2>2
  <1>3. I => StringsAreExact
    OBVIOUS
  <1> QED BY <1>1, <1>2, <1>3, PTL DEF StrSpec

-----------------------------------------------------------------------------
(* The floating-point unit implements a stack of operands, and comparisons *)
(* reach the conditional jumps.                                            *)

(* The register that is i places from the top.                             *)
At(top, i) == (top + i) % Slots

(* The numbers on the stack, the top first.                                *)
Stack(f, top, n) == [i \in 1..n |-> f[At(top, i - 1)]]

File == [0..(Slots - 1) -> Num]

(* Places are counted round the register file.                             *)
LEMMA AtWraps ==
    ASSUME NEW top \in 0..(Slots - 1), NEW i \in 0..Slots
    PROVE  At(top, i) = IF top + i < Slots THEN top + i ELSE top + i - Slots
  BY X87Assumption DEF At

(* The stack is a sequence of numbers.                                     *)
LEMMA StackIsSeq ==
    ASSUME NEW f \in File, NEW top \in 0..(Slots - 1), NEW n \in 0..Slots
    PROVE  /\ Stack(f, top, n) \in Seq(Num)
           /\ Len(Stack(f, top, n)) = n
           /\ \A i \in 1..n : Stack(f, top, n)[i] = f[At(top, i - 1)] /\ f[At(top, i - 1)] \in Num
  <1>1. \A i \in 1..n : f[At(top, i - 1)] \in Num
    BY AtWraps, X87Assumption DEF File
  <1>2. Stack(f, top, n) \in [1..n -> Num]
    BY <1>1 DEF Stack
  <1>3. n \in Nat
    BY X87Assumption
  <1>4. Stack(f, top, n) \in Seq(Num) /\ Len(Stack(f, top, n)) = n
    BY <1>2, <1>3, LenProperties
  <1> QED BY <1>1, <1>4, SMTT(20), SMTT(30), Zenon DEF Stack

(* fpuPush puts a number in front of the stack.                            *)
LEMMA PushStacks ==
    ASSUME NEW f \in File, NEW top \in 0..(Slots - 1), NEW n \in 0..(Slots - 1), NEW v \in Num
    PROVE  LET b == At(top, Slots - 1) IN Stack([f EXCEPT ![b] = v], b, n + 1) = <<v>> \o Stack(f, top, n)
  <1> DEFINE b == At(top, Slots - 1)
             g == [f EXCEPT ![b] = v]
             s == Stack(f, top, n)
             t == Stack(g, b, n + 1)
  <1>b. b = IF top = 0 THEN Slots - 1 ELSE top - 1
    BY AtWraps, X87Assumption
  <1>1. b \in 0..(Slots - 1) /\ g \in File
    BY <1>b, X87Assumption DEF File
  <1>2. n \in 0..Slots /\ n + 1 \in 0..Slots
    BY X87Assumption
  <1>3. s \in Seq(Num) /\ Len(s) = n /\ \A i \in 1..n : s[i] = f[At(top, i - 1)]
    BY <1>2, StackIsSeq
  <1>4. t \in Seq(Num) /\ Len(t) = n + 1 /\ \A i \in 1..(n + 1) : t[i] = g[At(b, i - 1)]
    BY <1>1, <1>2, StackIsSeq, ZenonT(40)
  <1>5. t[1] = v
    <2>1. At(b, 0) = b
      BY <1>1, AtWraps, X87Assumption
    <2>2. 1 \in 1..(n + 1) /\ 1 - 1 = 0
      OBVIOUS
    <2>3. t[1] = g[At(b, 0)]
      BY <2>2, <1>4, Zenon
    <2>4. g[b] = v
      BY <1>1, SMTT(20), SMTT(30), Zenon DEF File
    <2> QED BY <2>1, <2>3, <2>4
  <1>6. ASSUME NEW i \in 1..n PROVE t[i + 1] = s[i]
    <2>1. At(b, i) = At(top, i - 1) /\ At(b, i) # b /\ At(b, i) \in 0..(Slots - 1)
      BY <1>1, <1>2, <1>b, AtWraps, X87Assumption, SMTT(20), SMTT(30), Zenon
    <2>2. i + 1 \in 1..(n + 1) /\ (i + 1) - 1 = i
      BY <1>2
    <2>3. t[i + 1] = g[At(b, i)]
      BY <2>2, <1>4, Zenon
    <2>4. g[At(b, i)] = f[At(b, i)]
      BY <2>1, <1>1 DEF File
    <2> QED BY <2>1, <2>3, <2>4, <1>3, SMTT(20), SMTT(30), Zenon
  <1>7. <<v>> \in Seq(Num) /\ Len(<<v>>) = 1 /\ <<v>>[1] = v
    OBVIOUS
  <1>8. /\ <<v>> \o s \in Seq(Num) /\ Len(<<v>> \o s) = n + 1
        /\ \A i \in 1..(n + 1) : (<<v>> \o s)[i] = IF i <= 1 THEN <<v>>[i] ELSE s[i - 1]
    BY <1>3, <1>7, <1>2, ConcatProperties
  <1>9. \A i \in 1..(n + 1) : t[i] = (<<v>> \o s)[i]
    <2> SUFFICES ASSUME NEW i \in 1..(n + 1) PROVE t[i] = (<<v>> \o s)[i]
      BY Zenon
    <2>1. CASE i = 1
      BY <2>1, <1>5, <1>7, <1>8
    <2>2. CASE i # 1
      <3>1. i - 1 \in 1..n /\ (i - 1) + 1 = i
        BY <2>2
      <3>2. t[(i - 1) + 1] = s[i - 1]
        BY <3>1, <1>6, Zenon
      <3>3. (<<v>> \o s)[i] = s[i - 1]
        BY <2>2, <1>8
      <3> QED BY <3>1, <3>2, <3>3, Zenon
    <2> QED BY <2>1, <2>2, Zenon
  <1> QED BY <1>4, <1>8, <1>9, SeqEqual, Zenon

(* Replacing ST(i) replaces the i-th number.                               *)
LEMMA ReplaceStacks ==
    ASSUME NEW f \in File, NEW top \in 0..(Slots - 1), NEW n \in 0..Slots, NEW i \in 0..(n - 1), NEW v \in Num
    PROVE  Stack([f EXCEPT ![At(top, i)] = v], top, n) = [Stack(f, top, n) EXCEPT ![i + 1] = v]
  <1>1. \A j \in 1..n : /\ At(top, j - 1) \in 0..(Slots - 1)
                        /\ At(top, j - 1) = At(top, i) <=> j = i + 1
    BY AtWraps, X87Assumption
  <1> QED BY <1>1, Zenon DEF Stack, File

(* Advancing the top drops the first number.                               *)
LEMMA PopStacks ==
    ASSUME NEW f \in File, NEW top \in 0..(Slots - 1), NEW n \in 1..Slots
    PROVE  Stack(f, At(top, 1), n - 1) = Tail(Stack(f, top, n))
  <1>1. At(top, 1) \in 0..(Slots - 1) /\ n \in 0..Slots /\ n - 1 \in 0..Slots
    BY AtWraps, X87Assumption
  <1>2. \A j \in 1..(n - 1) : At(At(top, 1), j - 1) = At(top, j)
    BY <1>1, AtWraps, X87Assumption, SMTT(20), SMTT(30), Zenon
  <1>3. Stack(f, top, n) \in Seq(Num) /\ Len(Stack(f, top, n)) = n /\ Stack(f, top, n) # <<>>
    BY <1>1, StackIsSeq
  <1>4. /\ Tail(Stack(f, top, n)) \in Seq(Num) /\ Len(Tail(Stack(f, top, n))) = n - 1
        /\ \A j \in 1..(n - 1) : Tail(Stack(f, top, n))[j] = Stack(f, top, n)[j + 1]
    BY <1>3, HeadTailProperties
  <1>5. /\ Stack(f, At(top, 1), n - 1) \in Seq(Num) /\ Len(Stack(f, At(top, 1), n - 1)) = n - 1
        /\ \A j \in 1..(n - 1) : Stack(f, At(top, 1), n - 1)[j] = f[At(At(top, 1), j - 1)]
    BY <1>1, StackIsSeq, Zenon
  <1>6. \A j \in 1..(n - 1) : Stack(f, top, n)[j + 1] = f[At(top, j)]
    BY DEF Stack
  <1> QED BY <1>2, <1>4, <1>5, <1>6, SeqEqual, ZenonT(40)

-----------------------------------------------------------------------------
(* The types of the register file with its top and count.                  *)
Registers ==
    /\ FPU \in File
    /\ FPUTop \in 0..(Slots - 1)
    /\ FPUCount \in 0..Slots

(* What an instruction finds in ST(i) is the abstract stack's number.      *)
LEMMA ReadsStack ==
    ASSUME Registers, NEW i \in 0..(Slots - 1), Has(i)
    PROVE  ST(i) \in Num /\ Operands!Has(i + 1)
  <1>1. FPUCount \in Nat /\ i + 1 \in 1..FPUCount /\ (i + 1) - 1 = i
    BY X87Assumption DEF Has, Registers
  <1>2. FPU[At(FPUTop, i)] \in Num
    BY <1>1, StackIsSeq, ZenonT(40) DEF Registers
  <1>3. Len(Stack(FPU, FPUTop, FPUCount)) = FPUCount
    BY StackIsSeq DEF Registers
  <1> QED BY <1>1, <1>2, <1>3 DEF Operands!Has, ST, Slot, At, Stack

(* A push that fits puts its number on the abstract stack, any other fails.*)
LEMMA PushImplements ==
    ASSUME Registers, ~fpuFault, NEW v \in Num, fpuPush(v)
    PROVE  Registers' /\ fpuFault' \in BOOLEAN /\ Operands!Next
  <1>1. CASE FPUCount >= Slots
    BY <1>1 DEF fpuPush, Faults, registers, Registers, Operands!Next, Operands!Fail, ST, Slot
  <1>2. CASE FPUCount < Slots
    <2>1. /\ FPUCount \in 0..(Slots - 1) /\ FPUCount + 1 \in 0..Slots
          /\ At(FPUTop, Slots - 1) \in 0..(Slots - 1)
      BY <1>2, AtWraps, X87Assumption DEF Registers
    <2>2. Before = At(FPUTop, Slots - 1)
      BY X87Assumption DEF Before, At, Registers
    <2>3. FPUTop' = At(FPUTop, Slots - 1) /\ FPU' = [FPU EXCEPT ![At(FPUTop, Slots - 1)] = v] /\ FPUCount' = FPUCount + 1
      BY <1>2, <2>2, X87Assumption DEF fpuPush, Registers
    <2>4. Registers'
      BY <2>1, <2>3 DEF Registers, File
    <2>5. Stack(FPU, FPUTop, FPUCount)' = <<v>> \o Stack(FPU, FPUTop, FPUCount)
      BY <2>1, <2>3, PushStacks, Zenon DEF Registers
    <2>6. Len(Stack(FPU, FPUTop, FPUCount)) < Slots
      BY <1>2, StackIsSeq DEF Registers
    <2>7. Operands!Push(v)
      BY <2>5, <2>6, Zenon DEF Operands!Push, Stack, At, ST, Slot
    <2>8. fpuFault' = FALSE
      BY <1>2, X87Assumption DEF fpuPush, Goes, Registers
    <2> QED BY <2>4, <2>7, <2>8, Zenon DEF Operands!Next, Operands!Load
  <1> QED BY <1>1, <1>2, X87Assumption DEF Registers

(* Writing ST(i) writes that number of the abstract stack.                 *)
LEMMA ReplaceImplements ==
    ASSUME Registers, NEW i \in 0..(Slots - 1), Has(i), NEW v \in Num, Replace(i, v)
    PROVE  Registers' /\ Operands!Replace(i + 1, v)
  <1>1. FPU' = [FPU EXCEPT ![At(FPUTop, i)] = v] /\ FPUTop' = FPUTop /\ FPUCount' = FPUCount
    BY DEF Replace, Slot, At
  <1>2. i \in 0..(FPUCount - 1)
    BY X87Assumption DEF Has, Registers
  <1>3. Stack(FPU, FPUTop, FPUCount)' = [Stack(FPU, FPUTop, FPUCount) EXCEPT ![i + 1] = v]
    <2>1. Stack([FPU EXCEPT ![At(FPUTop, i)] = v], FPUTop, FPUCount) = [Stack(FPU, FPUTop, FPUCount) EXCEPT ![i + 1] = v]
      BY <1>2, ReplaceStacks DEF Registers
    <2> QED BY <1>1, <2>1
  <1>4. Registers'
    BY <1>1, Zenon DEF Registers, File
  <1> QED BY <1>3, <1>4, ReadsStack, Zenon DEF Operands!Replace, Stack, At, ST, Slot

(* Writing ST(i) and popping does so on the abstract stack.                *)
LEMMA ReplacePopImplements ==
    ASSUME Registers, NEW i \in 0..(Slots - 1), Has(i), NEW v \in Num, ReplacePop(i, v)
    PROVE  Registers' /\ Operands!ReplaceAndPop(i + 1, v)
  <1> DEFINE g == [FPU EXCEPT ![At(FPUTop, i)] = v]
  <1>1. FPU' = g /\ FPUTop' = At(FPUTop, 1) /\ FPUCount' = FPUCount - 1
    BY DEF ReplacePop, Slot, At
  <1>2. i \in 0..(FPUCount - 1) /\ FPUCount \in 1..Slots /\ FPUCount - 1 \in 0..Slots /\ At(FPUTop, 1) \in 0..(Slots - 1)
    BY AtWraps, X87Assumption DEF Has, Registers
  <1>3. g \in File
    BY Zenon DEF Registers, File
  <1>4. Stack(g, FPUTop, FPUCount) = [Stack(FPU, FPUTop, FPUCount) EXCEPT ![i + 1] = v]
    BY <1>2, ReplaceStacks DEF Registers
  <1>5. Stack(g, At(FPUTop, 1), FPUCount - 1) = Tail(Stack(g, FPUTop, FPUCount))
    BY <1>2, <1>3, PopStacks, Zenon DEF Registers
  <1>6. Stack(FPU, FPUTop, FPUCount)' = Tail([Stack(FPU, FPUTop, FPUCount) EXCEPT ![i + 1] = v])
    BY <1>1, <1>4, <1>5, Zenon
  <1>7. Registers'
    BY <1>1, <1>2, <1>3 DEF Registers
  <1> QED BY <1>6, <1>7, ReadsStack, Zenon DEF Operands!ReplaceAndPop, Stack, At, ST, Slot

(* Popping, also when FSTP ST(1) finds one number, drops the first.        *)
LEMMA PopImplements ==
    ASSUME Registers, Has(0), NEW i \in {0, 1}, NEW v \in Num, ReplacePop(i, v), i = 1 => FPUCount = 1
    PROVE  Registers' /\ Operands!Pop
  <1> DEFINE g == [FPU EXCEPT ![At(FPUTop, i)] = v]
  <1>1. FPU' = g /\ FPUTop' = At(FPUTop, 1) /\ FPUCount' = FPUCount - 1
    BY DEF ReplacePop, Slot, At
  <1>2. FPUCount \in 1..Slots /\ FPUCount - 1 \in 0..Slots /\ At(FPUTop, 1) \in 0..(Slots - 1)
    BY AtWraps, X87Assumption DEF Has, Registers
  <1>3. g \in File
    BY Zenon DEF Registers, File
  <1>4. ASSUME NEW j \in 1..(FPUCount - 1) PROVE g[At(At(FPUTop, 1), j - 1)] = FPU[At(At(FPUTop, 1), j - 1)]
    <2>1. /\ At(At(FPUTop, 1), j - 1) # At(FPUTop, i)
          /\ At(At(FPUTop, 1), j - 1) \in 0..(Slots - 1)
      <3>1. FPUTop \in 0..(Slots - 1) /\ Slots \in Nat \ {0}
        BY X87Assumption DEF Registers
      <3>2. At(FPUTop, 1) = IF FPUTop + 1 < Slots THEN FPUTop + 1 ELSE FPUTop + 1 - Slots
        BY <3>1, AtWraps
      <3>3. At(At(FPUTop, 1), j - 1) = IF At(FPUTop, 1) + (j - 1) < Slots THEN At(FPUTop, 1) + (j - 1)
                                       ELSE At(FPUTop, 1) + (j - 1) - Slots
        <4>1. j - 1 \in 0..Slots
          BY <3>1, <1>2
        <4> QED BY <4>1, <1>2, AtWraps
      <3>4. FPUCount # 1
        BY <1>2
      <3>5. At(FPUTop, 0) = FPUTop
        BY <3>1, AtWraps
      <3> QED BY <3>1, <3>2, <3>3, <3>4, <3>5, <1>2
    <2> QED BY <2>1 DEF Registers, File
  <1>5. Stack(g, At(FPUTop, 1), FPUCount - 1) = Stack(FPU, At(FPUTop, 1), FPUCount - 1)
    BY <1>4 DEF Stack
  <1>6. Stack(FPU, At(FPUTop, 1), FPUCount - 1) = Tail(Stack(FPU, FPUTop, FPUCount))
    BY <1>2, PopStacks DEF Registers
  <1>7. Stack(FPU, FPUTop, FPUCount)' = Tail(Stack(FPU, FPUTop, FPUCount))
    BY <1>1, <1>5, <1>6, Zenon
  <1>8. Registers'
    BY <1>1, <1>2, <1>3 DEF Registers
  <1>9. Operands!Has(0 + 1) /\ 0 + 1 = 1
    BY ReadsStack, X87Assumption
  <1> QED BY <1>7, <1>8, <1>9, Zenon DEF Operands!Pop, Stack, At, ST, Slot

(* Whatever leaves the registers alone leaves the abstract stack alone.    *)
LEMMA KeepImplements ==
    ASSUME Registers, fpuFault = FALSE, UNCHANGED registers, fpuFault' \in BOOLEAN
    PROVE  Registers' /\ Operands!Next
  BY Zenon DEF registers, Registers, Operands!Next, Operands!Look, Operands!Fail, ST, Slot

(* Every instruction of stepX87 is one of the abstract stack's.            *)
LEMMA StepImplements ==
    ASSUME Registers, fpuFault = FALSE, stepX87
    PROVE  Registers' /\ fpuFault' \in BOOLEAN /\ Operands!Next
  <1>s. Slots \in Nat \ {0}
    BY X87Assumption
  <1>k. ASSUME UNCHANGED registers, fpuFault' \in BOOLEAN
        PROVE  Registers' /\ fpuFault' \in BOOLEAN /\ Operands!Next
    BY <1>k, KeepImplements, Zenon
  <1>h. ASSUME NEW i, Short(i)
        PROVE  Registers' /\ fpuFault' \in BOOLEAN /\ Operands!Next
    BY <1>h, <1>k DEF Short, Faults
  <1>n. ASSUME NEW i \in {0, 1, 2}, Has(i)
        PROVE  i \in 0..(Slots - 1) /\ \A j \in 0..i : Has(j) /\ ST(j) \in Num /\ Operands!Has(j + 1)
    <2>1. i \in 0..(Slots - 1) /\ \A j \in 0..i : j \in 0..(Slots - 1) /\ Has(j)
      BY <1>n, <1>s DEF Has, Registers
    <2> QED BY <2>1, ReadsStack
  <1>v. ASSUME NEW j \in {0, 1, 2}, Has(j)
        PROVE  [k \in 1..FPUCount |-> ST(k - 1)][j + 1] = ST(j)
    <2>1. j + 1 \in 1..FPUCount /\ (j + 1) - 1 = j
      BY <1>v, <1>s DEF Has, Registers
    <2> QED BY <2>1
  <1>v1. Has(0) => [k \in 1..FPUCount |-> ST(k - 1)][1] = ST(0)
    BY <1>v
  <1>v2. Has(1) => [k \in 1..FPUCount |-> ST(k - 1)][2] = ST(1)
    BY <1>v
  <1>v3. Has(2) => [k \in 1..FPUCount |-> ST(k - 1)][3] = ST(2)
    BY <1>v
  <1>1. CASE FLD
    <2>1. CASE \E v \in Num : fpuPush(v)
      BY <2>1, PushImplements
    <2>2. CASE Has(0) /\ fpuPush(ST(0))
      BY <2>2, <1>n, PushImplements
    <2>3. CASE Faults /\ UNCHANGED registers
      BY <2>3, <1>k DEF Faults
    <2> QED BY <1>1, <2>1, <2>2, <2>3, <1>h DEF FLD
  <1>2. CASE FABS_FSQRT
    <2>1. ASSUME With(0), NEW v \in {Magnitude(ST(0)), Root(ST(0))}, Replace(0, v)
          PROVE  Registers' /\ fpuFault' \in BOOLEAN /\ Operands!Next
      <3>1. Has(0) /\ fpuFault' = FALSE /\ ST(0) \in Num /\ Operands!Has(1) /\ 0 \in 0..(Slots - 1)
        BY <2>1, <1>n DEF With, Goes
      <3>2. v \in Num
        BY <2>1, <3>1, X87Assumption
      <3>3. Registers' /\ Operands!Replace(1, v)
        BY <2>1, <3>1, <3>2, ReplaceImplements, SMTT(20), SMTT(30), Zenon
      <3>4. Operands!Compute
        BY <2>1, <3>1, <3>3, <1>v1 DEF Operands!Compute
      <3> QED BY <3>1, <3>3, <3>4, Zenon DEF Operands!Next
    <2> QED BY <1>2, <2>1, <1>h DEF FABS_FSQRT
  <1>3. CASE FPREM
    <2>1. CASE With(1) /\ Replace(0, Mod(ST(0), ST(1)))
      <3>1. Has(0) /\ Has(1) /\ fpuFault' = FALSE /\ ST(0) \in Num /\ ST(1) \in Num /\ Operands!Has(2) /\ 0 \in 0..(Slots - 1)
        BY <2>1, <1>n DEF With, Goes
      <3>2. Mod(ST(0), ST(1)) \in Num
        BY <3>1, X87Assumption
      <3>3. Registers' /\ Operands!Replace(1, Mod(ST(0), ST(1)))
        BY <2>1, <3>1, <3>2, ReplaceImplements, SMTT(20), SMTT(30), Zenon
      <3>4. Operands!Compute
        BY <3>1, <3>3, <1>v1, <1>v2 DEF Operands!Compute
      <3> QED BY <3>1, <3>3, <3>4, Zenon DEF Operands!Next
    <2> QED BY <1>3, <2>1, <1>h DEF FPREM
  <1>4. CASE FTST
    BY <1>4, <1>k, <1>h, Zenon DEF FTST, With, Goes
  <1>5. CASE FST
    <2>1. CASE Has(0) /\ (Goes \/ Faults) /\ UNCHANGED registers
      BY <2>1, <1>k, Zenon DEF Goes, Faults
    <2>2. CASE Has(0) /\ (Goes \/ Faults) /\ fpuPop
      <3>1. ST(0) \in Num
        BY <2>2, <1>n
      <3>2. Registers' /\ Operands!Pop
        BY <2>2, <3>1, PopImplements DEF fpuPop
      <3> QED BY <2>2, <3>2, Zenon DEF Goes, Faults, Operands!Next, Operands!Fail
    <2>3. CASE With(0) /\ ReplacePop(1, ST(0))
      <3>1. Has(0) /\ fpuFault' = FALSE /\ ST(0) \in Num
        BY <2>3, <1>n DEF With, Goes
      <3>2. CASE Has(1)
        <4>1. 1 \in 0..(Slots - 1) /\ Operands!Has(2)
          BY <3>2, <1>n
        <4>2. Registers' /\ Operands!ReplaceAndPop(2, ST(0))
          BY <2>3, <3>1, <3>2, <4>1, ReplacePopImplements, SMTT(20), SMTT(30), Zenon
        <4>3. Operands!Store
          BY <3>1, <4>1, <4>2, <1>v1 DEF Operands!Store
        <4> QED BY <3>1, <4>2, <4>3, Zenon DEF Operands!Next
      <3>3. CASE ~Has(1)
        <4>1. FPUCount = 1
          BY <3>1, <3>3, <1>s DEF Has, Registers
        <4>2. Registers' /\ Operands!Pop
          BY <2>3, <3>1, <4>1, PopImplements, SMTT(20), SMTT(30), Zenon
        <4> QED BY <3>1, <4>2, Zenon DEF Operands!Next
      <3> QED BY <3>2, <3>3
    <2> QED BY <1>5, <2>1, <2>2, <2>3, <1>h DEF FST
  <1>6. CASE FSUBRP_FADD_FMULP_FSUBP
    <2>1. CASE With(2) /\ (ReplacePop(2, Minus(ST(0), ST(2))) \/ Replace(2, Plus(ST(2), ST(0))))
      <3>1. /\ Has(0) /\ Has(2) /\ fpuFault' = FALSE /\ 2 \in 0..(Slots - 1) /\ Operands!Has(3)
            /\ Minus(ST(0), ST(2)) \in Num /\ Plus(ST(2), ST(0)) \in Num
        BY <2>1, <1>n, X87Assumption, SMTT(20), SMTT(30), Zenon DEF With, Goes
      <3>2. Registers' /\ (Operands!ReplaceAndPop(3, Minus(ST(0), ST(2))) \/ Operands!Replace(3, Plus(ST(2), ST(0))))
        BY <2>1, <3>1, ReplacePopImplements, ReplaceImplements, SMTT(20), SMTT(30), Zenon
      <3>3. Operands!Compute
        BY <3>1, <3>2, <1>v1, <1>v3 DEF Operands!Compute
      <3> QED BY <3>1, <3>2, <3>3, ZenonT(60) DEF Operands!Next
    <2>2. CASE With(1) /\ Replace(0, Plus(ST(0), ST(1)))
      <3>1. /\ Has(0) /\ Has(1) /\ fpuFault' = FALSE /\ 0 \in 0..(Slots - 1) /\ Operands!Has(2)
            /\ Plus(ST(0), ST(1)) \in Num
        BY <2>2, <1>n, X87Assumption, SMTT(20), SMTT(30), Zenon DEF With, Goes
      <3>2. Registers' /\ Operands!Replace(1, Plus(ST(0), ST(1)))
        BY <2>2, <3>1, ReplaceImplements
      <3>3. Operands!Compute
        BY <3>1, <3>2, <1>v1, <1>v2, Zenon DEF Operands!Compute
      <3> QED BY <3>1, <3>2, <3>3, Zenon DEF Operands!Next
    <2>3. CASE With(1) /\ (ReplacePop(1, Times(ST(1), ST(0))) \/ ReplacePop(1, Minus(ST(1), ST(0))))
      <3>1. /\ Has(0) /\ Has(1) /\ fpuFault' = FALSE /\ 1 \in 0..(Slots - 1) /\ Operands!Has(2)
            /\ Times(ST(1), ST(0)) \in Num /\ Minus(ST(1), ST(0)) \in Num
        BY <2>3, <1>n, X87Assumption, SMTT(20), SMTT(30), Zenon DEF With, Goes
      <3>2. Registers' /\ (Operands!ReplaceAndPop(2, Times(ST(1), ST(0))) \/ Operands!ReplaceAndPop(2, Minus(ST(1), ST(0))))
        BY <2>3, <3>1, ReplacePopImplements
      <3>3. Operands!Compute
        BY <3>1, <3>2, <1>v1, <1>v2, Zenon DEF Operands!Compute
      <3> QED BY <3>1, <3>2, <3>3, ZenonT(60) DEF Operands!Next
    <2> QED BY <1>6, <2>1, <2>2, <2>3, <1>h DEF FSUBRP_FADD_FMULP_FSUBP
  <1>7. CASE FADD_FMUL
    <2>1. ASSUME NEW v \in Num, With(0), Replace(0, Plus(ST(0), v)) \/ Replace(0, Times(ST(0), v))
          PROVE  Registers' /\ fpuFault' \in BOOLEAN /\ Operands!Next
      <3>1. /\ Has(0) /\ fpuFault' = FALSE /\ 0 \in 0..(Slots - 1) /\ Operands!Has(1)
            /\ Plus(ST(0), v) \in Num /\ Times(ST(0), v) \in Num
        BY <2>1, <1>n, X87Assumption, SMTT(20), SMTT(30), Zenon DEF With, Goes
      <3>2. Registers' /\ (Operands!Replace(1, Plus(ST(0), v)) \/ Operands!Replace(1, Times(ST(0), v)))
        BY <2>1, <3>1, ReplaceImplements
      <3>3. Operands!Compute
        BY <3>1, <3>2, <1>v1, Zenon DEF Operands!Compute
      <3> QED BY <3>1, <3>2, <3>3, ZenonT(60) DEF Operands!Next
    <2>2. CASE Faults /\ UNCHANGED registers
      BY <2>2, <1>k DEF Faults
    <2> QED BY <1>7, <2>1, <2>2 DEF FADD_FMUL
  <1>8. ASSUME NEW i \in 0..(Slots - 1), FXCH(i) \/ FADDP(i) \/ FCOMP(i)
        PROVE  Registers' /\ fpuFault' \in BOOLEAN /\ Operands!Next
    <2>1. ASSUME Has(i)
          PROVE  /\ Has(0) /\ ST(0) \in Num /\ ST(i) \in Num /\ Operands!Has(i + 1)
                 /\ i + 1 \in 1..Slots /\ i \in 0..(FPUCount - 1)
                 /\ [k \in 1..FPUCount |-> ST(k - 1)][i + 1] = ST(i)
      <3>1. Has(0) /\ i + 1 \in 1..FPUCount /\ (i + 1) - 1 = i /\ i + 1 \in 1..Slots /\ i \in 0..(FPUCount - 1)
        BY <2>1, <1>s DEF Has, Registers
      <3> QED BY <2>1, <3>1, <1>n, ReadsStack, SMTT(20), SMTT(30), Zenon
    <2>2. CASE FXCH(i)
      <3>1. CASE Short(i)
        BY <3>1, <1>h
      <3>2. CASE With(i) /\ FPU' = [FPU EXCEPT ![FPUTop] = ST(i), ![Slot(i)] = ST(0)] /\ UNCHANGED <<FPUTop, FPUCount>>
        <4> DEFINE f == [FPU EXCEPT ![At(FPUTop, 0)] = ST(i)]
                   s == Stack(FPU, FPUTop, FPUCount)
        <4>1. Has(i) /\ fpuFault' = FALSE
          BY <3>2 DEF With, Goes
        <4>2. At(FPUTop, 0) = FPUTop /\ Slot(i) = At(FPUTop, i)
          <5>1. At(FPUTop, 0) = FPUTop
            BY AtWraps, <1>s DEF Registers
          <5> QED BY <5>1 DEF Slot, At
        <4>3. FPU' = [f EXCEPT ![At(FPUTop, i)] = ST(0)] /\ FPUTop' = FPUTop /\ FPUCount' = FPUCount
          BY <3>2, <4>2, Zenon
        <4>4. f \in File /\ Registers'
          BY <4>1, <4>3, <2>1, Zenon DEF Registers, File
        <4>5. 0 \in 0..(FPUCount - 1)
          BY <4>1, <2>1, <1>s, SMTT(20), SMTT(30), Zenon DEF Registers, Has
        <4>6. Stack(f, FPUTop, FPUCount) = [s EXCEPT ![0 + 1] = ST(i)]
          BY <4>1, <4>5, <2>1, ReplaceStacks, SMTT(20), SMTT(30), Zenon DEF Registers
        <4> HIDE DEF f
        <4>7. Stack([f EXCEPT ![At(FPUTop, i)] = ST(0)], FPUTop, FPUCount) = [Stack(f, FPUTop, FPUCount) EXCEPT ![i + 1] = ST(0)]
          BY <4>1, <4>4, <2>1, ReplaceStacks, SMTT(20), SMTT(30), Zenon DEF Registers
        <4>8. s' = [[s EXCEPT ![1] = ST(i)] EXCEPT ![i + 1] = ST(0)]
          BY <4>3, <4>6, <4>7, SMTT(20), SMTT(30), Zenon
        <4>9. s = [k \in 1..FPUCount |-> ST(k - 1)] /\ s' = [k \in 1..FPUCount |-> ST(k - 1)]'
          BY DEF Stack, At, ST, Slot
        <4>10. Operands!Exchange(i + 1)
          BY <4>1, <4>8, <4>9, <2>1, <1>v1, Zenon DEF Operands!Exchange
        <4> QED BY <4>1, <4>4, <4>10, <2>1, Zenon DEF Operands!Next
      <3> QED BY <2>2, <3>1, <3>2 DEF FXCH
    <2>3. CASE FADDP(i)
      <3>1. CASE Short(i)
        BY <3>1, <1>h
      <3>2. CASE With(i) /\ ReplacePop(i, Plus(ST(i), ST(0)))
        <4>1. Has(i) /\ fpuFault' = FALSE
          BY <3>2, SMTT(20), SMTT(30), Zenon DEF With, Goes
        <4>2. Plus(ST(i), ST(0)) \in Num
          BY <4>1, <2>1, X87Assumption
        <4>3. Registers' /\ Operands!ReplaceAndPop(i + 1, Plus(ST(i), ST(0)))
          BY <3>2, <4>1, <4>2, ReplacePopImplements
        <4>4. Operands!Compute
          BY <4>1, <4>3, <2>1, <1>v1, Zenon DEF Operands!Compute
        <4> QED BY <4>1, <4>3, <4>4, Zenon DEF Operands!Next
      <3> QED BY <2>3, <3>1, <3>2 DEF FADDP
    <2>4. CASE FCOMP(i)
      <3>1. CASE Short(i)
        BY <3>1, <1>h
      <3>2. CASE With(i) /\ fpuPop
        <4>1. Has(0) /\ fpuFault' = FALSE /\ ST(0) \in Num
          BY <3>2, <2>1 DEF With, Goes
        <4>2. Registers' /\ Operands!Pop
          BY <3>2, <4>1, PopImplements, SMTT(20), SMTT(30), Zenon DEF fpuPop
        <4> QED BY <4>1, <4>2, Zenon DEF Operands!Next
      <3> QED BY <2>4, <3>1, <3>2 DEF FCOMP
    <2> QED BY <1>8, <2>2, <2>3, <2>4, SMTT(20), SMTT(30), Zenon
  <1> QED BY <1>1, <1>2, <1>3, <1>4, <1>5, <1>6, <1>7, <1>8, SMTT(20), SMTT(30), Zenon DEF stepX87

-----------------------------------------------------------------------------
(* The condition codes and the flags of an outcome.                        *)
Codes(c) ==
    CASE c = "less" -> {"C0"} [] c = "equal" -> {"C3"} [] c = "greater" -> {} [] c = "unordered" -> Code
Flags(c) ==
    CASE c = "less" -> {"CF"} [] c = "equal" -> {"ZF"} [] c = "greater" -> {} [] c = "unordered" -> {"CF", "PF", "ZF"}

(* Each of the three places that tells of an outcome holds its bits, and   *)
(* no bit that an earlier comparison left.                                 *)
PlacesAgree ==
    /\ \A c \in told["status"] : FPUStatus = Codes(c)
    /\ \A c \in told["ah"] : AH = Codes(c)
    /\ \A c \in told["flags"] : jumpFlags = Flags(c)

FpuInv == FpuTypes /\ PlacesAgree

(* What stepX87 does to the status word.                                   *)
LEMMA StatusMoves ==
    ASSUME stepX87
    PROVE  /\ UNCHANGED <<AH, jumpFlags>>
           /\ \/ UNCHANGED <<FPUStatus, told>>
              \/ \E a, b : fpuCompare(a, b)
              \/ FPUStatus' = FPUStatus \ {"C2"} /\ told' = [told EXCEPT !["status"] = {}]
  BY DEF stepX87, FLD, FABS_FSQRT, FPREM, FTST, FST, FSUBRP_FADD_FMULP_FSUBP, FADD_FMUL, FXCH, FADDP, FCOMP, SameStatus

(* A comparison leaves the codes of its outcome.                           *)
LEMMA CompareTells ==
    ASSUME FpuTypes, NEW a, NEW b, fpuCompare(a, b)
    PROVE  /\ Outcomes(a, b) \in Outcome
           /\ FPUStatus' = Codes(Outcomes(a, b))
           /\ told' = [told EXCEPT !["status"] = {Outcomes(a, b)}]
  <1>1. FPUStatus \ Code = {}
    BY DEF FpuTypes
  <1> QED BY <1>1 DEF fpuCompare, Outcomes, Outcome, Codes, Code

(* The invariant holds at the start.                                       *)
LEMMA FpuInvStarts == FpuInit => FpuInv
  <1> SUFFICES ASSUME FpuInit PROVE FpuInv
    OBVIOUS
  <1>1. FPU \in [0..(Slots - 1) -> Num] /\ 0 \in 0..(Slots - 1) /\ 0 \in 0..Slots
    BY X87Assumption DEF FpuInit
  <1>2. \A x \in {"status", "ah", "flags"} : told[x] = {}
    BY DEF FpuInit
  <1>3. told \in [{"status", "ah", "flags"} -> SUBSET Outcome]
    BY DEF FpuInit
  <1>4. FpuTypes
    BY <1>1, <1>3, Zenon DEF FpuInit, FpuTypes
  <1>5. PlacesAgree
    BY <1>2 DEF PlacesAgree
  <1> QED BY <1>4, <1>5 DEF FpuInv

(* Every instruction, SAHF and FNSTSW included, keeps the invariant.       *)
LEMMA FpuInvKept == FpuInv /\ [FpuNext]_fpuVars => FpuInv'
  <1> SUFFICES ASSUME FpuInv, [FpuNext]_fpuVars PROVE FpuInv'
    OBVIOUS
  <1> USE DEF FpuInv
  <1>t. /\ Registers /\ fpuFault \in BOOLEAN /\ told \in [{"status", "ah", "flags"} -> SUBSET Outcome]
        /\ FPUStatus \subseteq Code /\ AH \subseteq Code /\ jumpFlags \subseteq {"CF", "PF", "ZF"}
    BY DEF FpuTypes, Registers, File
  <1>1. CASE stepX87
    <2>1. Registers' /\ fpuFault' \in BOOLEAN
      BY <1>1, <1>t, StepImplements, Zenon DEF stepX87
    <2>2. AH' = AH /\ jumpFlags' = jumpFlags
      BY <1>1, StatusMoves, Zenon
    <2>3. CASE UNCHANGED <<FPUStatus, told>>
      BY <2>1, <2>2, <2>3, <1>t, ZenonT(60) DEF FpuTypes, Registers, File, PlacesAgree
    <2>4. CASE \E a, b : fpuCompare(a, b)
      <3>1. PICK a, b : fpuCompare(a, b)
        BY <2>4
      <3>2. /\ Outcomes(a, b) \in Outcome /\ FPUStatus' = Codes(Outcomes(a, b))
            /\ told' = [told EXCEPT !["status"] = {Outcomes(a, b)}]
        BY <3>1, CompareTells
      <3>3. Codes(Outcomes(a, b)) \subseteq Code
        BY <3>2 DEF Codes, Code, Outcome
      <3>4. /\ told' \in [{"status", "ah", "flags"} -> SUBSET Outcome]
            /\ told'["status"] = {Outcomes(a, b)} /\ told'["ah"] = told["ah"] /\ told'["flags"] = told["flags"]
        BY <3>2, <1>t
      <3>5. PlacesAgree'
        BY <3>2, <3>4, <2>2, Zenon DEF PlacesAgree
      <3> QED BY <2>1, <2>2, <3>2, <3>3, <3>4, <3>5, <1>t, SMTT(20), SMTT(30), Zenon DEF FpuTypes, Registers, File
    <2>5. CASE FPUStatus' = FPUStatus \ {"C2"} /\ told' = [told EXCEPT !["status"] = {}]
      <3>1. /\ told' \in [{"status", "ah", "flags"} -> SUBSET Outcome]
            /\ told'["status"] = {} /\ told'["ah"] = told["ah"] /\ told'["flags"] = told["flags"]
        BY <2>5, <1>t
      <3>2. PlacesAgree'
        BY <3>1, <2>2, Zenon DEF PlacesAgree
      <3> QED BY <2>1, <2>2, <2>5, <3>1, <3>2, <1>t DEF FpuTypes, Registers, File
    <2> QED BY <1>1, <2>3, <2>4, <2>5, StatusMoves
  <1>2. CASE FNSTSW
    <2>1. /\ told' \in [{"status", "ah", "flags"} -> SUBSET Outcome]
          /\ told'["status"] = told["status"] /\ told'["ah"] = told["status"] /\ told'["flags"] = told["flags"]
      BY <1>2, <1>t, SMTT(20), SMTT(30), Zenon DEF FNSTSW
    <2> QED BY <1>2, <2>1, <1>t DEF FNSTSW, FpuTypes, PlacesAgree, registers
  <1>3. CASE SAHF
    <2>1. /\ told' \in [{"status", "ah", "flags"} -> SUBSET Outcome]
          /\ told'["status"] = told["status"] /\ told'["ah"] = told["ah"] /\ told'["flags"] = told["ah"]
      BY <1>3, <1>t DEF SAHF
    <2>2. ASSUME NEW c \in told["ah"] PROVE jumpFlags' = Flags(c)
      <3>1. AH = Codes(c) /\ c \in Outcome
        BY <2>2, <1>t DEF PlacesAgree
      <3> QED BY <1>3, <3>1 DEF SAHF, Codes, Flags, Outcome, Code
    <2>3. jumpFlags' \subseteq {"CF", "PF", "ZF"}
      BY <1>3, Zenon DEF SAHF
    <2>4. PlacesAgree'
      BY <1>3, <2>1, <2>2 DEF SAHF, PlacesAgree
    <2> QED BY <1>3, <2>1, <2>3, <2>4, <1>t, SMTT(20), SMTT(30), Zenon DEF SAHF, FpuTypes, registers
  <1>4. CASE Integer
    <2>1. CASE AH' \in IntegerAH /\ told' = [told EXCEPT !["ah"] = {}] /\ UNCHANGED jumpFlags
      <3>1. /\ told' \in [{"status", "ah", "flags"} -> SUBSET Outcome]
            /\ told'["status"] = told["status"] /\ told'["ah"] = {} /\ told'["flags"] = told["flags"]
        BY <2>1, <1>t
      <3>2. AH' \subseteq Code
        BY <2>1, X87Assumption, Zenon DEF Code
      <3> QED BY <1>4, <2>1, <3>1, <3>2, <1>t DEF Integer, FpuTypes, PlacesAgree, registers
    <2>2. CASE jumpFlags' \in IntegerFlags /\ told' = [told EXCEPT !["flags"] = {}] /\ UNCHANGED AH
      <3>1. /\ told' \in [{"status", "ah", "flags"} -> SUBSET Outcome]
            /\ told'["status"] = told["status"] /\ told'["ah"] = told["ah"] /\ told'["flags"] = {}
        BY <2>2, <1>t
      <3>2. jumpFlags' \subseteq {"CF", "PF", "ZF"}
        BY <2>2, X87Assumption, SMTT(20), SMTT(30), Zenon
      <3> QED BY <1>4, <2>2, <3>1, <3>2, <1>t DEF Integer, FpuTypes, PlacesAgree, registers
    <2> QED BY <1>4, <2>1, <2>2, Zenon DEF Integer
  <1>5. CASE UNCHANGED fpuVars
    BY <1>5 DEF fpuVars, FpuTypes, PlacesAgree
  <1> QED BY <1>1, <1>2, <1>3, <1>4, <1>5 DEF FpuNext

(* A comparison that reaches the flags through FNSTSW and SAHF makes the   *)
(* jumps decide as it came out, whatever runs in between, for every set of *)
(* numbers and number of registers.                                        *)
THEOREM JumpsDecideByCompare == FpuSpec => []CompareReachesJump
  <1>1. FpuInv => CompareReachesJump
    <2> SUFFICES ASSUME FpuInv, NEW c \in told["flags"]
                 PROVE  /\ Holds("A", jumpFlags) <=> c = "greater"
                        /\ Holds("B", jumpFlags) <=> c \in {"less", "unordered"}
                        /\ Holds("E", jumpFlags) <=> c \in {"equal", "unordered"}
                        /\ Holds("P", jumpFlags) <=> c = "unordered"
      BY DEF CompareReachesJump
    <2>1. c \in Outcome /\ jumpFlags = Flags(c)
      BY DEF FpuInv, FpuTypes, PlacesAgree
    <2> QED BY <2>1 DEF Holds, Flags, Outcome
  <1> QED BY <1>1, FpuInvStarts, FpuInvKept, PTL DEF FpuSpec

(* The register file with its top and count implements the stack of        *)
(* operands that programs rely on, for every number of registers.          *)
THEOREM FileIsStack == FpuSpec => IsStack
  <1>1. FpuInit => Operands!Init
    <2> SUFFICES ASSUME FpuInit PROVE Operands!Init
      OBVIOUS
    <2>1. FPUCount = 0 /\ fpuFault = FALSE
      BY DEF FpuInit
    <2>2. [i \in 1..FPUCount |-> ST(i - 1)] = <<>>
      BY <2>1
    <2> QED BY <2>1, <2>2 DEF Operands!Init
  <1>2. FpuInv /\ [FpuNext]_fpuVars => [Operands!Next]_<<[i \in 1..FPUCount |-> ST(i - 1)], fpuFault>>
    <2> SUFFICES ASSUME FpuInv, [FpuNext]_fpuVars
                 PROVE  Operands!Next
      OBVIOUS
    <2>1. Registers /\ fpuFault \in BOOLEAN
      BY DEF FpuInv, FpuTypes, Registers, File
    <2>2. CASE stepX87
      BY <2>1, <2>2, StepImplements, Zenon DEF stepX87
    <2>3. CASE UNCHANGED <<registers, fpuFault>>
      BY <2>3 DEF registers, ST, Slot, Operands!Next, Operands!Look
    <2> QED BY <2>2, <2>3 DEF FpuNext, FNSTSW, SAHF, Integer, fpuVars, registers
  <1> QED BY <1>1, <1>2, FpuInvStarts, FpuInvKept, PTL DEF FpuSpec, IsStack, Operands!Spec
=============================================================================
