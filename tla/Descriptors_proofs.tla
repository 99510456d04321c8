------------------------- MODULE Descriptors_proofs -------------------------
(***************************************************************************)
(* Descriptor tables and pipes for any number of tasks, descriptors, pipes *)
(* and bytes, and for any guest program.                                   *)
(***************************************************************************)
EXTENDS Descriptors, FiniteSetTheorems, TLAPS

(* The calls that change descriptor tables: each keeps the reader and      *)
(* writer counts of the pipes exact.                                       *)

Record == [fd : FD, end : End \cup {"none"}, data : Seq(Byte)]

DescriptorTypes ==
    /\ program \in Programs
    /\ ntask \in Task /\ alive \subseteq 1..ntask
    /\ table \in [Task -> Task]
    /\ fds \in [Task -> [FD -> Handle]]
    /\ closedFDs \in [Task -> SUBSET FD] /\ fdCloexec \in [Task -> SUBSET FD]
    /\ refs \in [Pipe -> [End -> Int]] /\ lost \in [Pipe -> [End -> Nat]]
    /\ npipe \in 0..MaxPipe /\ nfile \in 0..MaxFile
    /\ data \in [Pipe -> Seq(Byte)] /\ got \in [Pipe -> Seq(Byte)]
    /\ block \in [Task -> Record] /\ pending \subseteq Task
    /\ eof \in 0..MaxPipe

(* Tasks that exist use tables of tasks that exist, and a task still to be *)
(* created has an empty table of its own.                                  *)
Unborn ==
    /\ \A p \in 1..ntask : table[p] \in 1..ntask
    /\ \A p \in Task : p > ntask => table[p] = p
    /\ \A p \in Task, fd \in FD : p > ntask => fds[p][fd] = None

(* A pipe still to be created has no entry, and nothing was cloned of it.  *)
Unmade ==
    \A i \in Pipe, e \in End : i > npipe => Entries(i, e) = {} /\ lost[i][e] = 0

CountInv == DescriptorTypes /\ Unborn /\ Unmade /\ CountsAreExact

-----------------------------------------------------------------------------
(* The entries of one table, given as a function, that are end e of pipe i.*)
Row(f, i, e) == {fd \in FD : f[fd] = PipeHandle(i, e)}

(* Handles that are equal are the same end of the same pipe.               *)
LEMMA HandlesDiffer ==
    ASSUME NEW i, NEW j, NEW d, NEW e
    PROVE  /\ PipeHandle(i, d) = PipeHandle(j, e) <=> i = j /\ d = e
           /\ PipeHandle(i, d) # None /\ PipeHandle(i, d) # TTY /\ PipeHandle(i, d) # FileHandle(j)
  BY DEF PipeHandle, None, TTY, FileHandle

(* All sets of descriptors and of entries are finite.                      *)
LEMMA Finite ==
    /\ IsFiniteSet(FD)
    /\ \A S : IsFiniteSet(FD \cap S) /\ Cardinality(FD \cap S) \in Nat
    /\ \A S \in SUBSET FD : IsFiniteSet(S) /\ Cardinality(S) \in Nat
    /\ \A S \in SUBSET (Task \X FD) : IsFiniteSet(S) /\ Cardinality(S) \in Nat
  <1>1. IsFiniteSet(FD) /\ IsFiniteSet(Task)
    BY FS_Interval, DescriptorsAssumption DEF FD, Task
  <1>2. IsFiniteSet(Task \X FD)
    BY <1>1, FS_Product
  <1>3. \A S \in SUBSET FD : IsFiniteSet(S) /\ Cardinality(S) \in Nat
    BY <1>1, FS_Subset, FS_CardinalityType
  <1>4. \A S \in SUBSET (Task \X FD) : IsFiniteSet(S) /\ Cardinality(S) \in Nat
    BY <1>2, FS_Subset, FS_CardinalityType
  <1>5. \A S : FD \cap S \in SUBSET FD
    OBVIOUS
  <1> QED BY <1>1, <1>3, <1>4, <1>5

(* A pipe end has no entry when no descriptor of any table is that end.    *)
LEMMA NoEntry ==
    ASSUME NEW i, NEW e
    PROVE  Entries(i, e) = {} <=> \A q \in Task, fd \in FD : fds[q][fd] # PipeHandle(i, e)
  <1>1. ASSUME Entries(i, e) = {}, NEW q \in Task, NEW fd \in FD
        PROVE  fds[q][fd] # PipeHandle(i, e)
    <2>1. <<q, fd>> \notin Entries(i, e)
      BY <1>1
    <2> QED BY <2>1 DEF Entries
  <1>2. (\A q \in Task, fd \in FD : fds[q][fd] # PipeHandle(i, e)) => Entries(i, e) = {}
    BY DEF Entries
  <1> QED BY <1>1, <1>2

(* Two finite sets without a common element.                               *)
LEMMA DisjointUnion ==
    ASSUME NEW S, IsFiniteSet(S), NEW T, IsFiniteSet(T), S \cap T = {}
    PROVE  /\ Cardinality(S \cup T) = Cardinality(S) + Cardinality(T)
           /\ IsFiniteSet(S \cup T)
           /\ Cardinality(S) \in Nat /\ Cardinality(T) \in Nat
  <1>1. Cardinality(S \cap T) = 0
    BY FS_EmptySet
  <1>2. Cardinality(S) \in Nat /\ Cardinality(T) \in Nat
    BY FS_CardinalityType
  <1>3. Cardinality(S \cup T) = Cardinality(S) + Cardinality(T) - 0 /\ IsFiniteSet(S \cup T)
    BY <1>1, FS_Union
  <1> QED BY <1>2, <1>3

(* When one table is replaced, the number of entries changes by what that  *)
(* table had and has.                                                      *)
LEMMA RowChange ==
    ASSUME NEW t \in Task, fds \in [Task -> [FD -> Handle]], NEW g \in [FD -> Handle],
           fds' = [fds EXCEPT ![t] = g], NEW i, NEW e
    PROVE  /\ Cardinality(Entries(i, e)') = Cardinality(Entries(i, e)) - Cardinality(Row(fds[t], i, e)) + Cardinality(Row(g, i, e))
           /\ Cardinality(Entries(i, e)') \in Nat /\ Cardinality(Entries(i, e)) \in Nat
           /\ Cardinality(Row(g, i, e)) \in Nat /\ Cardinality(Row(fds[t], i, e)) \in Nat
  <1> DEFINE Others == {x \in Task \X FD : x[1] # t /\ fds[x[1]][x[2]] = PipeHandle(i, e)}
             This(R) == {t} \X R
  <1>1. Entries(i, e) = Others \cup This(Row(fds[t], i, e))
    BY DEF Entries, Row
  <1>2. Entries(i, e)' = Others \cup This(Row(g, i, e))
    BY DEF Entries, Row
  <1>3. ASSUME NEW R \in SUBSET FD
        PROVE  /\ Cardinality(Others \cup This(R)) = Cardinality(Others) + Cardinality(R)
               /\ Cardinality(R) \in Nat /\ Cardinality(Others) \in Nat
    <2>1. IsFiniteSet(R) /\ Cardinality(R) \in Nat /\ IsFiniteSet(Others) /\ Cardinality(Others) \in Nat
      BY Finite, <1>3
    <2>2. IsFiniteSet({t}) /\ Cardinality({t}) = 1
      BY FS_Singleton, Zenon
    <2>3. IsFiniteSet(This(R)) /\ Cardinality(This(R)) = 1 * Cardinality(R)
      BY <2>1, <2>2, FS_Product, Zenon
    <2>4. Others \cap This(R) = {}
      OBVIOUS
    <2> HIDE DEF Others, This
    <2>5. Cardinality(Others \cup This(R)) = Cardinality(Others) + Cardinality(This(R))
      BY <2>1, <2>3, <2>4, DisjointUnion
    <2> QED BY <2>1, <2>3, <2>5
  <1>4. Row(fds[t], i, e) \in SUBSET FD /\ Row(g, i, e) \in SUBSET FD
    BY DEF Row
  <1>5. /\ Cardinality(Entries(i, e)) = Cardinality(Others) + Cardinality(Row(fds[t], i, e))
        /\ Cardinality(Entries(i, e)') = Cardinality(Others) + Cardinality(Row(g, i, e))
        /\ Cardinality(Others) \in Nat /\ Cardinality(Row(g, i, e)) \in Nat /\ Cardinality(Row(fds[t], i, e)) \in Nat
    BY <1>1, <1>2, <1>3, <1>4, Zenon
  <1> HIDE DEF Others
  <1> QED BY <1>5

(* The counts stay exact when one table is replaced and each counter moves *)
(* by as much as the entries of that table.                                *)
LEMMA CountStep ==
    ASSUME CountInv, NEW t \in Task, NEW g \in [FD -> Handle], fds' = [fds EXCEPT ![t] = g], lost' = lost,
           \A i \in Pipe, e \in End :
              refs'[i][e] = refs[i][e] - Cardinality(Row(fds[t], i, e)) + Cardinality(Row(g, i, e))
    PROVE  CountsAreExact'
  <1> SUFFICES ASSUME NEW i \in Pipe, NEW e \in End
               PROVE  refs'[i][e] = Cardinality(Entries(i, e)') + lost'[i][e]
    BY DEF CountsAreExact
  <1>1. /\ Cardinality(Entries(i, e)') = Cardinality(Entries(i, e)) - Cardinality(Row(fds[t], i, e)) + Cardinality(Row(g, i, e))
        /\ Cardinality(Entries(i, e)') \in Nat /\ Cardinality(Entries(i, e)) \in Nat
        /\ Cardinality(Row(g, i, e)) \in Nat /\ Cardinality(Row(fds[t], i, e)) \in Nat
    BY RowChange, Zenon DEF CountInv, DescriptorTypes
  <1>2. refs[i][e] = Cardinality(Entries(i, e)) + lost[i][e] /\ lost[i][e] \in Nat
    BY DEF CountInv, CountsAreExact, DescriptorTypes
  <1> QED BY <1>1, <1>2

(* What every operation on a table keeps.                                  *)
TableStep(t) ==
    /\ \E g \in [FD -> Handle] : fds' = [fds EXCEPT ![t] = g]
    /\ refs' \in [Pipe -> [End -> Int]]
    /\ closedFDs' \in [Task -> SUBSET FD]
    /\ fdCloexec' \in [Task -> SUBSET FD]
    /\ CountsAreExact'
    /\ \A i \in Pipe, e \in End : Entries(i, e) = {} => Entries(i, e)' = {}

(* Closing a set of descriptors of a table uncounts exactly what it had.   *)
LEMMA ReleaseKeeps ==
    ASSUME CountInv, NEW t \in Task, NEW S \in SUBSET FD, refs' = Released(t, S),
           fds' = [fds EXCEPT ![t] = [fd \in FD |-> IF fd \in S THEN None ELSE fds[t][fd]]],
           closedFDs' \in [Task -> SUBSET FD], fdCloexec' \in [Task -> SUBSET FD], lost' = lost
    PROVE  TableStep(t) /\ \A fd \in FD : fds'[t][fd] \in {fds[t][fd], None}
  <1> DEFINE g == [fd \in FD |-> IF fd \in S THEN None ELSE fds[t][fd]]
  <1> USE DEF CountInv, DescriptorTypes
  <1>1. g \in [FD -> Handle] /\ fds' = [fds EXCEPT ![t] = g]
    BY SMTT(20), SMTT(30), Zenon DEF Handle
  <1>2. ASSUME NEW i \in Pipe, NEW e \in End
        PROVE  /\ refs'[i][e] = refs[i][e] - Cardinality(Row(fds[t], i, e)) + Cardinality(Row(g, i, e))
               /\ refs'[i][e] \in Int
    <2>1. Row(g, i, e) = Row(fds[t], i, e) \ S /\ Row(fds[t], i, e) \cap S = Ends(t, S, i, e)
      BY HandlesDiffer DEF Row, Ends
    <2>2. Row(fds[t], i, e) \in SUBSET FD /\ Ends(t, S, i, e) \in SUBSET FD
      BY DEF Row, Ends
    <2>3. IsFiniteSet(Row(fds[t], i, e)) /\ Cardinality(Row(fds[t], i, e)) \in Nat /\ Cardinality(Ends(t, S, i, e)) \in Nat
      BY <2>2, Finite
    <2>4. Cardinality(Row(g, i, e)) = Cardinality(Row(fds[t], i, e)) - Cardinality(Ends(t, S, i, e))
      BY <2>1, <2>3, FS_Difference, Zenon
    <2>5. refs'[i][e] = refs[i][e] - Cardinality(Ends(t, S, i, e)) /\ refs[i][e] \in Int
      BY DEF Released
    <2> QED BY <2>3, <2>4, <2>5, SMTT(30)
  <1>3. CountsAreExact'
    <2> HIDE DEF g, CountInv, DescriptorTypes
    <2> QED BY <1>1, <1>2, CountStep
  <1>4. refs' \in [Pipe -> [End -> Int]]
    BY <1>2, Zenon DEF Released
  <1>5. \A i \in Pipe, e \in End : Entries(i, e) = {} => Entries(i, e)' = {}
    BY <1>1, HandlesDiffer DEF Entries
  <1>6. \A fd \in FD : fds'[t][fd] \in {fds[t][fd], None}
    BY <1>1
  <1> HIDE DEF g
  <1> QED BY <1>1, <1>3, <1>4, <1>5, <1>6, Zenon DEF TableStep

(* CloseAll, as used by close and by exec.                                 *)
LEMMA CloseAllKeeps ==
    ASSUME CountInv, NEW t \in Task, NEW S \in SUBSET FD, CloseAll(t, S), lost' = lost
    PROVE  TableStep(t) /\ \A fd \in FD : fds'[t][fd] \in {fds[t][fd], None}
  <1>1. closedFDs' \in [Task -> SUBSET FD] /\ fdCloexec' \in [Task -> SUBSET FD]
    BY DEF CloseAll, CountInv, DescriptorTypes
  <1>2. fds' = [fds EXCEPT ![t] = [fd \in FD |-> IF fd \in S THEN None ELSE fds[t][fd]]]
    BY DEF CloseAll, CountInv, DescriptorTypes
  <1> QED BY <1>1, <1>2, ReleaseKeeps, Zenon DEF CloseAll

(* An operation that leaves the entries and the counters as they are.      *)
LEMMA SameTable ==
    ASSUME CountInv, NEW t \in Task, UNCHANGED <<refs, fds, lost>>,
           closedFDs' \in [Task -> SUBSET FD], fdCloexec' \in [Task -> SUBSET FD]
    PROVE  TableStep(t)
  <1>1. fds' = [fds EXCEPT ![t] = fds[t]] /\ fds[t] \in [FD -> Handle]
    BY DEF CountInv, DescriptorTypes
  <1>2. \A i, e : Entries(i, e)' = Entries(i, e)
    BY DEF Entries
  <1>3. CountsAreExact'
    BY <1>2 DEF CountInv, CountsAreExact
  <1> QED BY <1>1, <1>2, <1>3, Zenon DEF TableStep, CountInv, DescriptorTypes

(* A non-empty set of natural numbers has a smallest one.                  *)
LEMMA Smallest ==
    ASSUME NEW S \in SUBSET Nat, S # {}
    PROVE  \E n \in S : \A m \in S : n <= m
  <1>1. IsWellFoundedOn(OpToRel(<, Nat), Nat)
    BY NatLessThanWellFounded, Zenon
  <1>2. PICK n \in S : \A m \in S : ~(<<m, n>> \in OpToRel(<, Nat))
    BY <1>1, WFMin, Zenon
  <1>3. \A m \in S : ~(m < n)
    BY <1>2, Zenon DEF OpToRel
  <1> QED BY <1>3

(* allocateFD returns a descriptor that is not in use: its entry is empty. *)
LEMMA AllocateFree ==
    ASSUME NEW t \in Task, NEW start \in Nat, Free(t, start) # {}
    PROVE  /\ allocateFD(t, start) \in FD
           /\ allocateFD(t, start) >= start
           /\ fds[t][allocateFD(t, start)] = None
  <1>1. Free(t, start) \in SUBSET Nat
    BY DescriptorsAssumption DEF Free, FD
  <1>2. \E fd \in Free(t, start) : \A g \in Free(t, start) : fd <= g
    BY <1>1, Smallest
  <1>3. allocateFD(t, start) \in Free(t, start)
    BY <1>2 DEF allocateFD
  <1> QED BY <1>3 DEF Free, validFD, handleForFD

(* A handle is empty, the terminal, a file, or an end of one pipe.         *)
LEMMA HandleCases ==
    ASSUME NEW h \in Handle
    PROVE  \/ /\ h.kind = "pipe" /\ h.id \in Pipe /\ h.end \in End /\ h = PipeHandle(h.id, h.end)
           \/ h.kind # "pipe" /\ \A i, e : h # PipeHandle(i, e)
  BY HandlesDiffer DEF Handle, None, TTY, FileHandle, PipeHandle, End

(* What a descriptor stands for is its entry, the terminal or nothing.     *)
LEMMA HandleForFD ==
    ASSUME NEW t \in Task, fds \in [Task -> [FD -> Handle]], NEW fd \in FD
    PROVE  handleForFD(t, fd) \in Handle /\ handleForFD(t, fd) \in {fds[t][fd], TTY, None}
  BY DEF handleForFD, Handle

(* Installing a copy of a handle counts it once, and uncounts what it      *)
(* replaces.                                                               *)
LEMMA InstallKeeps ==
    ASSUME CountInv, NEW t \in Task, NEW old \in FD, NEW new \in FD, NEW replaced \in {{}, {new}},
           replaced = {} => \A i, e : fds[t][new] # PipeHandle(i, e),
           NEW cloexec \in BOOLEAN, Install(t, old, new, replaced, cloexec), lost' = lost
    PROVE  TableStep(t)
  <1> DEFINE h == handleForFD(t, old)
             g == [fds[t] EXCEPT ![new] = h]
  <1> USE DEF CountInv, DescriptorTypes
  <1>1. h \in Handle /\ h \in {fds[t][old], TTY, None}
    BY HandleForFD, Zenon
  <1>2. g \in [FD -> Handle] /\ fds' = [fds EXCEPT ![t] = g]
    BY <1>1, SMTT(20), SMTT(30), Zenon DEF Install
  <1>3. ASSUME NEW i \in Pipe, NEW e \in End
        PROVE  /\ refs'[i][e] = refs[i][e] - Cardinality(Row(fds[t], i, e)) + Cardinality(Row(g, i, e))
               /\ refs'[i][e] \in Int
    <2> DEFINE R == Row(fds[t], i, e)
    <2>1. R \in SUBSET FD /\ IsFiniteSet(R) /\ Cardinality(R) \in Nat
      BY Finite DEF Row
    <2>2. Row(g, i, e) = IF h = PipeHandle(i, e) THEN (R \ {new}) \cup {new} ELSE R \ {new}
      BY <1>1 DEF Row
    <2>3. /\ IsFiniteSet(R \ {new})
          /\ Cardinality(R \ {new}) = IF new \in R THEN Cardinality(R) - 1 ELSE Cardinality(R)
      BY <2>1, FS_RemoveElement, Zenon
    <2>4. Cardinality((R \ {new}) \cup {new}) = Cardinality(R \ {new}) + 1
      <3>1. new \notin R \ {new}
        OBVIOUS
      <3> HIDE DEF R
      <3> QED BY <2>3, <3>1, FS_AddElement, Zenon
    <2>5. Cardinality(Ends(t, replaced, i, e)) = IF new \in R THEN 1 ELSE 0
      <3>1. Ends(t, replaced, i, e) = IF new \in R THEN {new} ELSE {}
        BY DEF Ends, Row
      <3> QED BY <3>1, FS_EmptySet, FS_Singleton, Zenon
    <2>6. Released(t, replaced)[i][e] = refs[i][e] - (IF new \in R THEN 1 ELSE 0) /\ refs[i][e] \in Int
      BY <2>5 DEF Released
    <2>7. refs'[i][e] = Released(t, replaced)[i][e] + (IF h = PipeHandle(i, e) THEN 1 ELSE 0)
      <3>1. CASE h.kind # "pipe"
        <4>1. h # PipeHandle(i, e)
          BY <1>1, <3>1, HandleCases, SMTT(20), SMTT(30), Zenon
        <4>2. Released(t, replaced)[i][e] \in Int
          BY <2>6, SMTT(20), SMTT(30), Zenon
        <4> QED BY <3>1, <4>1, <4>2 DEF Install
      <3>2. CASE h.kind = "pipe"
        <4>1. h.id \in Pipe /\ h.end \in End /\ h = PipeHandle(h.id, h.end)
          BY <1>1, <3>2, HandleCases
        <4>2. refs' = [Released(t, replaced) EXCEPT ![h.id][h.end] = @ + 1]
          BY <3>2, SMTT(20), SMTT(30), Zenon DEF Install
        <4>4. Released(t, replaced)[i][e] \in Int
          BY <2>6
        <4> HIDE DEF h
        <4>3. h = PipeHandle(i, e) <=> h.id = i /\ h.end = e
          <5>1. PipeHandle(h.id, h.end) = PipeHandle(i, e) <=> h.id = i /\ h.end = e
            BY HandlesDiffer
          <5>2. h = PipeHandle(i, e) <=> PipeHandle(h.id, h.end) = PipeHandle(i, e)
            BY <4>1
          <5> QED BY <5>1, <5>2
        <4> QED BY <4>1, <4>2, <4>3, <4>4 DEF Released
      <3> QED BY <3>1, <3>2
    <2> HIDE DEF h, R, g
    <2>8. Row(fds[t], i, e) = R
      BY DEF R
    <2> QED BY <2>1, <2>2, <2>3, <2>4, <2>6, <2>7, <2>8, SMTT(20), SMTT(30), Zenon
  <1> HIDE DEF g
  <1>4. CountsAreExact'
    BY <1>2, <1>3, CountStep, Zenon
  <1>5. refs' \in [Pipe -> [End -> Int]]
    <2>1. refs' = IF h.kind = "pipe" THEN [Released(t, replaced) EXCEPT ![h.id][h.end] = @ + 1] ELSE Released(t, replaced)
      BY DEF Install
    <2>2. Released(t, replaced) \in [Pipe -> [End -> Int]]
      <3>1. ASSUME NEW i \in Pipe, NEW e \in End
            PROVE  refs[i][e] - Cardinality(Ends(t, replaced, i, e)) \in Int
        <4>1. Ends(t, replaced, i, e) \in SUBSET FD
          BY DEF Ends
        <4>2. Cardinality(Ends(t, replaced, i, e)) \in Nat
          BY <4>1, Finite
        <4> QED BY <4>2
      <3> QED BY <3>1 DEF Released
    <2>3. h.kind = "pipe" => h.id \in Pipe /\ h.end \in End
      BY <1>1, HandleCases
    <2> HIDE DEF h
    <2>4. CASE h.kind = "pipe"
      BY <2>1, <2>2, <2>3, <2>4, SMTT(20), SMTT(30), Zenon
    <2> QED BY <2>1, <2>2, <2>4, Zenon
  <1>6. \A i \in Pipe, e \in End : Entries(i, e) = {} => Entries(i, e)' = {}
    <2> SUFFICES ASSUME NEW i \in Pipe, NEW e \in End, Entries(i, e) = {},
                        NEW q \in Task, NEW fd \in FD, fds'[q][fd] = PipeHandle(i, e)
                 PROVE  FALSE
      BY Zenon DEF Entries
    <2>1. fds[q][fd] # PipeHandle(i, e) /\ fds[t][old] # PipeHandle(i, e)
      BY NoEntry, Zenon
    <2>2. fds'[q][fd] \in {fds[q][fd], h}
      BY <1>2 DEF g
    <2>3. h # PipeHandle(i, e)
      BY <1>1, <2>1, HandlesDiffer
    <2> QED BY <2>1, <2>2, <2>3
  <1>7. closedFDs' \in [Task -> SUBSET FD] /\ fdCloexec' \in [Task -> SUBSET FD]
    BY DEF Install
  <1> QED BY <1>2, <1>4, <1>5, <1>6, <1>7, Zenon DEF TableStep

(* Replacing an empty entry by a handle that is no pipe counts nothing.    *)
LEMMA OpenKeeps ==
    ASSUME CountInv, NEW p \in Task, Open(p)
    PROVE  TableStep(table[p]) /\ nfile' \in 0..MaxFile
  <1> DEFINE t == table[p]
             fd == allocateFD(t, 0)
             g == [fds[t] EXCEPT ![fd] = FileHandle(nfile + 1)]
  <1> USE DEF CountInv, DescriptorTypes
  <1>1. t \in Task /\ fd \in FD /\ fds[t][fd] = None
    BY AllocateFree, Zenon DEF Open
  <1>2. nfile' \in 0..MaxFile /\ nfile + 1 \in File
    BY DescriptorsAssumption DEF Open, File
  <1>3. FileHandle(nfile + 1) \in Handle
    BY <1>2 DEF Handle
  <1>4. fds' = [fds EXCEPT ![t] = g] /\ g \in [FD -> Handle]
    <2> HIDE DEF fd
    <2> QED BY <1>1, <1>3 DEF Open, fd
  <1>5. ASSUME NEW i, NEW e
        PROVE  Row(g, i, e) = Row(fds[t], i, e)
    <2>1. FileHandle(nfile + 1) # PipeHandle(i, e) /\ None # PipeHandle(i, e)
      BY DEF FileHandle, PipeHandle, None
    <2>2. \A x \in FD : g[x] = IF x = fd THEN FileHandle(nfile + 1) ELSE fds[t][x]
      BY <1>1
    <2> HIDE DEF g, t, fd, CountInv, DescriptorTypes
    <2> QED BY <1>1, <2>1, <2>2 DEF Row
  <1>6. \A i \in Pipe, e \in End : Row(fds[t], i, e) \in SUBSET FD /\ refs'[i][e] = refs[i][e] /\ refs[i][e] \in Int
    BY DEF Row, Open
  <1>7. ASSUME NEW i \in Pipe, NEW e \in End
        PROVE  refs'[i][e] = refs[i][e] - Cardinality(Row(fds[t], i, e)) + Cardinality(Row(g, i, e))
    <2> HIDE DEF g, t, fd, CountInv, DescriptorTypes
    <2>1. Cardinality(Row(fds[t], i, e)) \in Nat
      BY <1>6, Finite
    <2> QED BY <1>5, <1>6, <2>1
  <1>8. CountsAreExact'
    <2>1. lost' = lost
      BY DEF Open, KeepPipes
    <2> HIDE DEF g, t
    <2> QED BY <1>1, <1>4, <1>7, <2>1, CountStep, ZenonT(40)
  <1>9. \A i \in Pipe, e \in End : Entries(i, e) = {} => Entries(i, e)' = {}
    <2> SUFFICES ASSUME NEW i \in Pipe, NEW e \in End, Entries(i, e) = {},
                        NEW q \in Task, NEW x \in FD, fds'[q][x] = PipeHandle(i, e)
                 PROVE  FALSE
      BY Zenon DEF Entries
    <2>1. fds[q][x] # PipeHandle(i, e)
      BY NoEntry, Zenon
    <2>2. fds'[q][x] \in {fds[q][x], FileHandle(nfile + 1)}
      BY <1>4
    <2>3. FileHandle(nfile + 1) # PipeHandle(i, e)
      BY DEF FileHandle, PipeHandle
    <2> QED BY <2>1, <2>2, <2>3
  <1>10. closedFDs' \in [Task -> SUBSET FD] /\ fdCloexec' \in [Task -> SUBSET FD] /\ refs' \in [Pipe -> [End -> Int]]
    BY DEF Open
  <1> HIDE DEF g
  <1> QED BY <1>2, <1>4, <1>8, <1>9, <1>10, ZenonT(40) DEF TableStep

(* A fork counts every entry of the copied table once more.                *)
LEMMA ForkKeeps ==
    ASSUME CountInv, NEW p \in Task, p \in 1..ntask, Fork(p)
    PROVE  TableStep(ntask + 1) /\ ntask + 1 \in Task /\ fds'[ntask + 1] = fds[table[p]]
  <1> DEFINE t == table[p]
             q == ntask + 1
  <1> USE DEF CountInv, DescriptorTypes
  <1>1. t \in Task /\ q \in Task
    <2>1. program.tasks \in 1..MaxTask
      BY DescriptorsAssumption
    <2>2. ntask < program.tasks
      BY DEF Fork
    <2>3. t \in Task /\ ntask \in 1..MaxTask
      BY Zenon DEF Task
    <2> HIDE DEF t, CountInv, DescriptorTypes
    <2> QED BY <2>1, <2>2, <2>3, DescriptorsAssumption DEF Task
  <1>2. fds' = [fds EXCEPT ![q] = fds[t]] /\ fds[t] \in [FD -> Handle] /\ lost' = lost
    BY <1>1, ZenonT(40) DEF Fork
  <1>3. ASSUME NEW i \in Pipe, NEW e \in End
        PROVE  /\ refs'[i][e] = refs[i][e] - Cardinality(Row(fds[q], i, e)) + Cardinality(Row(fds[t], i, e))
               /\ refs'[i][e] \in Int
    <2>1. Row(fds[q], i, e) = {}
      <3>1. \A fd \in FD : fds[q][fd] = None
        BY <1>1 DEF Unborn
      <3>2. PipeHandle(i, e) # None
        BY HandlesDiffer
      <3> QED BY <3>1, <3>2, Zenon DEF Row
    <2>2. Row(fds[t], i, e) = Ends(t, FD, i, e) /\ Row(fds[t], i, e) \in SUBSET FD
      BY DEF Row, Ends
    <2>3. refs'[i][e] = refs[i][e] + Cardinality(Ends(t, FD, i, e)) /\ refs[i][e] \in Int
      BY SMTT(20), SMTT(30), Zenon DEF Fork, Retained
    <2>4. Cardinality(Row(fds[t], i, e)) \in Nat /\ Cardinality(Row(fds[q], i, e)) = 0
      BY <2>1, <2>2, Finite, FS_EmptySet
    <2> HIDE DEF t, q
    <2> QED BY <2>2, <2>3, <2>4, SMTT(20), SMTT(30), Zenon
  <1>4. CountsAreExact'
    <2> HIDE DEF t, q
    <2> QED BY <1>1, <1>2, <1>3, CountStep, Zenon
  <1>5. refs' \in [Pipe -> [End -> Int]]
    BY <1>3 DEF Fork, Retained
  <1>6. \A i \in Pipe, e \in End : Entries(i, e) = {} => Entries(i, e)' = {}
    <2> SUFFICES ASSUME NEW i \in Pipe, NEW e \in End, Entries(i, e) = {},
                        NEW r \in Task, NEW x \in FD, fds'[r][x] = PipeHandle(i, e)
                 PROVE  FALSE
      BY Zenon DEF Entries
    <2>1. fds[r][x] # PipeHandle(i, e) /\ fds[t][x] # PipeHandle(i, e)
      BY <1>1, NoEntry, Zenon
    <2> QED BY <1>1, <1>2, <2>1
  <1>7. closedFDs' \in [Task -> SUBSET FD] /\ fdCloexec' \in [Task -> SUBSET FD] /\ fds'[q] = fds[t]
    BY <1>1, <1>2, Zenon DEF Fork
  <1> QED BY <1>1, <1>2, <1>4, <1>5, <1>6, <1>7, ZenonT(40) DEF TableStep

(* The two entries of a new pipe are its only ends; a pipe call that fails *)
(* leaves a pipe without any.                                              *)
LEMMA MakePipeKeeps ==
    ASSUME CountInv, NEW p \in Task, NEW flags, NEW stored \in BOOLEAN, MakePipe(p, flags, stored)
    PROVE  /\ \E g \in [FD -> Handle] : fds' = [fds EXCEPT ![table[p]] = g]
           /\ refs' \in [Pipe -> [End -> Int]]
           /\ fdCloexec' \in [Task -> SUBSET FD]
           /\ CountsAreExact'
           /\ npipe' = npipe + 1 /\ npipe' \in Pipe
           /\ \A j \in Pipe, e \in End : j # npipe' /\ Entries(j, e) = {} => Entries(j, e)' = {}
  <1> DEFINE t == table[p]
             r == allocateFD(t, 0)
             w == allocateFD(t, r + 1)
             i == npipe + 1
             g == [[fds[t] EXCEPT ![r] = PipeHandle(i, "read")] EXCEPT ![w] = PipeHandle(i, "write")]
  <1>0. /\ t \in Task /\ fds \in [Task -> [FD -> Handle]] /\ refs \in [Pipe -> [End -> Int]]
        /\ fdCloexec \in [Task -> SUBSET FD] /\ lost \in [Pipe -> [End -> Nat]] /\ npipe \in 0..MaxPipe
    BY ZenonT(60) DEF CountInv, DescriptorTypes
  <1>1. npipe' = i /\ i \in Pipe /\ i > npipe
    BY <1>0, DescriptorsAssumption, SMTT(20), SMTT(30), Zenon DEF MakePipe, Pipe
  <1>2. r \in FD /\ fds[t][r] = None
    BY <1>0, AllocateFree DEF MakePipe
  <1>3. w \in FD /\ w >= r + 1 /\ fds[t][w] = None
    <2>1. r + 1 \in Nat
      BY <1>2, DescriptorsAssumption, SMTT(20), SMTT(30), Zenon DEF FD
    <2>2. Free(t, r + 1) # {}
      BY DEF MakePipe
    <2> HIDE DEF t, r
    <2> QED BY <1>0, <2>1, <2>2, AllocateFree, SMTT(20), SMTT(30), Zenon
  <1>4. r # w
    BY <1>2, <1>3, DescriptorsAssumption DEF FD
  <1>5. fdCloexec' \in [Task -> SUBSET FD]
    <2> HIDE DEF t, r, w
    <2>1. \/ fdCloexec' = [fdCloexec EXCEPT ![t] = @ \cup {r, w}]
          \/ fdCloexec' = [fdCloexec EXCEPT ![t] = @]
          \/ fdCloexec' = [fdCloexec EXCEPT ![t] = @ \ {r, w}]
      BY <1>0 DEF MakePipe, t, r, w
    <2> QED BY <1>0, <1>2, <1>3, <2>1, ZenonT(40)
  <1>6. CASE ~stored
    <2>1. fds' = fds /\ refs' = refs /\ lost' = lost
      BY <1>6 DEF MakePipe
    <2>2. fds' = [fds EXCEPT ![t] = fds[t]] /\ fds[t] \in [FD -> Handle]
      BY <1>0, <2>1
    <2>3. \A j, e : Entries(j, e)' = Entries(j, e)
      BY <2>1 DEF Entries
    <2>4. CountsAreExact'
      BY <2>1, <2>3 DEF CountsAreExact, CountInv
    <2> QED BY <1>0, <1>1, <1>5, <2>1, <2>2, <2>3, <2>4, SMTT(20), SMTT(30), Zenon
  <1>7. CASE stored
    <2> HIDE DEF t, r, w, i
    <2>1. fds' = [fds EXCEPT ![t] = g] /\ lost' = lost /\ refs' = [refs EXCEPT ![i] = [e \in End |-> 1]]
      BY <1>0, <1>2, <1>3, <1>4, <1>7, Zenon DEF MakePipe, t, r, w, i
    <2>2. PipeHandle(i, "read") \in Handle /\ PipeHandle(i, "write") \in Handle
      BY <1>1 DEF Handle, End, i
    <2>3. \A x \in FD : g[x] = IF x = r THEN PipeHandle(i, "read") ELSE IF x = w THEN PipeHandle(i, "write") ELSE fds[t][x]
      BY <1>0, <1>2, <1>3, <1>4
    <2>4. g \in [FD -> Handle]
      <3>1. \A x \in FD : g[x] \in Handle
        BY <1>0, <2>2, <2>3
      <3>2. g = [x \in FD |-> g[x]]
        BY <1>0
      <3> HIDE DEF g
      <3> QED BY <3>1, <3>2
    <2> HIDE DEF g
    <2>5. refs' \in [Pipe -> [End -> Int]]
      <3>1. [e \in End |-> 1] \in [End -> Int]
        OBVIOUS
      <3> QED BY <1>0, <2>1, <3>1, Zenon
    <2>6. ASSUME NEW j \in Pipe, NEW e \in End
          PROVE  refs'[j][e] = refs[j][e] - Cardinality(Row(fds[t], j, e)) + Cardinality(Row(g, j, e))
      <3>1. CASE j # i
        <4>1. PipeHandle(j, e) # PipeHandle(i, "read") /\ PipeHandle(j, e) # PipeHandle(i, "write") /\ PipeHandle(j, e) # None
          BY <3>1, HandlesDiffer, SMTT(20), SMTT(30), Zenon
        <4>2. Row(g, j, e) = Row(fds[t], j, e) /\ Row(g, j, e) \in SUBSET FD
          BY <1>2, <1>3, <2>3, <4>1 DEF Row
        <4>3. refs'[j][e] = refs[j][e] /\ refs[j][e] \in Int
          BY <1>0, <2>1, <3>1, SMTT(20), SMTT(30), Zenon
        <4>4. Cardinality(Row(g, j, e)) \in Nat
          BY <4>2, Finite, SMTT(20), SMTT(30), Zenon
        <4> QED BY <4>2, <4>3, <4>4
      <3>2. CASE j = i
        <4>1. Entries(i, e) = {} /\ lost[i][e] = 0
          BY <1>1, <3>2, SMTT(20), SMTT(30), Zenon DEF CountInv, Unmade, i
        <4>2. refs[j][e] = 0
          BY <4>1, <3>2, FS_EmptySet DEF CountInv, CountsAreExact
        <4>3. Row(fds[t], j, e) = {}
          BY <1>0, <3>2, <4>1, NoEntry DEF Row
        <4>4. refs'[j][e] = 1
          BY <1>0, <2>1, <3>2
        <4>5. e = "read" \/ e = "write"
          BY DEF End
        <4>6. \A x \in FD : g[x] = PipeHandle(j, e) <=> x = IF e = "read" THEN r ELSE w
          BY <2>3, <3>2, <4>3, <4>5, <1>2, <1>3, <1>4, HandlesDiffer, SMTT(20), SMTT(30), Zenon DEF Row
        <4>7. Row(g, j, e) = {IF e = "read" THEN r ELSE w}
          BY <1>2, <1>3, <4>6 DEF Row
        <4>8. Cardinality(Row(g, j, e)) = 1
          BY <4>7, FS_Singleton, Zenon
        <4>9. Cardinality(Row(fds[t], j, e)) = 0
          BY <4>3, FS_EmptySet
        <4> QED BY <4>2, <4>4, <4>8, <4>9, SMTT(20), SMTT(30), Zenon
      <3> QED BY <3>1, <3>2, SMTT(20), SMTT(30), Zenon
    <2>7. CountsAreExact'
      BY <1>0, <2>1, <2>4, <2>6, CountStep, ZenonT(60)
    <2>8. ASSUME NEW j \in Pipe, NEW e \in End, j # npipe', Entries(j, e) = {}
          PROVE  Entries(j, e)' = {}
      <3> SUFFICES ASSUME NEW q \in Task, NEW x \in FD, fds'[q][x] = PipeHandle(j, e)
                   PROVE  FALSE
        BY SMTT(20), SMTT(30), Zenon DEF Entries
      <3>1. fds[q][x] # PipeHandle(j, e)
        BY <2>8, NoEntry
      <3>2. PipeHandle(j, e) # PipeHandle(i, "read") /\ PipeHandle(j, e) # PipeHandle(i, "write")
        BY <1>1, <2>8, HandlesDiffer
      <3>3. fds'[q][x] = IF q = t THEN g[x] ELSE fds[q][x]
        BY <1>0, <2>1
      <3> QED BY <2>3, <3>1, <3>2, <3>3, SMTT(20), SMTT(30), Zenon
    <2> QED BY <1>1, <1>5, <2>1, <2>4, <2>5, <2>7, <2>8, Zenon DEF t, i
  <1> QED BY <1>6, <1>7

-----------------------------------------------------------------------------
(* What a call that works on tables does: the counts stay exact, no bytes  *)
(* move, no end-of-file is seen, and a pipe nobody could write to remains  *)
(* so.                                                                     *)
TableCall ==
    /\ CountInv'
    /\ UNCHANGED <<data, got, block, pending>>
    /\ eof' = 0
    /\ \A i \in Pipe : Writable(i)' => Writable(i)

(* The task that makes a call, and the task whose table it uses, exist.    *)
LEMMA Caller ==
    ASSUME CountInv, NEW p, p \in alive
    PROVE  p \in Task /\ p \in 1..ntask /\ table[p] \in 1..ntask /\ table[p] \in Task /\ ntask \in Nat /\ npipe \in Nat
  <1>1. ntask \in 1..MaxTask /\ alive \subseteq 1..ntask /\ npipe \in 0..MaxPipe
    BY DEF CountInv, DescriptorTypes, Task
  <1>2. table[p] \in 1..ntask
    BY <1>1 DEF CountInv, Unborn
  <1> QED BY <1>1, <1>2, DescriptorsAssumption DEF Task

(* Calls that change one table and neither the tasks nor the pipes.        *)
LEMMA OneTable ==
    ASSUME CountInv, NEW t, t \in 1..ntask, TableStep(t), alive' \subseteq alive, nfile' \in 0..MaxFile, eof' = 0,
           UNCHANGED <<program, ntask, table, block, pending, data, npipe, got, lost>>
    PROVE  TableCall
  <1>0. t \in Task /\ ntask \in Nat
    BY DescriptorsAssumption DEF CountInv, DescriptorTypes, Task
  <1>1. PICK g \in [FD -> Handle] : fds' = [fds EXCEPT ![t] = g]
    BY Zenon DEF TableStep
  <1>2. fds' \in [Task -> [FD -> Handle]]
    BY <1>0, <1>1, SMTT(20), SMTT(30), Zenon DEF CountInv, DescriptorTypes
  <1>3. DescriptorTypes'
    BY <1>2, DescriptorsAssumption, SMTT(20), SMTT(30), Zenon DEF CountInv, DescriptorTypes, TableStep
  <1>4. Unborn'
    <2>1. \A q \in Task, fd \in FD : q > ntask => q # t
      BY <1>0, SMTT(20), SMTT(30), Zenon DEF Task
    <2> QED BY <1>1, <1>2, <2>1 DEF CountInv, DescriptorTypes, Unborn
  <1>5. Unmade'
    BY DEF CountInv, Unmade, TableStep
  <1>6. \A i \in Pipe : Writable(i)' => Writable(i)
    BY DEF Writable, TableStep, End
  <1>7. CountsAreExact'
    BY SMTT(20), SMTT(30), Zenon DEF TableStep
  <1> QED BY <1>3, <1>4, <1>5, <1>6, <1>7, SMTT(20), SMTT(30), Zenon DEF TableCall, CountInv

(* close.                                                                  *)
LEMMA CloseCall ==
    ASSUME CountInv, NEW p, NEW fd \in FD, Close(p, fd), program' = program
    PROVE  TableCall
  <1> DEFINE t == table[p]
  <1>1. t \in 1..ntask /\ t \in Task
    BY Caller DEF Close, CanCall
  <1>2. TableStep(t)
    <2>1. CASE fds[t][fd] # None
      <3>1. CloseAll(t, {fd}) /\ lost' = lost
        BY <2>1 DEF Close, KeepPipes
      <3> HIDE DEF t
      <3> QED BY <1>1, <3>1, CloseAllKeeps, SMTT(20), SMTT(30), Zenon
    <2>2. CASE fds[t][fd] = None
      <3>1. /\ closedFDs' = [closedFDs EXCEPT ![t] = @ \cup ({fd} \cap Std)]
            /\ UNCHANGED <<refs, fds, fdCloexec, lost>>
        BY <2>2 DEF Close, closeTTY, KeepPipes
      <3>2. closedFDs' \in [Task -> SUBSET FD] /\ fdCloexec' \in [Task -> SUBSET FD]
        BY <3>1, Zenon DEF CountInv, DescriptorTypes
      <3> HIDE DEF t
      <3> QED BY <1>1, <3>1, <3>2, SameTable, SMTT(20), SMTT(30), Zenon
    <2> QED BY <2>1, <2>2
  <1> QED BY <1>1, <1>2, OneTable DEF Close, KeepTasks, KeepPipes, CountInv, DescriptorTypes

(* dup2 and dup3: an entry that is not closed first is no pipe.            *)
LEMMA DupCall ==
    ASSUME CountInv, NEW p, NEW old \in FD, NEW new \in FD, NEW cloexec \in BOOLEAN, Dup(p, old, new, cloexec),
           program' = program
    PROVE  TableCall
  <1> DEFINE t == table[p]
             same == fds[t][new].kind # "pipe" /\ fds[t][new] = handleForFD(t, old)
  <1>1. t \in 1..ntask /\ t \in Task
    BY Caller, Zenon DEF Dup, CanCall
  <1>2. fds[t][new].kind # "pipe" => \A i, e : fds[t][new] # PipeHandle(i, e)
    BY DEF PipeHandle
  <1>3. Install(t, old, new, IF same THEN {} ELSE {new}, cloexec) /\ lost' = lost
    BY Zenon DEF Dup, KeepPipes
  <1>4. TableStep(t)
    <2> HIDE DEF t
    <2>1. CASE same
      BY <1>1, <1>2, <1>3, <2>1, InstallKeeps, ZenonT(40)
    <2>2. CASE ~same
      BY <1>1, <1>3, <2>2, InstallKeeps, ZenonT(60)
    <2> QED BY <2>1, <2>2
  <1> QED BY <1>1, <1>4, OneTable DEF Dup, KeepTasks, KeepPipes, CountInv, DescriptorTypes

(* fcntl(F_DUPFD): the entry it fills was empty.                           *)
LEMMA FcntlDupCall ==
    ASSUME CountInv, NEW p, NEW old \in FD, NEW start \in FD, NEW cloexec \in BOOLEAN,
           FcntlDup(p, old, start, cloexec), program' = program
    PROVE  TableCall
  <1> DEFINE t == table[p]
             new == allocateFD(t, start)
  <1>1. t \in 1..ntask /\ t \in Task /\ start \in Nat
    BY Caller, DescriptorsAssumption DEF FcntlDup, CanCall, FD
  <1>2. Install(t, old, new, {}, cloexec) /\ lost' = lost /\ Free(t, start) # {}
    BY DEF FcntlDup, KeepPipes
  <1>3. TableStep(t)
    <2> HIDE DEF t
    <2>1. new \in FD /\ fds[t][new] = None
      BY <1>1, <1>2, AllocateFree, ZenonT(40)
    <2> HIDE DEF new
    <2>2. \A i, e : None # PipeHandle(i, e)
      BY ZenonT(40) DEF PipeHandle, None
    <2>3. \A i, e : fds[t][new] # PipeHandle(i, e)
      BY <2>1, <2>2, Zenon
    <2> QED BY <1>1, <1>2, <2>1, <2>3, InstallKeeps, ZenonT(40)
  <1> QED BY <1>1, <1>3, OneTable DEF FcntlDup, KeepTasks, KeepPipes, CountInv, DescriptorTypes

(* fcntl(F_SETFD).                                                         *)
LEMMA FcntlSetFDCall ==
    ASSUME CountInv, NEW p, NEW fd \in FD, NEW on \in BOOLEAN, FcntlSetFD(p, fd, on), program' = program
    PROVE  TableCall
  <1> DEFINE t == table[p]
  <1>1. t \in 1..ntask /\ t \in Task
    BY Caller DEF FcntlSetFD, CanCall
  <1>2. UNCHANGED <<refs, fds, lost>> /\ closedFDs' = closedFDs
    BY DEF FcntlSetFD, KeepPipes
  <1>3. fdCloexec' \in [Task -> SUBSET FD] /\ closedFDs' \in [Task -> SUBSET FD]
    BY <1>2, Zenon DEF FcntlSetFD, CountInv, DescriptorTypes
  <1>4. TableStep(t)
    <2> HIDE DEF t
    <2> QED BY <1>1, <1>2, <1>3, SameTable, Zenon
  <1> QED BY <1>1, <1>4, OneTable DEF FcntlSetFD, KeepTasks, KeepPipes, CountInv, DescriptorTypes

(* open of a host file.                                                    *)
LEMMA OpenCall ==
    ASSUME CountInv, NEW p, Open(p), program' = program
    PROVE  TableCall
  <1>1. p \in Task /\ table[p] \in 1..ntask
    BY Caller DEF Open, CanCall
  <1>2. TableStep(table[p]) /\ nfile' \in 0..MaxFile
    BY <1>1, OpenKeeps, Zenon
  <1> QED BY <1>1, <1>2, OneTable DEF Open, KeepTasks, KeepPipes

(* execve closes the marked descriptors.                                   *)
LEMMA ExecCall ==
    ASSUME CountInv, NEW p, Exec(p), program' = program
    PROVE  TableCall
  <1> DEFINE t == table[p]
  <1>1. t \in 1..ntask /\ t \in Task
    BY Caller DEF Exec, CanCall
  <1>2. fdCloexec[t] \in SUBSET FD /\ CloseAll(t, fdCloexec[t]) /\ lost' = lost
    BY <1>1 DEF Exec, CloseCloexec, KeepPipes, CountInv, DescriptorTypes
  <1>3. TableStep(t)
    <2> HIDE DEF t
    <2> QED BY <1>1, <1>2, CloseAllKeeps, Zenon
  <1> QED BY <1>1, <1>3, OneTable DEF Exec, KeepTasks, KeepPipes, CountInv, DescriptorTypes

(* exit closes the whole table, or none of it for a thread.                *)
LEMMA ExitCall ==
    ASSUME CountInv, NEW p, Exit(p), program' = program
    PROVE  TableCall
  <1> DEFINE t == table[p]
  <1>1. t \in 1..ntask /\ t \in Task
    BY Caller DEF Exit, CanCall
  <1>2. closedFDs' \in [Task -> SUBSET FD] /\ fdCloexec' \in [Task -> SUBSET FD] /\ lost' = lost
    BY DEF Exit, KeepPipes, CountInv, DescriptorTypes
  <1>3. TableStep(t)
    <2>1. CASE IsThread(p)
      <3>1. UNCHANGED <<refs, fds, lost>>
        BY <2>1, <1>2 DEF Exit
      <3> HIDE DEF t
      <3> QED BY <1>1, <1>2, <3>1, SameTable
    <2>2. CASE ~IsThread(p)
      <3>1. refs' = Released(t, FD) /\ fds' = [fds EXCEPT ![t] = [fd \in FD |-> None]]
        BY <2>2 DEF Exit, CloseOnExit
      <3>2. [fd \in FD |-> None] = [fd \in FD |-> IF fd \in FD THEN None ELSE fds[t][fd]]
        OBVIOUS
      <3> HIDE DEF t
      <3> QED BY <1>1, <1>2, <3>1, <3>2, ReleaseKeeps, Zenon
    <2> QED BY <2>1, <2>2
  <1> QED BY <1>1, <1>3, OneTable DEF Exit, KeepPipes, CountInv, DescriptorTypes

(* pipe and pipe2.                                                         *)
LEMMA MakePipeCall ==
    ASSUME CountInv, NEW p, NEW flags, NEW stored \in BOOLEAN, MakePipe(p, flags, stored), program' = program
    PROVE  TableCall
  <1> DEFINE t == table[p]
  <1>1. p \in Task /\ t \in 1..ntask /\ t \in Task /\ ntask \in Nat /\ npipe \in Nat
    BY Caller DEF MakePipe, CanCall
  <1>2. /\ \E g \in [FD -> Handle] : fds' = [fds EXCEPT ![t] = g]
        /\ refs' \in [Pipe -> [End -> Int]] /\ fdCloexec' \in [Task -> SUBSET FD]
        /\ CountsAreExact' /\ npipe' = npipe + 1 /\ npipe' \in Pipe
        /\ \A j \in Pipe, e \in End : j # npipe' /\ Entries(j, e) = {} => Entries(j, e)' = {}
    BY <1>1, MakePipeKeeps
  <1>3. PICK g \in [FD -> Handle] : fds' = [fds EXCEPT ![t] = g]
    BY <1>2, Zenon
  <1>4. fds' \in [Task -> [FD -> Handle]]
    BY <1>1, <1>3, ZenonT(60) DEF CountInv, DescriptorTypes
  <1>5. /\ UNCHANGED <<program, alive, ntask, table, block, pending, closedFDs, data, nfile, got, lost>>
        /\ eof' = 0
    BY DEF MakePipe, KeepTasks
  <1>6. DescriptorTypes'
    <2>1. npipe' \in 0..MaxPipe /\ eof' \in 0..MaxPipe
      BY <1>2, <1>5, DescriptorsAssumption DEF Pipe
    <2> QED BY <1>2, <1>4, <1>5, <2>1, ZenonT(40) DEF CountInv, DescriptorTypes
  <1>7. Unborn'
    <2>1. \A q \in Task, fd \in FD : q > ntask => q # t
      BY <1>1 DEF Task
    <2> HIDE DEF t
    <2> QED BY <1>1, <1>3, <1>4, <1>5, <2>1, ZenonT(40) DEF CountInv, DescriptorTypes, Unborn
  <1>8. Unmade'
    <2> SUFFICES ASSUME NEW j \in Pipe, NEW e \in End, j > npipe'
                 PROVE  Entries(j, e)' = {} /\ lost'[j][e] = 0
      BY DEF Unmade
    <2>1. j > npipe /\ j # npipe'
      BY <1>1, <1>2 DEF Pipe
    <2> QED BY <1>2, <1>5, <2>1, ZenonT(40) DEF CountInv, Unmade
  <1>9. \A i \in Pipe : Writable(i)' => Writable(i)
    <2> SUFFICES ASSUME NEW i \in Pipe, Writable(i)', ~Writable(i) PROVE FALSE
      OBVIOUS
    <2>1. ~(i > npipe) /\ Entries(i, "write") = {} /\ ~(lost[i]["write"] > 0)
      BY Zenon DEF Writable
    <2>2. i # npipe' /\ ~(i > npipe')
      <3>1. npipe \in Nat /\ npipe' = npipe + 1 /\ ~(i > npipe)
        BY <1>1, <1>2, <2>1, Zenon
      <3>2. i \in Nat
        BY DEF Pipe
      <3>3. i # npipe + 1 /\ ~(i > npipe + 1)
        BY <3>1, <3>2, SMTT(20), SMTT(30), Zenon
      <3> QED BY <3>1, <3>3, Zenon
    <2>3. Entries(i, "write")' = {}
      BY <1>2, <2>1, <2>2 DEF End
    <2> QED BY <1>5, <2>1, <2>2, <2>3, Zenon DEF Writable
  <1> QED BY <1>2, <1>5, <1>6, <1>7, <1>8, <1>9, ZenonT(40) DEF TableCall, CountInv

(* fork.                                                                   *)
LEMMA ForkCall ==
    ASSUME CountInv, NEW p, Fork(p), program' = program
    PROVE  TableCall
  <1> DEFINE t == table[p]
             q == ntask + 1
  <1>1. p \in Task /\ p \in 1..ntask /\ t \in 1..ntask /\ t \in Task /\ ntask \in Nat
    BY Caller DEF Fork, CanCall
  <1>2. TableStep(q) /\ q \in Task /\ fds'[q] = fds[t]
    BY <1>1, ForkKeeps
  <1>3. PICK g \in [FD -> Handle] : fds' = [fds EXCEPT ![q] = g]
    BY <1>2, Zenon DEF TableStep
  <1>4. fds' \in [Task -> [FD -> Handle]]
    BY <1>2, <1>3 DEF CountInv, DescriptorTypes
  <1>5. /\ UNCHANGED <<program, table, data, npipe, nfile, block, pending, got, lost>>
        /\ eof' = 0 /\ ntask' = q /\ alive' = alive \cup {q}
    BY ZenonT(40) DEF Fork
  <1>6. DescriptorTypes'
    <2>1. alive' \subseteq 1..q
      BY <1>1, <1>5 DEF CountInv, DescriptorTypes
    <2> QED BY <1>2, <1>4, <1>5, <2>1, DescriptorsAssumption, SMTT(20), SMTT(30), Zenon DEF CountInv, DescriptorTypes, TableStep
  <1>7. Unborn'
    <2>1. \A r \in 1..ntask' : table'[r] \in 1..ntask'
      <3>1. table[q] \in 1..q
        BY <1>1, <1>2, SMTT(20), SMTT(30), Zenon DEF CountInv, Unborn
      <3> QED BY <1>1, <1>5, <3>1, SMTT(20), SMTT(30), Zenon DEF CountInv, Unborn
    <2>2. \A r \in Task, fd \in FD : r > q => fds'[r][fd] = None
      BY <1>1, <1>2, <1>3, SMTT(20), SMTT(30), Zenon DEF CountInv, Unborn, DescriptorTypes, Task
    <2>3. \A r \in Task : r > q => table'[r] = r
      BY <1>1, <1>5 DEF CountInv, Unborn, Task
    <2> QED BY <1>5, <2>1, <2>2, <2>3, Zenon DEF Unborn
  <1>8. Unmade'
    BY <1>2, <1>5, Zenon DEF CountInv, Unmade, TableStep
  <1>9. \A i \in Pipe : Writable(i)' => Writable(i)
    BY <1>2, <1>5, Zenon DEF Writable, TableStep, End
  <1> QED BY <1>2, <1>5, <1>6, <1>7, <1>8, <1>9, ZenonT(60) DEF TableCall, CountInv, TableStep

(* clone of a thread: what is counted for the dropped copy is lost.        *)
LEMMA CloneCall ==
    ASSUME CountInv, NEW p, NEW stored \in BOOLEAN, CloneThread(p, stored), program' = program
    PROVE  TableCall
  <1> DEFINE t == table[p]
             q == ntask + 1
  <1>1. p \in 1..ntask /\ t \in 1..ntask /\ t \in Task /\ ntask \in Nat
    BY Caller DEF CloneThread, CanCall
  <1>2. q \in Task
    <2>1. program.tasks \in 1..MaxTask /\ ntask < program.tasks
      BY DescriptorsAssumption, SMTT(20), SMTT(30), Zenon DEF CloneThread, CountInv, DescriptorTypes
    <2> QED BY <1>1, <2>1, DescriptorsAssumption, SMTT(20), SMTT(30), Zenon DEF Task
  <1>3. /\ UNCHANGED <<program, fds, closedFDs, fdCloexec, data, npipe, nfile, block, pending, got>>
        /\ eof' = 0 /\ ntask' = q /\ alive' \subseteq alive \cup {q} /\ table' = [table EXCEPT ![q] = t]
    BY DEF CloneThread
  <1>4. ASSUME NEW i \in Pipe, NEW e \in End
        PROVE  /\ refs'[i][e] = refs[i][e] + Cardinality(Ends(t, FD, i, e))
               /\ lost'[i][e] = lost[i][e] + Cardinality(Ends(t, FD, i, e))
               /\ Cardinality(Ends(t, FD, i, e)) \in Nat
               /\ Entries(i, e) = {} => lost'[i][e] = lost[i][e]
    <2>1. Ends(t, FD, i, e) \in SUBSET FD
      BY DEF Ends
    <2>2. Cardinality(Ends(t, FD, i, e)) \in Nat
      BY <2>1, Finite
    <2>3. Entries(i, e) = {} => Ends(t, FD, i, e) = {}
      BY <1>1, NoEntry, ZenonT(40) DEF Ends
    <2>4. /\ refs'[i][e] = refs[i][e] + Cardinality(Ends(t, FD, i, e))
          /\ lost'[i][e] = lost[i][e] + Cardinality(Ends(t, FD, i, e))
      BY DEF CloneThread, Retained
    <2>5. lost[i][e] \in Nat
      BY DEF CountInv, DescriptorTypes
    <2> HIDE DEF t
    <2>6. Entries(i, e) = {} => lost'[i][e] = lost[i][e] + 0
      BY <2>3, <2>4, FS_EmptySet, ZenonT(60)
    <2>7. lost[i][e] + 0 = lost[i][e]
      BY <2>5
    <2> QED BY <2>2, <2>4, <2>6, <2>7, Zenon
  <1>5. \A i, e : Entries(i, e)' = Entries(i, e)
    BY <1>3, Zenon DEF Entries
  <1>6. refs' \in [Pipe -> [End -> Int]] /\ lost' \in [Pipe -> [End -> Nat]]
    <2>1. \A i \in Pipe, e \in End : refs[i][e] \in Int /\ lost[i][e] \in Nat
      BY SMTT(20), SMTT(30), Zenon DEF CountInv, DescriptorTypes
    <2>2. /\ refs' = [i \in Pipe |-> [e \in End |-> refs[i][e] + Cardinality(Ends(t, FD, i, e))]]
          /\ lost' = [i \in Pipe |-> [e \in End |-> lost[i][e] + Cardinality(Ends(t, FD, i, e))]]
      BY DEF CloneThread, Retained
    <2> HIDE DEF t
    <2>3. \A i \in Pipe, e \in End : /\ refs[i][e] + Cardinality(Ends(t, FD, i, e)) \in Int
                                    /\ lost[i][e] + Cardinality(Ends(t, FD, i, e)) \in Nat
      <3> SUFFICES ASSUME NEW i \in Pipe, NEW e \in End
                   PROVE  /\ refs[i][e] + Cardinality(Ends(t, FD, i, e)) \in Int
                          /\ lost[i][e] + Cardinality(Ends(t, FD, i, e)) \in Nat
        OBVIOUS
      <3> DEFINE c == Cardinality(Ends(t, FD, i, e))
      <3>1. c \in Nat /\ refs[i][e] \in Int /\ lost[i][e] \in Nat
        BY <1>4, <2>1, ZenonT(60)
      <3> HIDE DEF c
      <3>2. refs[i][e] + c \in Int /\ lost[i][e] + c \in Nat
        BY <3>1
      <3> QED BY <3>2, ZenonT(60) DEF c
    <2> QED BY <2>2, <2>3, Zenon
  <1>7. DescriptorTypes'
    <2>1. alive' \subseteq 1..q
      BY <1>1, <1>3, SMTT(30) DEF CountInv, DescriptorTypes
    <2>2. table' \in [Task -> Task]
      BY <1>1, <1>2, <1>3, ZenonT(60) DEF CountInv, DescriptorTypes
    <2>3. /\ fds' \in [Task -> [FD -> Handle]] /\ block' \in [Task -> Record] /\ pending' \subseteq Task
          /\ closedFDs' \in [Task -> SUBSET FD] /\ fdCloexec' \in [Task -> SUBSET FD]
          /\ npipe' \in 0..MaxPipe /\ nfile' \in 0..MaxFile /\ program' \in Programs
          /\ data' \in [Pipe -> Seq(Byte)] /\ got' \in [Pipe -> Seq(Byte)]
      BY <1>3 DEF CountInv, DescriptorTypes
    <2>4. eof' \in 0..MaxPipe
      BY <1>3, DescriptorsAssumption
    <2> HIDE DEF t, q
    <2> QED BY <1>2, <1>3, <1>6, <2>1, <2>2, <2>3, <2>4, ZenonT(40) DEF DescriptorTypes
  <1>8. Unborn'
    <2>1. \A r \in 1..ntask' : table'[r] \in 1..ntask'
      BY <1>1, <1>2, <1>3, SMTT(20), SMTT(30), Zenon DEF CountInv, Unborn, DescriptorTypes, Task
    <2>2. \A r \in Task, fd \in FD : r > q => fds'[r][fd] = None
      BY <1>1, <1>3, SMTT(20), SMTT(30), Zenon DEF CountInv, Unborn, Task
    <2>3. \A r \in Task : r > q => table'[r] = r
      BY <1>1, <1>2, <1>3, SMTT(30) DEF CountInv, Unborn, DescriptorTypes, Task
    <2> QED BY <1>3, <2>1, <2>2, <2>3, ZenonT(60) DEF Unborn
  <1>9. Unmade'
    BY <1>3, <1>4, <1>5, ZenonT(60) DEF CountInv, Unmade
  <1>10. CountsAreExact'
    <2> SUFFICES ASSUME NEW i \in Pipe, NEW e \in End
                 PROVE  refs'[i][e] = Cardinality(Entries(i, e)') + lost'[i][e]
      BY DEF CountsAreExact
    <2>1. refs[i][e] = Cardinality(Entries(i, e)) + lost[i][e] /\ lost[i][e] \in Nat
      BY DEF CountInv, CountsAreExact, DescriptorTypes
    <2>2. Entries(i, e) \in SUBSET (Task \X FD)
      BY DEF Entries
    <2>3. Cardinality(Entries(i, e)) \in Nat
      BY <2>2, Finite
    <2> DEFINE c == Cardinality(Ends(t, FD, i, e))
               n == Cardinality(Entries(i, e))
               r == refs[i][e]
               l == lost[i][e]
    <2>4. refs'[i][e] = r + c /\ lost'[i][e] = l + c /\ c \in Nat
      BY <1>4, Zenon
    <2>5. Cardinality(Entries(i, e)') = n
      BY <1>5, Zenon
    <2>6. r = n + l /\ l \in Nat /\ n \in Nat
      BY <2>1, <2>3, Zenon
    <2> HIDE DEF t, c, n, r, l
    <2>7. r + c = n + (l + c)
      BY <2>4, <2>6
    <2> QED BY <2>4, <2>5, <2>7, Zenon
  <1>11. \A i \in Pipe : Writable(i)' => Writable(i)
    BY <1>3, <1>4, <1>5, Zenon DEF Writable, End
  <1> QED BY <1>3, <1>7, <1>8, <1>9, <1>10, <1>11, ZenonT(40) DEF TableCall, CountInv

-----------------------------------------------------------------------------
(* Pipes and the programs that use them.                                   *)

(* No pipe holds more than its capacity, and a call that just saw the end  *)
(* of a pipe leaves it empty, with no write end anywhere.                  *)
EndInv ==
    /\ \A i \in Pipe : Len(data[i]) <= Capacity
    /\ eof # 0 => data[eof] = <<>> /\ ~Writable(eof)

(* A program without threads whose tasks end by exit: nothing is cloned    *)
(* and dropped, every task has a table of its own, no signal is pending,   *)
(* and the table of a task that ended is empty.                            *)
Calm == program.calls \cap {"clone", "kill", "write", "writev"} = {}
CalmInv ==
    Calm => /\ lost = [i \in Pipe |-> [e \in End |-> 0]]
            /\ table = [p \in Task |-> p]
            /\ pending = {}
            /\ \A p \in Task : block[p].end # "write"
            /\ \A p \in Task \ alive, fd \in FD : fds[p][fd] = None

-----------------------------------------------------------------------------
(* What a call that works on a pipe does: it leaves the tables and counts  *)
(* alone and either moves nothing, or reads from a pipe it need not wait   *)
(* for, or writes through an entry for a write end.                        *)
PipeCall ==
    /\ UNCHANGED <<program, ntask, table, fds, closedFDs, fdCloexec, refs, npipe, nfile, lost>>
    /\ alive' \subseteq alive
    /\ block' \in [Task -> Record] /\ pending' \subseteq Task
    /\ \/ NoEffect
       \/ \E i \in Pipe, size \in Size : i <= npipe /\ ~ReadWouldBlock(i) /\ PipeRead(i, size)
       \/ \E i \in Pipe, src \in Seq(Byte) : Entries(i, "write") # {} /\ PipeWrite(i, src)

(* An entry that is an end of a pipe: the pipe exists and has that entry.  *)
LEMMA EntryOfPipe ==
    ASSUME CountInv, NEW t \in Task, NEW fd \in FD, NEW e \in End, fds[t][fd].kind = "pipe", fds[t][fd].end = e
    PROVE  LET i == fds[t][fd].id IN i \in Pipe /\ i <= npipe /\ Entries(i, e) # {}
  <1> DEFINE h == fds[t][fd]
  <1>1. h \in Handle
    BY DEF CountInv, DescriptorTypes
  <1>2. h.id \in Pipe /\ h = PipeHandle(h.id, e)
    BY <1>1, HandleCases
  <1>3. Entries(h.id, e) # {}
    BY <1>2, NoEntry, Zenon
  <1>4. ~(h.id > npipe)
    BY <1>2, <1>3 DEF CountInv, Unmade
  <1>5. npipe \in Nat /\ h.id \in Nat
    BY <1>2, DescriptorsAssumption, SMTT(20), SMTT(30), Zenon DEF CountInv, DescriptorTypes, Pipe
  <1> HIDE DEF h
  <1>6. h.id \in Pipe /\ h.id <= npipe /\ Entries(h.id, e) # {}
    BY <1>2, <1>3, <1>4, <1>5
  <1> QED BY <1>6 DEF h

(* read, and what the caller waits for when there is nothing yet.          *)
LEMMA ReadCall ==
    ASSUME CountInv, NEW p, NEW fd \in FD, NEW size \in Size, Read(p, fd, size), program' = program
    PROVE  PipeCall
  <1> DEFINE h == fds[table[p]][fd]
  <1>1. p \in Task /\ table[p] \in Task
    BY Caller, Zenon DEF Read, CanCall
  <1>2. KeepTables /\ block \in [Task -> Record] /\ pending \subseteq Task
    BY Zenon DEF Read, CountInv, DescriptorTypes
  <1>3. CASE h.kind = "pipe" /\ h.end = "read"
    <2>1. h.id \in Pipe /\ h.id <= npipe
      BY <1>1, <1>3, EntryOfPipe DEF End
    <2>2. CASE ReadWouldBlock(h.id)
      <3>1. Suspend(p, fd, "read", <<>>)
        BY <1>3, <2>2, ZenonT(40) DEF Read
      <3>2. [fd |-> fd, end |-> "read", data |-> <<>>] \in Record
        <4>1. <<>> \in Seq(Byte)
          OBVIOUS
        <4> QED BY <4>1, ZenonT(40) DEF Record, End
      <3>3. block' \in [Task -> Record] /\ pending' = pending /\ NoEffect
        BY <1>1, <1>2, <3>1, <3>2 DEF Suspend, NoEffect
      <3> QED BY <1>2, <3>3, Zenon DEF PipeCall, KeepTables
    <2>3. CASE ~ReadWouldBlock(h.id)
      <3>1. PipeRead(h.id, size) /\ UNCHANGED <<block, pending>>
        BY <1>3, <2>3, Zenon DEF Read
      <3> HIDE DEF h
      <3> QED BY <1>2, <2>1, <2>3, <3>1 DEF PipeCall, KeepTables
    <2> QED BY <2>2, <2>3, ZenonT(40)
  <1>4. CASE ~(h.kind = "pipe" /\ h.end = "read")
    <2>1. NoEffect /\ UNCHANGED <<block, pending>>
      BY <1>4, Zenon DEF Read
    <2> QED BY <1>2, <2>1 DEF PipeCall, KeepTables
  <1> QED BY <1>3, <1>4, Zenon

(* write, with the SIGPIPE of a pipe that has no reader.                   *)
LEMMA WriteCall ==
    ASSUME CountInv, NEW p, NEW fd \in FD, NEW src \in Chunk, Write(p, fd, src), program' = program
    PROVE  PipeCall
  <1> DEFINE h == fds[table[p]][fd]
  <1>1. p \in Task /\ table[p] \in Task /\ src \in Seq(Byte)
    BY Caller, DescriptorsAssumption, Zenon DEF Write, CanCall
  <1>2. KeepTables /\ block \in [Task -> Record] /\ pending \subseteq Task
    BY DEF Write, CountInv, DescriptorTypes
  <1>3. CASE h.kind = "pipe" /\ h.end = "write"
    <2>1. h.id \in Pipe /\ Entries(h.id, "write") # {}
      BY <1>1, <1>3, EntryOfPipe DEF End
    <2>2. CASE WriteWouldBlock(h.id, src)
      <3>1. Suspend(p, fd, "write", src)
        BY <1>3, <2>2, ZenonT(40) DEF Write
      <3>2. [fd |-> fd, end |-> "write", data |-> src] \in Record
        BY <1>1, ZenonT(40) DEF Record, End
      <3>3. block' \in [Task -> Record] /\ pending' = pending /\ NoEffect
        BY <1>1, <1>2, <3>1, <3>2, ZenonT(40) DEF Suspend, NoEffect
      <3> QED BY <1>2, <3>3 DEF PipeCall, KeepTables
    <2>3. CASE ~WriteWouldBlock(h.id, src) /\ BrokenPipe(h.id, src)
      <3>1. NoEffect /\ pending' = pending \cup {p} /\ block' = block
        BY <1>3, <2>3, Zenon DEF Write
      <3> QED BY <1>1, <1>2, <3>1, Zenon DEF PipeCall, KeepTables
    <2>4. CASE ~WriteWouldBlock(h.id, src) /\ ~BrokenPipe(h.id, src)
      <3>1. PipeWrite(h.id, src) /\ UNCHANGED <<block, pending>>
        BY <1>3, <2>4, Zenon DEF Write
      <3> HIDE DEF h
      <3> QED BY <1>1, <1>2, <2>1, <3>1, Zenon DEF PipeCall, KeepTables
    <2> QED BY <2>2, <2>3, <2>4, ZenonT(40)
  <1>4. CASE ~(h.kind = "pipe" /\ h.end = "write")
    <2>1. NoEffect /\ UNCHANGED <<block, pending>>
      BY <1>4, Zenon DEF Write
    <2> QED BY <1>2, <2>1 DEF PipeCall, KeepTables
  <1> QED BY <1>3, <1>4, Zenon

(* The retry of a blocked call, through whatever its number stands for.    *)
LEMMA ResumeCall ==
    ASSUME CountInv, NEW p, NEW size \in Size, Resume(p, size), program' = program
    PROVE  PipeCall
  <1> DEFINE h == fds[table[p]][block[p].fd]
             src == block[p].data
  <1>1. p \in Task /\ table[p] \in Task
    BY Caller, Zenon DEF Resume
  <1>2. block[p] \in Record
    BY <1>1 DEF CountInv, DescriptorTypes
  <1>3. block[p].fd \in FD /\ src \in Seq(Byte)
    BY <1>2, Zenon DEF Record
  <1>4. KeepTables /\ pending \subseteq Task /\ block' \in [Task -> Record]
    <2>0. 0 \in FD /\ <<>> \in Seq(Byte)
      BY DescriptorsAssumption DEF FD
    <2>1. NoBlock \in Record
      BY <2>0 DEF NoBlock, Record
    <2>2. block' = [block EXCEPT ![p] = NoBlock] /\ block \in [Task -> Record]
      BY Zenon DEF Resume, CountInv, DescriptorTypes
    <2>3. block' \in [Task -> Record]
      BY <1>1, <2>1, <2>2, Zenon
    <2> QED BY <2>3, Zenon DEF Resume, CountInv, DescriptorTypes
  <1>5. CASE h.kind # "pipe" \/ h.end # block[p].end
    <2>1. NoEffect /\ pending' = pending
      BY <1>5, Zenon DEF Resume
    <2> QED BY <1>4, <2>1 DEF PipeCall, KeepTables
  <1>6. CASE h.kind = "pipe" /\ h.end = block[p].end /\ h.end = "read"
    <2>1. h.id \in Pipe /\ h.id <= npipe
      BY <1>1, <1>3, <1>6, EntryOfPipe, Zenon DEF End
    <2>2. ~ReadWouldBlock(h.id) /\ PipeRead(h.id, size) /\ pending' = pending
      BY <1>6, Zenon DEF Resume
    <2> HIDE DEF h
    <2> QED BY <1>4, <2>1, <2>2 DEF PipeCall, KeepTables
  <1>7. CASE h.kind = "pipe" /\ h.end = block[p].end /\ h.end # "read"
    <2>1. h \in Handle
      BY <1>1, <1>3 DEF CountInv, DescriptorTypes
    <2>2. h.end = "write"
      BY <1>7, <2>1, HandleCases, Zenon DEF End
    <2>3. h.id \in Pipe /\ Entries(h.id, "write") # {}
      BY <1>1, <1>3, <1>7, <2>2, EntryOfPipe, ZenonT(40) DEF End
    <2>4. CASE BrokenPipe(h.id, src)
      <3>1. NoEffect /\ pending' = pending \cup {p}
        BY <1>7, <2>4, Zenon DEF Resume
      <3> QED BY <1>1, <1>4, <3>1 DEF PipeCall, KeepTables
    <2>5. CASE ~BrokenPipe(h.id, src)
      <3>1. PipeWrite(h.id, src) /\ pending' = pending
        BY <1>7, <2>5, Zenon DEF Resume
      <3> HIDE DEF h, src
      <3> QED BY <1>3, <1>4, <2>3, <3>1 DEF PipeCall, KeepTables
    <2> QED BY <2>4, <2>5
  <1> QED BY <1>5, <1>6, <1>7, Zenon

(* readv.                                                                  *)
LEMMA ReadvCall ==
    ASSUME CountInv, NEW p, NEW fd \in FD, NEW size \in Size, NEW more \in BOOLEAN, Readv(p, fd, size, more),
           program' = program
    PROVE  PipeCall
  <1> DEFINE h == fds[table[p]][fd]
             reads == h.kind = "pipe" /\ h.end = "read"
  <1>1. p \in Task /\ table[p] \in Task
    BY Caller, Zenon DEF Readv, CanCall
  <1>2. KeepTables /\ block' \in [Task -> Record] /\ pending' \subseteq Task
    BY DEF Readv, CountInv, DescriptorTypes
  <1>3. CASE reads /\ ~ReadWouldBlock(h.id)
    <2>1. h.id \in Pipe /\ h.id <= npipe
      BY <1>1, <1>3, EntryOfPipe, ZenonT(40) DEF End
    <2>2. PipeRead(h.id, size)
      BY <1>3 DEF Readv
    <2> HIDE DEF h
    <2> QED BY <1>2, <1>3, <2>1, <2>2 DEF PipeCall, KeepTables
  <1>4. CASE ~(reads /\ ~ReadWouldBlock(h.id))
    <2>1. NoEffect
      BY <1>4, Zenon DEF Readv
    <2> QED BY <1>2, <2>1, Zenon DEF PipeCall, KeepTables
  <1> QED BY <1>3, <1>4, ZenonT(40)

(* writev.                                                                 *)
LEMMA WritevCall ==
    ASSUME CountInv, NEW p, NEW fd \in FD, NEW src \in Chunk, Writev(p, fd, src), program' = program
    PROVE  PipeCall
  <1> DEFINE h == fds[table[p]][fd]
             writes == h.kind = "pipe" /\ h.end = "write" /\ fd \notin Std \ {0}
  <1>1. p \in Task /\ table[p] \in Task /\ src \in Seq(Byte)
    BY Caller, DescriptorsAssumption, Zenon DEF Writev, CanCall
  <1>2. KeepTables /\ block' \in [Task -> Record] /\ pending \subseteq Task
    BY DEF Writev, CountInv, DescriptorTypes
  <1>3. CASE writes /\ ~BrokenPipe(h.id, src)
    <2>1. h.id \in Pipe /\ Entries(h.id, "write") # {}
      BY <1>1, <1>3, EntryOfPipe, Zenon DEF End
    <2>2. PipeWrite(h.id, src) /\ pending' = pending
      BY <1>3, Zenon DEF Writev
    <2> HIDE DEF h
    <2> QED BY <1>1, <1>2, <2>1, <2>2, Zenon DEF PipeCall, KeepTables
  <1>4. CASE ~(writes /\ ~BrokenPipe(h.id, src))
    <2>1. NoEffect /\ (pending' = pending \/ pending' = pending \cup {p})
      BY <1>4, Zenon DEF Writev
    <2> QED BY <1>1, <1>2, <2>1, Zenon DEF PipeCall, KeepTables
  <1> QED BY <1>3, <1>4, Zenon

(* kill, and the signal taken by Process.Step.                             *)
LEMMA SignalCall ==
    ASSUME CountInv, NEW p, NEW handled \in BOOLEAN, Kill(p) \/ TakeSignal(p, handled), program' = program
    PROVE  PipeCall
  <1>1. block \in [Task -> Record] /\ pending \subseteq Task
    BY DEF CountInv, DescriptorTypes
  <1>2. CASE Kill(p)
    <2>1. p \in Task
      BY <1>2, Caller DEF Kill, CanCall
    <2> QED BY <1>1, <1>2, <2>1 DEF Kill, KeepTables, PipeCall, NoEffect
  <1>3. CASE TakeSignal(p, handled)
    BY <1>1, <1>3 DEF TakeSignal, KeepPipes, PipeCall, NoEffect
  <1> QED BY <1>2, <1>3

-----------------------------------------------------------------------------
(* Bytes put behind bytes are a queue of bytes.                            *)
LEMMA JoinedQueue ==
  ASSUME NEW q \in Seq(Byte), NEW d \in Seq(Byte)
  PROVE  q \o d \in Seq(Byte) /\ Len(q \o d) = Len(q) + Len(d)
OBVIOUS

(* Queues of one length with the same bytes are one queue.                 *)
LEMMA SameQueue ==
  ASSUME NEW q \in Seq(Byte), NEW d \in Seq(Byte), Len(d) = Len(q), \A k \in 1..Len(q) : d[k] = q[k]
  PROVE  d = q
OBVIOUS

(* A queue with nothing put behind it or before it stays what it is.       *)
LEMMA NothingAdded ==
  ASSUME NEW q \in Seq(Byte)
  PROVE  q \o <<>> = q /\ <<>> \o q = q
OBVIOUS

(* A pipe's bytes, cut in two, make up the same bytes again.               *)
LEMMA CutQueue ==
  ASSUME NEW q \in Seq(Byte), NEW n \in 0..Len(q)
  PROVE  /\ SubSeq(q, 1, n) \in Seq(Byte)
         /\ SubSeq(q, n + 1, Len(q)) \in Seq(Byte)
         /\ SubSeq(q, 1, n) \o SubSeq(q, n + 1, Len(q)) = q
         /\ Len(SubSeq(q, 1, n)) = n
<1>1. \A i \in 1..Len(q) : q[i] \in Byte
  OBVIOUS
<1>2. n \in Nat /\ Len(q) \in Nat /\ n <= Len(q)
  OBVIOUS
<1>3. SubSeq(q, 1, n) \in Seq(Byte) /\ Len(SubSeq(q, 1, n)) = n
  BY <1>1, <1>2
<1>4. SubSeq(q, n + 1, Len(q)) \in Seq(Byte)
  BY <1>1, <1>2
<1>5. SubSeq(q, 1, n) \o SubSeq(q, n + 1, Len(q)) = q
  <2> DEFINE a == SubSeq(q, 1, n)
             b == SubSeq(q, n + 1, Len(q))
  <2>1. /\ a \in Seq(Byte) /\ Len(a) = n /\ \A k \in 1..n : a[k] = q[k]
        /\ b \in Seq(Byte) /\ Len(b) = Len(q) - n /\ \A k \in 1..Len(q) - n : b[k] = q[n + k]
    BY <1>1, <1>2
  <2> HIDE DEF a, b
  <2>2. a \o b \in Seq(Byte) /\ Len(a \o b) = Len(q)
    BY <1>2, <2>1
  <2>3. ASSUME NEW k \in 1..Len(q) PROVE (a \o b)[k] = q[k]
    <3>1. CASE k <= n
      BY <1>2, <2>1, <3>1
    <3>2. CASE k > n
      <4>1. (a \o b)[k] = b[k - n] /\ k - n \in 1..Len(q) - n /\ n + (k - n) = k
        BY <1>2, <2>1, <3>2
      <4>2. b[k - n] = q[n + (k - n)]
        BY <2>1, <4>1, Zenon
      <4> QED BY <4>1, <4>2, Zenon
    <3>3. k <= n \/ k > n
      BY <1>2
    <3> QED BY <3>1, <3>2, <3>3, Zenon
  <2>4. a \o b = q
    BY <2>2, <2>3, SameQueue, Zenon
  <2> QED BY <2>4, Zenon DEF a, b
<1> QED
  BY <1>3, <1>4, <1>5, Zenon

(* Behind what was read from a pipe lies what it holds.                    *)
LEMMA BehindReceived ==
  ASSUME NEW r \in Seq(Byte), NEW q \in Seq(Byte)
  PROVE  /\ r \o q \in Seq(Byte) /\ Len(r \o q) = Len(r) + Len(q) /\ Len(r) \in Nat /\ Len(q) \in Nat
         /\ SubSeq(r \o q, Len(r) + 1, Len(r \o q)) = q
<1>1. r \o q \in Seq(Byte) /\ Len(r \o q) = Len(r) + Len(q) /\ Len(r) \in Nat /\ Len(q) \in Nat
  OBVIOUS
<1>2. CASE q = <<>>
  <2>1. Len(r \o q) < Len(r) + 1
    BY <1>1, <1>2
  <2> QED BY <1>1, <1>2, <2>1
<1>3. CASE q # <<>>
  <2>1. Len(q) > 0
    BY <1>1, <1>3
  <2>2. Len(r) + 1 \in Len(r) + 1 .. Len(r) + Len(q) /\ Len(r \o q) \in Len(r) + 1 .. Len(r) + Len(q)
    BY <1>1, <2>1
  <2>3. SubSeq(r \o q, Len(r) + 1, Len(r \o q)) = SubSeq(q, Len(r) + 1 - Len(r), Len(r \o q) - Len(r))
    BY <2>2
  <2>4. Len(r) + 1 - Len(r) = 1 /\ Len(r \o q) - Len(r) = Len(q)
    BY <1>1
  <2> QED BY <1>1, <2>3, <2>4
<1> QED BY <1>1, <1>2, <1>3

(* A write that stores something extends what was sent.                    *)
LEMMA WriteExtends ==
  ASSUME NEW r \in Seq(Byte), NEW q \in Seq(Byte), NEW d \in Seq(Byte), d # <<>>
  PROVE  /\ Len(r \o (q \o d)) > Len(r \o q)
         /\ SubSeq(r \o (q \o d), 1, Len(r \o q)) = r \o q
<1> DEFINE t == r \o q
<1>1. t \in Seq(Byte) /\ r \o (q \o d) = t \o d
  OBVIOUS
<1> HIDE DEF t
<1>2. Len(t \o d) = Len(t) + Len(d) /\ Len(t) \in Nat /\ Len(d) \in Nat /\ Len(d) > 0
  BY <1>1
<1>3. SubSeq(t \o d, 1, Len(t)) = t
  <2>1. CASE t = <<>>
    BY <1>2, <2>1
  <2>2. CASE t # <<>>
    <3>1. 1 \in 1..Len(t) /\ Len(t) \in 1..Len(t)
      BY <1>1, <1>2, <2>2
    <3> QED BY <1>1, <3>1
  <2> QED BY <2>1, <2>2
<1> QED BY <1>1, <1>2, <1>3 DEF t

(* Three pieces in a row.                                                  *)
LEMMA Regroup ==
  ASSUME NEW x \in Seq(Byte), NEW y \in Seq(Byte), NEW z \in Seq(Byte)
  PROVE  (x \o y) \o z = x \o (y \o z)
<1>1. /\ (x \o y) \o z \in Seq(Byte) /\ x \o (y \o z) \in Seq(Byte)
      /\ Len((x \o y) \o z) = Len(x \o (y \o z))
  OBVIOUS
<1>2. \A i \in 1..Len((x \o y) \o z) : ((x \o y) \o z)[i] = (x \o (y \o z))[i]
  OBVIOUS
<1> QED BY <1>1, <1>2

(* A read moves bytes from the pipe to the reader and loses none.          *)
LEMMA ReadMoves ==
  ASSUME NEW r \in Seq(Byte), NEW q \in Seq(Byte), NEW n \in 1..Len(q)
  PROVE  /\ (r \o SubSeq(q, 1, n)) \o SubSeq(q, n + 1, Len(q)) = r \o q
         /\ Len(r \o SubSeq(q, 1, n)) \in Len(r) + 1 .. Len(r \o q)
<1> DEFINE a == SubSeq(q, 1, n)
           b == SubSeq(q, n + 1, Len(q))
<1>1. n \in 0..Len(q)
  OBVIOUS
<1>2. a \in Seq(Byte) /\ b \in Seq(Byte) /\ a \o b = q /\ Len(a) = n
  BY <1>1, CutQueue
<1> HIDE DEF a, b
<1>3. (r \o a) \o b = r \o q
  <2>1. (r \o a) \o b = r \o (a \o b)
    BY <1>2, Regroup, ZenonT(40)
  <2> QED BY <1>2, <2>1
<1>4. Len(r \o a) = Len(r) + n /\ Len(r \o q) = Len(r) + Len(q) /\ Len(r) \in Nat /\ Len(q) \in Nat
  <2>1. Len(r \o a) = Len(r) + Len(a) /\ Len(r \o q) = Len(r) + Len(q)
    BY <1>2, JoinedQueue, Zenon
  <2>2. Len(r) \in Nat /\ Len(q) \in Nat
    OBVIOUS
  <2> QED BY <1>2, <2>1, <2>2
<1>5. Len(r \o a) \in Len(r) + 1 .. Len(r \o q)
  BY <1>4
<1> QED BY <1>3, <1>5, Zenon DEF a, b

(* A read takes at least one byte unless the pipe is empty.                *)
LEMMA ReadEffect ==
    ASSUME DescriptorTypes, NEW i \in Pipe, NEW size \in Size, PipeRead(i, size)
    PROVE  /\ data' \in [Pipe -> Seq(Byte)] /\ got' \in [Pipe -> Seq(Byte)]
           /\ \A j \in Pipe \ {i} : data'[j] = data[j] /\ got'[j] = got[j]
           /\ data[i] = <<>> => data'[i] = data[i] /\ got'[i] = got[i] /\ eof' = i
           /\ data[i] # <<>> => /\ \E n \in 1..Len(data[i]) : /\ data'[i] = SubSeq(data[i], n + 1, Len(data[i]))
                                                              /\ got'[i] = got[i] \o SubSeq(data[i], 1, n)
                                /\ eof' = 0
           /\ Len(data'[i]) <= Len(data[i])
  <1> DEFINE q == data[i]
             n == Least(size, Len(q))
  <1>0. data \in [Pipe -> Seq(Byte)] /\ got \in [Pipe -> Seq(Byte)] /\ q \in Seq(Byte) /\ got[i] \in Seq(Byte)
    BY DEF DescriptorTypes
  <1>1. size \in Nat /\ size > 0 /\ Len(q) \in Nat
    BY <1>0, DescriptorsAssumption
  <1>2. n \in 0..Len(q) /\ (Len(q) > 0 => n \in 1..Len(q)) /\ (Len(q) = 0 => n = 0)
    BY <1>1 DEF Least
  <1>3. /\ data' = [data EXCEPT ![i] = SubSeq(q, n + 1, Len(q))]
        /\ got' = [got EXCEPT ![i] = got[i] \o SubSeq(q, 1, n)]
        /\ eof' = IF q = <<>> THEN i ELSE 0
    BY <1>0 DEF PipeRead
  <1> HIDE DEF n, q
  <1>4. SubSeq(q, n + 1, Len(q)) \in Seq(Byte) /\ SubSeq(q, 1, n) \in Seq(Byte) /\ Len(SubSeq(q, 1, n)) = n
    BY <1>0, <1>2, CutQueue
  <1>5. data' \in [Pipe -> Seq(Byte)] /\ got' \in [Pipe -> Seq(Byte)]
    <2>1. got[i] \o SubSeq(q, 1, n) \in Seq(Byte)
      BY <1>0, <1>4
    <2> QED BY <1>0, <1>3, <1>4, <2>1
  <1>6. data'[i] = SubSeq(q, n + 1, Len(q)) /\ got'[i] = got[i] \o SubSeq(q, 1, n)
    BY <1>0, <1>3, Zenon
  <1>7. Len(data'[i]) <= Len(q)
    <2>1. Len(SubSeq(q, n + 1, Len(q))) = IF n + 1 <= Len(q) THEN Len(q) - (n + 1) + 1 ELSE 0
      BY <1>0, <1>1, <1>2, SMTT(30)
    <2> QED BY <1>1, <1>2, <1>6, <2>1
  <1>8. CASE q = <<>>
    <2>1. n = 0 /\ Len(q) = 0
      BY <1>2, <1>8
    <2>2. SubSeq(q, n + 1, Len(q)) = <<>> /\ SubSeq(q, 1, n) = <<>>
      BY <1>0, <2>1, <1>8
    <2>3. got'[i] = got[i]
      BY <1>0, <1>6, <2>2, NothingAdded, Zenon
    <2> QED BY <1>0, <1>3, <1>5, <1>6, <1>7, <1>8, <2>2, <2>3, ZenonT(60) DEF q
  <1>9. CASE q # <<>>
    <2>1. n \in 1..Len(q)
      BY <1>0, <1>1, <1>2, <1>9
    <2> QED BY <1>0, <1>3, <1>5, <1>6, <1>7, <1>9, <2>1, ZenonT(60) DEF q
  <1> QED BY <1>8, <1>9, Zenon

(* A write stores a prefix of its bytes, no more than fit.                 *)
LEMMA WriteEffect ==
    ASSUME DescriptorTypes, NEW i \in Pipe, Len(data[i]) <= Capacity, NEW src \in Seq(Byte), PipeWrite(i, src)
    PROVE  /\ data' \in [Pipe -> Seq(Byte)] /\ got' = got /\ eof' = 0
           /\ \A j \in Pipe \ {i} : data'[j] = data[j]
           /\ \E d \in Seq(Byte) : data'[i] = data[i] \o d
           /\ Len(data'[i]) <= Capacity
  <1> DEFINE q == data[i]
             n == Least(Len(src), Capacity - Len(q))
             d == SubSeq(src, 1, n)
  <1>0. data \in [Pipe -> Seq(Byte)] /\ q \in Seq(Byte)
    BY DEF DescriptorTypes
  <1>1. n \in 0..Len(src) /\ n <= Capacity - Len(q) /\ Len(q) \in Nat /\ Capacity \in Nat
    BY <1>0, DescriptorsAssumption DEF Least
  <1>2. data' = [data EXCEPT ![i] = q \o d] /\ got' = got /\ eof' = 0
    BY <1>0 DEF PipeWrite
  <1> HIDE DEF n, q
  <1>3. d \in Seq(Byte) /\ Len(d) = n
    BY <1>1, CutQueue
  <1> HIDE DEF d
  <1>4. q \o d \in Seq(Byte) /\ Len(q \o d) = Len(q) + n
    BY <1>0, <1>3, JoinedQueue, Zenon
  <1>5. Len(q \o d) <= Capacity
    BY <1>1, <1>4
  <1>6. data' \in [Pipe -> Seq(Byte)] /\ data'[i] = q \o d
    BY <1>0, <1>2, <1>4
  <1> QED BY <1>0, <1>2, <1>3, <1>5, <1>6, ZenonT(60) DEF q

(* A read that need not wait and finds a pipe empty: no write end is left. *)
LEMMA EndOfFile ==
    ASSUME CountInv, NEW i \in Pipe, i <= npipe, ~ReadWouldBlock(i), data[i] = <<>>
    PROVE  ~Writable(i)
  <1>1. Entries(i, "write") \in SUBSET (Task \X FD)
    BY DEF Entries
  <1>2. IsFiniteSet(Entries(i, "write")) /\ Cardinality(Entries(i, "write")) \in Nat
    BY <1>1, Finite
  <1>3. refs[i]["write"] = Cardinality(Entries(i, "write")) + lost[i]["write"] /\ lost[i]["write"] \in Nat
    BY DEF CountInv, CountsAreExact, DescriptorTypes, End
  <1>4. ~(refs[i]["write"] > 0)
    BY DEF ReadWouldBlock
  <1>5. Cardinality(Entries(i, "write")) = 0 /\ lost[i]["write"] = 0
    BY <1>2, <1>3, <1>4
  <1>6. Entries(i, "write") = {}
    BY <1>2, <1>5, FS_EmptySet
  <1>7. ~(i > npipe)
    BY DescriptorsAssumption DEF CountInv, DescriptorTypes, Pipe
  <1> QED BY <1>5, <1>6, <1>7 DEF Writable

(* Calls on pipes keep both invariants.                                    *)
LEMMA PipeCallKeeps ==
    ASSUME CountInv, EndInv, PipeCall
    PROVE  CountInv' /\ EndInv'
  <1>1. \A i, e : Entries(i, e)' = Entries(i, e)
    BY Zenon DEF PipeCall, Entries
  <1>2. Unborn' /\ Unmade' /\ CountsAreExact'
    BY <1>1 DEF PipeCall, CountInv, Unborn, Unmade, CountsAreExact
  <1>3. \A i : Writable(i)' = Writable(i)
    BY <1>1, Zenon DEF PipeCall, Writable
  <1>4. \A i \in Pipe : Len(data[i]) <= Capacity /\ Len(data[i]) \in Nat
    BY DEF EndInv, CountInv, DescriptorTypes
  <1> DEFINE Goal == /\ data' \in [Pipe -> Seq(Byte)] /\ got' \in [Pipe -> Seq(Byte)] /\ eof' \in 0..MaxPipe
                     /\ \A i \in Pipe : Len(data'[i]) <= Capacity
                     /\ eof' # 0 => data'[eof'] = <<>> /\ ~Writable(eof')
  <1>a. Capacity \in Nat /\ MaxPipe \in Nat /\ 0 \in 0..MaxPipe /\ \A i \in Pipe : i \in 0..MaxPipe
    BY DescriptorsAssumption DEF Pipe
  <1>5. Goal
    <2>1. CASE NoEffect
      BY <1>a, <1>4, <2>1, Zenon DEF NoEffect, CountInv, DescriptorTypes
    <2>2. ASSUME NEW i \in Pipe, NEW size \in Size, i <= npipe, ~ReadWouldBlock(i), PipeRead(i, size)
          PROVE  Goal
      <3>1. /\ data' \in [Pipe -> Seq(Byte)] /\ got' \in [Pipe -> Seq(Byte)]
            /\ \A j \in Pipe \ {i} : data'[j] = data[j]
            /\ data[i] = <<>> => data'[i] = data[i] /\ eof' = i
            /\ data[i] # <<>> => eof' = 0
            /\ Len(data'[i]) <= Len(data[i])
        BY <2>2, ReadEffect DEF CountInv
      <3>2. data[i] = <<>> => ~Writable(i)
        BY <2>2, EndOfFile
      <3>3. Len(data'[i]) \in Nat
        BY <3>1
      <3>4. \A j \in Pipe : Len(data'[j]) <= Capacity
        <4>1. Len(data'[i]) <= Capacity
          BY <1>a, <1>4, <3>1, <3>3, SMTT(20), SMTT(30), Zenon
        <4> QED BY <1>4, <3>1, <4>1, Zenon
      <3>5. eof' \in 0..MaxPipe
        BY <1>a, <3>1
      <3> QED BY <3>1, <3>2, <3>4, <3>5, ZenonT(40)
    <2>3. ASSUME NEW i \in Pipe, NEW src \in Seq(Byte), PipeWrite(i, src)
          PROVE  Goal
      <3>1. /\ data' \in [Pipe -> Seq(Byte)] /\ got' = got /\ eof' = 0
            /\ \A j \in Pipe \ {i} : data'[j] = data[j]
            /\ Len(data'[i]) <= Capacity
        BY <1>4, <2>3, WriteEffect DEF CountInv
      <3>2. \A j \in Pipe : Len(data'[j]) <= Capacity
        BY <1>4, <3>1, Zenon
      <3>3. got' \in [Pipe -> Seq(Byte)]
        BY <3>1, ZenonT(40) DEF CountInv, DescriptorTypes
      <3> QED BY <1>a, <3>1, <3>2, <3>3, SMTT(20), SMTT(30), Zenon
    <2> HIDE DEF Goal
    <2> QED BY <2>1, <2>2, <2>3 DEF PipeCall
  <1>6. DescriptorTypes'
    BY <1>5, SMTT(20), SMTT(30), Zenon DEF PipeCall, CountInv, DescriptorTypes
  <1>7. EndInv'
    BY <1>3, <1>5 DEF EndInv
  <1> QED BY <1>2, <1>6, <1>7, Zenon DEF CountInv

-----------------------------------------------------------------------------
(* Every step of a guest task is a call on tables or a call on pipes.      *)
LEMMA EveryCall ==
    ASSUME CountInv, Next
    PROVE  TableCall \/ PipeCall
  <1>1. program' = program
    BY DEF Next
  <1>2. PICK p \in Task : \/ Call(p)
                          \/ \E size \in Size : Resume(p, size)
                          \/ \E handled \in BOOLEAN : TakeSignal(p, handled)
    BY DEF Next
  <1>3. CASE \E size \in Size : Resume(p, size)
    BY <1>1, <1>3, ResumeCall
  <1>4. CASE \E handled \in BOOLEAN : TakeSignal(p, handled)
    BY <1>1, <1>4, SignalCall
  <1>5. CASE Call(p)
    <2>1. CASE \E fd \in FD : Close(p, fd)
      BY <1>1, <2>1, CloseCall
    <2>2. CASE \E old, new \in FD, cloexec \in BOOLEAN : Dup(p, old, new, cloexec)
      BY <1>1, <2>2, DupCall
    <2>3. CASE \E fd \in FD, on \in BOOLEAN : FcntlSetFD(p, fd, on)
      BY <1>1, <2>3, FcntlSetFDCall
    <2>4. CASE \E fd \in FD, on \in BOOLEAN, start \in FD : FcntlDup(p, fd, start, on)
      BY <1>1, <2>4, FcntlDupCall
    <2>5. CASE \E fd \in FD, size \in Size : Read(p, fd, size)
      BY <1>1, <2>5, ReadCall
    <2>6. CASE \E fd \in FD, src \in Chunk : Write(p, fd, src)
      BY <1>1, <2>6, WriteCall
    <2>7. CASE \E fd \in FD, size \in Size, more \in BOOLEAN : Readv(p, fd, size, more)
      BY <1>1, <2>7, ReadvCall, SMTT(20), SMTT(30), Zenon
    <2>8. CASE \E fd \in FD, src \in Chunk : Writev(p, fd, src)
      BY <1>1, <2>8, WritevCall
    <2>9. CASE Open(p)
      BY <1>1, <2>9, OpenCall
    <2>10. CASE \E flags \in SUBSET program.flags, stored \in BOOLEAN : MakePipe(p, flags, stored)
      BY <1>1, <2>10, MakePipeCall, Zenon
    <2>11. CASE Fork(p)
      BY <1>1, <2>11, ForkCall
    <2>12. CASE \E stored \in BOOLEAN : CloneThread(p, stored)
      BY <1>1, <2>12, CloneCall, ZenonT(60)
    <2>13. CASE Exec(p)
      BY <1>1, <2>13, ExecCall
    <2>14. CASE Exit(p)
      BY <1>1, <2>14, ExitCall
    <2>15. CASE Kill(p)
      BY <1>1, <2>15, SignalCall, Zenon
    <2> QED BY <1>5, <2>1, <2>2, <2>3, <2>4, <2>5, <2>6, <2>7, <2>8, <2>9, <2>10, <2>11, <2>12, <2>13, <2>14, <2>15, ZenonT(60) DEF Call
  <1> QED BY <1>2, <1>3, <1>4, <1>5

(* Initially there is one task, with an empty table, and no pipe.          *)
LEMMA InitCounts == Init => CountInv /\ EndInv
  <1> SUFFICES ASSUME Init PROVE CountInv /\ EndInv
    OBVIOUS
  <1>0. /\ MaxTask \in Nat \ {0} /\ MaxPipe \in Nat /\ MaxFile \in Nat /\ Capacity \in Nat /\ MaxFD \in Nat
        /\ 1 \in Task
    BY DescriptorsAssumption, SMTT(30) DEF Task
  <1>1. None \in Handle /\ NoBlock \in Record
    BY <1>0 DEF Handle, NoBlock, Record, FD
  <1>2. DescriptorTypes
    BY <1>0, <1>1, SMTT(20), SMTT(30), Zenon DEF Init, DescriptorTypes
  <1>3. \A i, e : Entries(i, e) = {}
    BY HandlesDiffer DEF Init, Entries
  <1>4. Unborn /\ Unmade /\ CountsAreExact
    <2>1. Unborn
      BY <1>0 DEF Init, Unborn, Task
    <2>2. Unmade
      BY <1>3 DEF Init, Unmade
    <2>3. CountsAreExact
      <3>1. \A i \in Pipe, e \in End : refs[i][e] = 0 /\ lost[i][e] = 0 /\ Cardinality(Entries(i, e)) = 0
        BY <1>3, FS_EmptySet, Zenon DEF Init
      <3> QED BY <3>1 DEF CountsAreExact
    <2> QED BY <2>1, <2>2, <2>3, Zenon
  <1>5. EndInv
    BY <1>0 DEF Init, EndInv
  <1> QED BY <1>2, <1>4, <1>5 DEF CountInv

(* Every step keeps the counts and what is known at the end of a pipe.     *)
LEMMA CountsStep == CountInv /\ EndInv /\ [Next]_vars => CountInv' /\ EndInv'
  <1> SUFFICES ASSUME CountInv, EndInv, [Next]_vars PROVE CountInv' /\ EndInv'
    OBVIOUS
  <1>1. CASE UNCHANGED vars
    <2>1. \A i, e : Entries(i, e)' = Entries(i, e)
      BY <1>1, Zenon DEF vars, Entries
    <2>2. DescriptorTypes' /\ Unborn' /\ Unmade' /\ CountsAreExact'
      BY <1>1, <2>1, Zenon DEF vars, CountInv, DescriptorTypes, Unborn, Unmade, CountsAreExact
    <2>3. EndInv'
      BY <1>1, <2>1, Zenon DEF vars, EndInv, Writable
    <2> QED BY <2>2, <2>3 DEF CountInv
  <1>2. CASE TableCall
    BY <1>2 DEF TableCall, EndInv
  <1>3. CASE PipeCall
    BY <1>3, PipeCallKeeps
  <1> QED BY <1>1, <1>2, <1>3, EveryCall

(* The invariant of the counts.                                            *)
LEMMA CountsInvariant == Spec => [](CountInv /\ EndInv)
  BY InitCounts, CountsStep, PTL DEF Spec

(* However many tasks, descriptors and pipes there are, and whatever the   *)
(* tasks call in whatever order, the reader and writer counts of every     *)
(* pipe are exactly its entries in the tables plus what CloneForThread     *)
(* counted for copies it dropped.                                          *)
THEOREM CountsExact == Spec => []CountsAreExact
  <1>1. CountInv /\ EndInv => CountsAreExact
    BY DEF CountInv
  <1> QED BY <1>1, CountsInvariant, PTL

-----------------------------------------------------------------------------
(* One step of the kernel is a step of the first pipe's stream.            *)
LEMMA FirstPipeStep ==
    ASSUME CountInv, EndInv, [Next]_vars
    PROVE  [FirstPipe!Next]_<<got[1] \o data[1], Len(got[1]), Writable(1), eof = 1>>
  <1> DEFINE r == got[1]
             q == data[1]
  <1>0. 1 \in Pipe /\ r \in Seq(Byte) /\ q \in Seq(Byte)
    BY DescriptorsAssumption DEF CountInv, DescriptorTypes, Pipe
  <1>1. SubSeq(r \o q, Len(r) + 1, Len(r \o q)) = q
    BY <1>0, BehindReceived, Zenon
  <1>2. FirstPipe!Buffered = q
    BY <1>1, Zenon DEF FirstPipe!Buffered
  <1>3. Writable(1) \in BOOLEAN /\ Writable(1)' \in BOOLEAN
    BY DEF Writable
  <1>4. CASE UNCHANGED vars
    <2>1. Writable(1)' = Writable(1)
      BY <1>4, Zenon DEF vars, Writable, Entries
    <2> QED BY <1>4, <2>1, Zenon DEF vars
  <1>5. CASE TableCall
    <2>1. got'[1] = r /\ data'[1] = q /\ eof' = 0 /\ (Writable(1)' => Writable(1))
      BY <1>0, <1>5 DEF TableCall
    <2>2. CASE eof = 1
      <3>1. ~Writable(1)
        BY <2>2 DEF EndInv
      <3>2. Writable(1)' = Writable(1)
        BY <1>3, <2>1, <3>1, Zenon
      <3>3. FirstPipe!Again
        BY <2>1, <2>2, <3>2 DEF FirstPipe!Again
      <3> QED BY <3>3 DEF FirstPipe!Next
    <2>3. CASE eof # 1 /\ Writable(1) /\ ~Writable(1)'
      <3>1. FirstPipe!Shut
        BY <2>1, <2>3 DEF FirstPipe!Shut
      <3> QED BY <3>1 DEF FirstPipe!Next
    <2>4. CASE eof # 1 /\ Writable(1)' = Writable(1)
      BY <2>1, <2>4
    <2> QED BY <1>3, <2>1, <2>2, <2>3, <2>4, SMTT(20), SMTT(30), Zenon
  <1>6. CASE PipeCall
    <2>0. Writable(1)' = Writable(1)
      BY <1>6, Zenon DEF PipeCall, Writable, Entries
    <2>1. ASSUME got'[1] = r, data'[1] = q, eof' # 1
          PROVE  [FirstPipe!Next]_<<got[1] \o data[1], Len(got[1]), Writable(1), eof = 1>>
      <3>1. CASE eof = 1
        <4>1. FirstPipe!Again
          BY <2>0, <2>1, <3>1 DEF FirstPipe!Again
        <4> QED BY <4>1 DEF FirstPipe!Next
      <3>2. CASE eof # 1
        BY <2>0, <2>1, <3>2
      <3> QED BY <3>1, <3>2, Zenon
    <2>2. CASE NoEffect
      BY <2>1, <2>2 DEF NoEffect
    <2>3. ASSUME NEW i \in Pipe, NEW size \in Size, i <= npipe, ~ReadWouldBlock(i), PipeRead(i, size)
          PROVE  [FirstPipe!Next]_<<got[1] \o data[1], Len(got[1]), Writable(1), eof = 1>>
      <3>1. /\ \A j \in Pipe \ {i} : data'[j] = data[j] /\ got'[j] = got[j]
            /\ data[i] = <<>> => data'[i] = data[i] /\ got'[i] = got[i] /\ eof' = i
            /\ data[i] # <<>> => /\ \E n \in 1..Len(data[i]) : /\ data'[i] = SubSeq(data[i], n + 1, Len(data[i]))
                                                               /\ got'[i] = got[i] \o SubSeq(data[i], 1, n)
                                 /\ eof' = 0
        BY <2>3, ReadEffect, Zenon DEF CountInv
      <3>2. CASE i # 1
        <4>1. got'[1] = r /\ data'[1] = q /\ eof' # 1
          <5>1. 1 \in Pipe \ {i}
            BY <1>0, <3>2
          <5>2. data'[1] = q /\ got'[1] = r
            BY <3>1, <5>1, Zenon
          <5>3. eof' = i \/ eof' = 0
            BY <3>1, Zenon
          <5> QED BY <3>2, <5>2, <5>3
        <4> QED BY <2>1, <4>1
      <3>3. CASE i = 1 /\ q = <<>>
        <4>1. ~Writable(1)
          BY <2>3, <3>3, EndOfFile
        <4>2. FirstPipe!End
          BY <1>2, <2>0, <3>1, <3>3, <4>1, Zenon DEF FirstPipe!End, NonEmpty
        <4> QED BY <4>2 DEF FirstPipe!Next
      <3>4. CASE i = 1 /\ q # <<>>
        <4>1. PICK n \in 1..Len(q) : data'[1] = SubSeq(q, n + 1, Len(q)) /\ got'[1] = r \o SubSeq(q, 1, n)
          BY <3>1, <3>4, Zenon
        <4>2. /\ (r \o SubSeq(q, 1, n)) \o SubSeq(q, n + 1, Len(q)) = r \o q
              /\ Len(r \o SubSeq(q, 1, n)) \in Len(r) + 1 .. Len(r \o q)
          BY <1>0, ReadMoves, Zenon
        <4>3. eof # 1 /\ eof' # 1
          BY <3>1, <3>4 DEF EndInv
        <4>4. FirstPipe!Take
          BY <1>2, <2>0, <3>4, <4>1, <4>2, <4>3, Zenon DEF FirstPipe!Take, NonEmpty
        <4> QED BY <4>4 DEF FirstPipe!Next
      <3> QED BY <3>2, <3>3, <3>4, Zenon
    <2>4. ASSUME NEW i \in Pipe, NEW src \in Seq(Byte), Entries(i, "write") # {}, PipeWrite(i, src)
          PROVE  [FirstPipe!Next]_<<got[1] \o data[1], Len(got[1]), Writable(1), eof = 1>>
      <3>1. /\ got' = got /\ eof' = 0 /\ \A j \in Pipe \ {i} : data'[j] = data[j]
            /\ \E d \in Seq(Byte) : data'[i] = data[i] \o d
        <4>1. Len(data[i]) <= Capacity
          BY DEF EndInv
        <4> QED BY <2>4, <4>1, WriteEffect, Zenon DEF CountInv
      <3>2. CASE i # 1
        <4>1. got'[1] = r /\ data'[1] = q /\ eof' # 1
          BY <1>0, <3>1, <3>2
        <4> QED BY <2>1, <4>1, Zenon
      <3>3. CASE i = 1
        <4>1. PICK d \in Seq(Byte) : data'[1] = q \o d
          BY <3>1, <3>3, Zenon
        <4>2. CASE d = <<>>
          <5>1. data'[1] = q
            BY <1>0, <4>1, <4>2, NothingAdded
          <5> QED BY <2>1, <3>1, <5>1
        <4>3. CASE d # <<>>
          <5>1. Len(r \o (q \o d)) > Len(r \o q) /\ SubSeq(r \o (q \o d), 1, Len(r \o q)) = r \o q
            BY <1>0, <4>1, <4>3, WriteExtends, Zenon
          <5>2. Writable(1)
            BY <2>4, <3>3 DEF Writable
          <5>3. eof # 1
            BY <5>2 DEF EndInv
          <5>4. got'[1] = r /\ (eof' = 1) = (eof = 1)
            BY <3>1, <5>3
          <5>5. FirstPipe!Send
            BY <2>0, <4>1, <5>1, <5>2, <5>4, Zenon DEF FirstPipe!Send
          <5> QED BY <5>5 DEF FirstPipe!Next
        <4> QED BY <4>2, <4>3, Zenon
      <3> QED BY <3>2, <3>3, Zenon
    <2> QED BY <1>6, <2>2, <2>3, <2>4, Zenon DEF PipeCall
  <1> QED BY <1>4, <1>5, <1>6, EveryCall, Zenon

(* The first pipe is a byte stream, for any capacity, any bytes and any    *)
(* interleaving of reads, writes, retries, closes, forks and exits: no     *)
(* byte is lost, repeated or moved, and end-of-file is reported only when  *)
(* the pipe is empty and no table has its write end.                       *)
THEOREM PipeIsStream == Spec => FirstPipeIsStream
  <1>1. Init => FirstPipe!Init
    <2> SUFFICES ASSUME Init PROVE FirstPipe!Init
      OBVIOUS
    <2>1. 1 \in Pipe
      BY DescriptorsAssumption DEF Pipe
    <2>2. got[1] = <<>> /\ data[1] = <<>> /\ eof = 0 /\ Writable(1) = TRUE
      BY <2>1 DEF Init, Writable
    <2> QED BY <2>2 DEF FirstPipe!Init
  <1>2. CountInv /\ EndInv /\ [Next]_vars => [FirstPipe!Next]_<<got[1] \o data[1], Len(got[1]), Writable(1), eof = 1>>
    BY FirstPipeStep, Zenon
  <1> QED BY <1>1, <1>2, CountsInvariant, PTL DEF Spec, FirstPipeIsStream, FirstPipe!Spec, FirstPipe!svars

-----------------------------------------------------------------------------
(* In a calm program a call that changes only the caller's own table.      *)
LEMMA CalmOwnTable ==
    ASSUME CalmInv, NEW p, p \in alive, alive' = alive, \A q \in Task : q # p => fds'[q] = fds[q],
           UNCHANGED <<program, lost, table, pending, block>>
    PROVE  CalmInv'
  BY DEF CalmInv, Calm

(* pipe writes into the caller's table only.                               *)
LEMMA MakePipeTable ==
    ASSUME CountInv, NEW p \in Task, NEW flags, NEW stored \in BOOLEAN, MakePipe(p, flags, stored)
    PROVE  \A q \in Task : q # table[p] => fds'[q] = fds[q]
  <1>1. PICK g \in [FD -> Handle] : fds' = [fds EXCEPT ![table[p]] = g]
    BY MakePipeKeeps
  <1>2. fds \in [Task -> [FD -> Handle]]
    BY Zenon DEF CountInv, DescriptorTypes
  <1> QED BY <1>1, <1>2, Zenon

(* The table calls that keep the tasks: they change the caller's table.    *)
LEMMA CalmTableCall ==
    ASSUME CountInv, CalmInv, Calm, NEW p, p \in alive, program' = program,
           \/ \E fd \in FD : Close(p, fd)
           \/ \E old, new \in FD, cloexec \in BOOLEAN : Dup(p, old, new, cloexec)
           \/ \E fd \in FD, on \in BOOLEAN : FcntlSetFD(p, fd, on)
           \/ \E fd \in FD, on \in BOOLEAN, start \in FD : FcntlDup(p, fd, start, on)
           \/ Open(p)
           \/ \E flags \in SUBSET program.flags, stored \in BOOLEAN : MakePipe(p, flags, stored)
           \/ Exec(p)
    PROVE  CalmInv'
  <1>0. p \in Task /\ table[p] = p /\ fds \in [Task -> [FD -> Handle]]
    BY Caller, Zenon DEF CalmInv, CountInv, DescriptorTypes
  <1>1. UNCHANGED <<alive, lost, table, pending, block>>
    BY Zenon DEF Close, Dup, FcntlSetFD, FcntlDup, Open, MakePipe, Exec, KeepTasks, KeepPipes
  <1>2. \A q \in Task : q # p => fds'[q] = fds[q]
    <2>1. CASE \E fd \in FD : Close(p, fd)
      BY <1>0, <2>1, Zenon DEF Close, CloseAll, closeTTY
    <2>2. CASE \E old, new \in FD, cloexec \in BOOLEAN : Dup(p, old, new, cloexec)
      <3>1. PICK new, h : fds' = [fds EXCEPT ![p][new] = h]
        BY <1>0, <2>2, ZenonT(40) DEF Dup, Install
      <3> QED BY <1>0, <3>1, Zenon
    <2>3. CASE \E fd \in FD, on \in BOOLEAN : FcntlSetFD(p, fd, on)
      BY <2>3, Zenon DEF FcntlSetFD
    <2>4. CASE \E fd \in FD, on \in BOOLEAN, start \in FD : FcntlDup(p, fd, start, on)
      <3>1. PICK new, h : fds' = [fds EXCEPT ![p][new] = h]
        BY <1>0, <2>4, Zenon DEF FcntlDup, Install
      <3> QED BY <1>0, <3>1, Zenon
    <2>5. CASE Open(p)
      <3>1. PICK new, h : fds' = [fds EXCEPT ![p][new] = h]
        BY <1>0, <2>5, Zenon DEF Open
      <3> QED BY <1>0, <3>1, Zenon
    <2>6. CASE \E flags \in SUBSET program.flags, stored \in BOOLEAN : MakePipe(p, flags, stored)
      <3>1. PICK flags \in SUBSET program.flags, stored \in BOOLEAN : MakePipe(p, flags, stored)
        BY <2>6, Zenon
      <3>2. \A q \in Task : q # table[p] => fds'[q] = fds[q]
        BY <1>0, <3>1, MakePipeTable, Zenon
      <3> QED BY <1>0, <3>2, Zenon
    <2>7. CASE Exec(p)
      BY <1>0, <2>7, Zenon DEF Exec, CloseCloexec, CloseAll
    <2> QED BY <2>1, <2>2, <2>3, <2>4, <2>5, <2>6, <2>7, Zenon
  <1> QED BY <1>1, <1>2, CalmOwnTable, Zenon

(* read, readv and the retry of a read leave the tables alone; no task     *)
(* waits to write, so no retry raises a signal.                            *)
LEMMA CalmPipeCall ==
    ASSUME CountInv, CalmInv, Calm, NEW p, p \in alive, program' = program,
           \/ \E fd \in FD, size \in Size : Read(p, fd, size)
           \/ \E fd \in FD, size \in Size, more \in BOOLEAN : Readv(p, fd, size, more)
           \/ \E size \in Size : Resume(p, size)
    PROVE  CalmInv'
  <1>0. p \in Task /\ block \in [Task -> Record] /\ fds \in [Task -> [FD -> Handle]] /\ table[p] \in Task
    BY Caller DEF CountInv, DescriptorTypes
  <1>1. UNCHANGED <<alive, lost, table, fds>>
    BY Zenon DEF Read, Readv, Resume, KeepTables
  <1>2. pending' = pending /\ \A q \in Task : block'[q].end # "write"
    <2>1. CASE \E fd \in FD, size \in Size : Read(p, fd, size)
      <3>1. pending' = pending /\ (block' = block \/ \E fd \in FD : block' = [block EXCEPT ![p] = [fd |-> fd, end |-> "read", data |-> <<>>]])
        BY <2>1, Zenon DEF Read, Suspend
      <3> QED BY <1>0, <3>1 DEF CalmInv
    <2>2. CASE \E fd \in FD, size \in Size, more \in BOOLEAN : Readv(p, fd, size, more)
      BY <2>2, Zenon DEF Readv, CalmInv
    <2>3. CASE \E size \in Size : Resume(p, size)
      <3>1. block' = [block EXCEPT ![p] = NoBlock]
        BY <2>3, Zenon DEF Resume
      <3>2. \A q \in Task : block'[q].end # "write"
        BY <1>0, <3>1 DEF CalmInv, NoBlock
      <3>3. pending' = pending
        <4> DEFINE h == fds[table[p]][block[p].fd]
        <4>1. block[p] \in Record
          BY <1>0, Zenon
        <4>2. block[p].fd \in FD
          BY <4>1, Zenon DEF Record
        <4>3. h \in Handle
          BY <1>0, <4>2, Zenon
        <4>4. CASE h.kind # "pipe" \/ h.end # block[p].end
          BY <2>3, <4>4, Zenon DEF Resume
        <4>5. CASE h.kind = "pipe" /\ h.end = block[p].end
          <5>1. h.end \in End
            BY <4>3, <4>5, HandleCases, Zenon
          <5>2. h.end = "read"
            BY <1>0, <4>5, <5>1 DEF CalmInv, End
          <5> QED BY <2>3, <4>5, <5>2, Zenon DEF Resume
        <4> QED BY <4>4, <4>5, Zenon
      <3> QED BY <3>2, <3>3, Zenon
    <2> QED BY <2>1, <2>2, <2>3, Zenon
  <1> QED BY <1>1, <1>2, Zenon DEF CalmInv, Calm

(* fork gives the child a table of its own, exit empties the caller's.     *)
LEMMA CalmTaskCall ==
    ASSUME CountInv, CalmInv, Calm, NEW p, p \in alive, program' = program, Fork(p) \/ Exit(p)
    PROVE  CalmInv'
  <1>0. p \in Task /\ table[p] = p /\ fds \in [Task -> [FD -> Handle]]
    BY Caller DEF CalmInv, CountInv, DescriptorTypes
  <1>1. UNCHANGED <<lost, table, pending, block>>
    BY DEF Fork, Exit, KeepPipes
  <1>2. \A q \in Task \ alive', fd \in FD : fds'[q][fd] = None
    <2>1. CASE Fork(p)
      <3>1. alive' = alive \cup {ntask + 1} /\ fds' = [fds EXCEPT ![ntask + 1] = fds[p]]
        BY <1>0, <2>1 DEF Fork
      <3> QED BY <1>0, <3>1, ZenonT(60) DEF CalmInv
    <2>2. CASE Exit(p)
      <3>1. alive' = alive \ {p} /\ fds' = [fds EXCEPT ![p] = [fd \in FD |-> None]]
        BY <1>0, <2>2, Zenon DEF Exit, IsThread, CloseOnExit
      <3> QED BY <1>0, <3>1, Zenon DEF CalmInv
    <2> QED BY <2>1, <2>2
  <1> QED BY <1>1, <1>2, Zenon DEF CalmInv, Calm

(* Every step of a calm program keeps it calm.                             *)
LEMMA CalmStep == CountInv /\ CalmInv /\ [Next]_vars => CalmInv'
  <1> SUFFICES ASSUME CountInv, CalmInv, [Next]_vars PROVE CalmInv'
    OBVIOUS
  <1>1. CASE UNCHANGED vars
    BY <1>1, Zenon DEF vars, CalmInv, Calm
  <1>2. CASE Next /\ ~Calm
    BY <1>2, Zenon DEF Next, CalmInv, Calm
  <1>3. CASE Next /\ Calm
    <2>1. program' = program
      BY <1>3 DEF Next
    <2>2. PICK p \in Task : \/ Call(p)
                            \/ \E size \in Size : Resume(p, size)
                            \/ \E handled \in BOOLEAN : TakeSignal(p, handled)
      BY <1>3, ZenonT(40) DEF Next
    <2>3. CASE \E handled \in BOOLEAN : TakeSignal(p, handled)
      BY <1>3, <2>3 DEF TakeSignal, CalmInv
    <2>4. CASE \E size \in Size : Resume(p, size)
      <3>1. p \in alive
        BY <2>4, Zenon DEF Resume
      <3> QED BY <1>3, <2>1, <2>4, <3>1, CalmPipeCall, SMTT(20), SMTT(30), Zenon
    <2>5. CASE Call(p)
      <3>1. p \in alive
        BY <2>5, ZenonT(60) DEF Call, Close, Dup, FcntlSetFD, FcntlDup, Read, Write, Readv, Writev, Open, MakePipe, Fork,
                    CloneThread, Exec, Exit, Kill, CanCall
      <3>2. /\ "clone" \notin program.calls /\ "kill" \notin program.calls
            /\ "write" \notin program.calls /\ "writev" \notin program.calls
        BY <1>3 DEF Calm
      <3>3. CASE \/ \E fd \in FD : Close(p, fd)
                 \/ \E old, new \in FD, cloexec \in BOOLEAN : Dup(p, old, new, cloexec)
                 \/ \E fd \in FD, on \in BOOLEAN : FcntlSetFD(p, fd, on)
                 \/ \E fd \in FD, on \in BOOLEAN, start \in FD : FcntlDup(p, fd, start, on)
                 \/ Open(p)
                 \/ \E flags \in SUBSET program.flags, stored \in BOOLEAN : MakePipe(p, flags, stored)
                 \/ Exec(p)
        BY <1>3, <2>1, <3>1, <3>3, CalmTableCall, ZenonT(40)
      <3>4. CASE \/ \E fd \in FD, size \in Size : Read(p, fd, size)
                 \/ \E fd \in FD, size \in Size, more \in BOOLEAN : Readv(p, fd, size, more)
        BY <1>3, <2>1, <3>1, <3>4, CalmPipeCall, Zenon
      <3>5. CASE Fork(p) \/ Exit(p)
        BY <1>3, <2>1, <3>1, <3>5, CalmTaskCall, ZenonT(40)
      <3> QED BY <2>5, <3>2, <3>3, <3>4, <3>5, ZenonT(60) DEF Call
    <2> QED BY <2>2, <2>3, <2>4, <2>5, SMTT(20), SMTT(30), Zenon
  <1> QED BY <1>1, <1>2, <1>3

(* In a calm program a write end that no live task can reach is in no      *)
(* table, and nothing else is counted.                                     *)
LEMMA CalmHangsUp == CountInv /\ CalmInv => HangupWhenUnreachable
  <1> SUFFICES ASSUME CountInv, CalmInv, Calm, NEW i \in 1..npipe,
                      \A p \in alive, fd \in FD : fds[table[p]][fd] # PipeHandle(i, "write")
               PROVE  refs[i]["write"] = 0
    BY Zenon DEF HangupWhenUnreachable, Calm
  <1>1. i \in Pipe
    BY DescriptorsAssumption, SMTT(20), SMTT(30), Zenon DEF CountInv, DescriptorTypes, Pipe
  <1>2. ASSUME NEW q \in Task, NEW fd \in FD
        PROVE  fds[q][fd] # PipeHandle(i, "write")
    <2>1. CASE q \in alive
      <3>1. table[q] = q
        BY Zenon DEF CalmInv
      <3> QED BY <2>1, <3>1, Zenon
    <2>2. CASE q \notin alive
      <3>1. fds[q][fd] = None
        BY <2>2, Zenon DEF CalmInv
      <3> QED BY <3>1, HandlesDiffer, Zenon
    <2> QED BY <2>1, <2>2
  <1>3. Entries(i, "write") = {}
    BY <1>2, NoEntry, SMTT(20), SMTT(30), Zenon
  <1>4. lost[i]["write"] = 0
    BY <1>1 DEF CalmInv, End
  <1>5. refs[i]["write"] = Cardinality(Entries(i, "write")) + lost[i]["write"]
    BY <1>1 DEF CountInv, CountsAreExact, End
  <1>6. refs[i]["write"] = 0 + 0
    BY <1>3, <1>4, <1>5, FS_EmptySet, Zenon
  <1> QED BY <1>6

(* Programs without threads whose tasks end by exit: once no live task can *)
(* reach the write end of a pipe, the pipe counts no writer, whatever was  *)
(* duplicated, inherited or closed on exec before.                         *)
THEOREM UnreachableHangsUp == Spec => []HangupWhenUnreachable
  <1>1. Init => CalmInv
    BY DEF Init, CalmInv, NoBlock
  <1>2. CountInv /\ CalmInv /\ [Next]_vars => CalmInv'
    BY CalmStep
  <1>3. CountInv /\ CalmInv => HangupWhenUnreachable
    BY CalmHangsUp
  <1> QED BY <1>1, <1>2, <1>3, CountsInvariant, PTL DEF Spec
=============================================================================
