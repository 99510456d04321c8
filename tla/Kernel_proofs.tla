--------------------------- MODULE Kernel_proofs ---------------------------
(***************************************************************************)
(* Futexes and signals.  The waiter queues of any number of tasks, address *)
(* spaces and addresses, with the scheduler and without; signal frames and *)
(* masks for any set of signals and actions, any stack and any nesting of  *)
(* handlers.  Then the terminal, and its use by ishrun in Interactive, for *)
(* any bytes, chunks and buffer sizes.  The three share no state.          *)
(***************************************************************************)
EXTENDS Futex, Signals, Interactive, SequenceTheorems, WellFoundedInduction, TLAPS

(* Who compares, was woken or gave a timeout is inside a wait; under the   *)
(* scheduler comparing and queueing are one step.                          *)
WaitersWait ==
    /\ \A p \in comparing \cup woken \cup timed : waiting[p] # NoAddr
    /\ comparing \cap woken = {}
    /\ schedulerAware => comparing = {}

(* Each waiter stands in a queue once.                                     *)
Once(q) == \A i, j \in 1..Len(q) : q[i] = q[j] => i = j

(* Those who should be in the queue of a.                                  *)
Unserved(a) == {p \in Task : waiting[p] = a /\ p \notin woken \cup comparing}

FutexInv == FutexTypeOK /\ WaitersWait /\ QueueIsExact

-----------------------------------------------------------------------------
(* Queueing a newcomer behind the others.                                  *)
LEMMA AppendIsExact ==
    ASSUME NEW T, NEW q \in Seq(T), Once(q), NEW p \in T, p \notin Members(q)
    PROVE  /\ Append(q, p) \in Seq(T) /\ Once(Append(q, p))
           /\ Members(Append(q, p)) = Members(q) \cup {p}
  <1> DEFINE r == Append(q, p)
  <1>1. r \in Seq(T) /\ Len(r) = Len(q) + 1 /\ Len(q) \in Nat /\ r[Len(q) + 1] = p
    OBVIOUS
  <1>2. \A i \in 1..Len(q) : r[i] = q[i] /\ q[i] # p
    BY DEF Members
  <1> HIDE DEF r
  <1>3. Once(r)
    BY <1>1, <1>2 DEF Once
  <1>4. Members(r) = Members(q) \cup {p}
    <2>1. \A i \in 1..Len(r) : i \in 1..Len(q) \/ i = Len(q) + 1
      BY <1>1
    <2>2. Members(r) \subseteq Members(q) \cup {p}
      BY <1>1, <1>2, <2>1 DEF Members
    <2>3. 1..Len(q) \subseteq 1..Len(r) /\ Len(q) + 1 \in 1..Len(r)
      BY <1>1
    <2>4. Members(q) \cup {p} \subseteq Members(r)
      BY <1>1, <1>2, <2>3 DEF Members
    <2> QED BY <2>2, <2>4
  <1> QED BY <1>1, <1>3, <1>4 DEF r

(* Dropping the first n waiters.                                           *)
LEMMA DropIsExact ==
    ASSUME NEW T, NEW q \in Seq(T), Once(q), NEW n \in 0..Len(q)
    PROVE  LET r == SubSeq(q, n + 1, Len(q)) IN
           r \in Seq(T) /\ Once(r) /\ Members(r) = Members(q) \ {q[j] : j \in 1..n}
  <1> DEFINE r == SubSeq(q, n + 1, Len(q))
  <1>1. r \in Seq(T) /\ Len(r) = Len(q) - n /\ Len(q) \in Nat
    OBVIOUS
  <1>2. \A i \in 1..Len(r) : r[i] = q[n + i] /\ n + i \in 1..Len(q) /\ n + i \notin 1..n
    BY <1>1
  <1> HIDE DEF r
  <1>3. Once(r)
    <2> SUFFICES ASSUME NEW i \in 1..Len(r), NEW j \in 1..Len(r), r[i] = r[j] PROVE i = j
      BY Zenon DEF Once
    <2>1. q[n + i] = q[n + j] /\ n + i \in 1..Len(q) /\ n + j \in 1..Len(q)
      BY <1>2, Zenon
    <2>2. n + i = n + j
      BY <2>1, Zenon DEF Once
    <2> QED BY <1>1, <2>2
  <1>4. Members(r) \subseteq Members(q) \ {q[j] : j \in 1..n}
    <2> SUFFICES ASSUME NEW i \in 1..Len(r) PROVE r[i] \in Members(q) \ {q[j] : j \in 1..n}
      BY DEF Members
    <2>1. \A j \in 1..n : q[j] # q[n + i]
      BY <1>1, <1>2, SMTT(30) DEF Once
    <2> QED BY <1>2, <2>1, Zenon DEF Members
  <1>5. Members(q) \ {q[j] : j \in 1..n} \subseteq Members(r)
    <2> SUFFICES ASSUME NEW k \in 1..Len(q), k \notin 1..n PROVE q[k] \in Members(r)
      BY DEF Members
    <2>1. k - n \in 1..Len(r) /\ n + (k - n) = k
      BY <1>1
    <2> QED BY <1>2, <2>1, Zenon DEF Members
  <1> QED BY <1>1, <1>3, <1>4, <1>5 DEF r

(* Removing one waiter, wherever it stands.                                *)
LEMMA RemoveIsExact ==
    ASSUME NEW T, NEW q \in Seq(T), Once(q), NEW p
    PROVE  LET r == removeFutexWaiter(q, p) IN
           r \in Seq(T) /\ Once(r) /\ Members(r) = Members(q) \ {p}
  <1>1. CASE \A i \in 1..Len(q) : q[i] # p
    BY <1>1, SMTT(20), SMTT(30), Zenon DEF removeFutexWaiter, Members
  <1>2. CASE ~ \A i \in 1..Len(q) : q[i] # p
    <2> DEFINE at == CHOOSE i \in 1..Len(q) : q[i] = p /\ \A j \in 1..(i - 1) : q[j] # p
               r == [i \in 1..(Len(q) - 1) |-> IF i < at THEN q[i] ELSE q[i + 1]]
    <2>1. PICK k \in 1..Len(q) : q[k] = p
      BY <1>2
    <2>2. \A j \in 1..(k - 1) : q[j] # p
      BY <2>1 DEF Once
    <2>3. at \in 1..Len(q) /\ q[at] = p
      BY <2>1, <2>2
    <2> HIDE DEF at
    <2>4. Len(q) \in Nat /\ Len(q) - 1 \in Nat /\ r \in Seq(T) /\ Len(r) = Len(q) - 1
      BY <2>3
    <2>5. \A i \in 1..Len(r) : /\ i < at => r[i] = q[i] /\ i \in 1..Len(q)
                               /\ ~(i < at) => r[i] = q[i + 1] /\ i + 1 \in 1..Len(q)
      BY <2>4
    <2> HIDE DEF r
    <2>6. Once(r)
      <3> SUFFICES ASSUME NEW i \in 1..Len(r), NEW j \in 1..Len(r), r[i] = r[j] PROVE i = j
        BY DEF Once
      <3>1. i \in Nat /\ j \in Nat /\ at \in Nat
        BY <2>3, <2>4
      <3>2. CASE i < at /\ j < at
        BY <3>2, <2>5 DEF Once
      <3>3. CASE ~(i < at) /\ ~(j < at)
        <4>1. i + 1 = j + 1
          BY <3>3, <2>5 DEF Once
        <4> QED BY <3>1, <4>1
      <3>4. CASE i < at /\ ~(j < at)
        <4>1. i = j + 1
          BY <3>4, <2>5 DEF Once
        <4> QED BY <3>1, <3>4, <4>1
      <3>5. CASE ~(i < at) /\ j < at
        <4>1. i + 1 = j
          BY <3>5, <2>5 DEF Once
        <4> QED BY <3>1, <3>5, <4>1
      <3> QED BY <3>2, <3>3, <3>4, <3>5
    <2>7. Members(r) \subseteq Members(q) \ {p}
      <3> SUFFICES ASSUME NEW i \in 1..Len(r) PROVE r[i] \in Members(q) \ {p}
        BY DEF Members
      <3>1. CASE i < at
        <4>1. r[i] = q[i] /\ i \in 1..Len(q) /\ i # at
          BY <3>1, <2>3, <2>5
        <4>2. q[i] # p
          BY <2>3, <4>1, Zenon DEF Once
        <4> QED BY <4>1, <4>2, Zenon DEF Members
      <3>2. CASE ~(i < at)
        <4>1. r[i] = q[i + 1] /\ i + 1 \in 1..Len(q) /\ i + 1 # at
          BY <3>2, <2>3, <2>4, <2>5
        <4>2. q[i + 1] # p
          BY <2>3, <4>1, Zenon DEF Once
        <4> QED BY <4>1, <4>2, Zenon DEF Members
      <3> QED BY <3>1, <3>2
    <2>8. Members(q) \ {p} \subseteq Members(r)
      <3> SUFFICES ASSUME NEW i \in 1..Len(q), q[i] # p PROVE q[i] \in Members(r)
        BY DEF Members
      <3>1. CASE i < at
        <4>1. i \in 1..Len(r) /\ r[i] = q[i]
          BY <3>1, <2>3, <2>4, <2>5
        <4> QED BY <4>1 DEF Members
      <3>2. CASE i > at
        <4>1. i - 1 \in 1..Len(r) /\ ~(i - 1 < at) /\ (i - 1) + 1 = i
          BY <3>2, <2>3, <2>4
        <4>2. r[i - 1] = q[i]
          BY <4>1, <2>5
        <4> QED BY <4>1, <4>2 DEF Members
      <3> QED BY <3>1, <3>2, <2>3
    <2>9. removeFutexWaiter(q, p) = r
      BY <1>2 DEF removeFutexWaiter, r, at
    <2> QED BY <2>4, <2>6, <2>7, <2>8, <2>9
  <1> QED BY <1>1, <1>2

-----------------------------------------------------------------------------
(* In the terms of the lemmas.                                             *)
LEMMA ExactForm ==
    QueueIsExact <=> \A a \in Addr : Once(futexWaiters[a]) /\ Members(futexWaiters[a]) = Unserved(a)
  BY DEF QueueIsExact, Once, Unserved

(* At first nobody waits.                                                  *)
LEMMA FutexInitInv == ASSUME FutexInit PROVE FutexInv
  <1>1. FutexTypeOK
    <2>1. word \in [Space -> [Addr -> Value]]
      BY FutexAssumption DEF FutexInit
    <2>2. futexWaiters \in [Addr -> Seq(Task)] /\ waiting \in [Task -> Addr \cup {NoAddr}] /\ result \in [Task -> Result]
      BY DEF FutexInit, Result
    <2> QED BY <2>1, <2>2, Zenon DEF FutexInit, FutexTypeOK
  <1>2. WaitersWait
    BY DEF FutexInit, WaitersWait
  <1>3. QueueIsExact
    <2> SUFFICES ASSUME NEW a \in Addr PROVE Once(futexWaiters[a]) /\ Members(futexWaiters[a]) = Unserved(a)
      BY ExactForm
    <2>1. futexWaiters[a] = <<>> /\ Len(<<>>) = 0 /\ \A p \in Task : waiting[p] # a
      BY FutexAssumption DEF FutexInit
    <2> QED BY <2>1 DEF Once, Members, Unserved
  <1> QED BY <1>1, <1>2, <1>3 DEF FutexInv

(* A wait that begins: under the scheduler the task is queued, otherwise   *)
(* it is among those that have compared.                                   *)
LEMMA WaitInv ==
    ASSUME FutexInv, NEW p \in Task, NEW a \in Addr, NEW v \in Value, NEW timeout \in BOOLEAN,
           FutexWait(p, a, v, timeout)
    PROVE  FutexInv'
  <1> USE DEF FutexInv
  <1>1. CASE word[spaceOf[p]][a] # v
    <2>1. UNCHANGED <<schedulerAware, word, futexWaiters, waiting, comparing, timed, expired, woken, runCancelled>> /\ result' = [result EXCEPT ![p] = "again"]
      BY <1>1 DEF FutexWait
    <2>2. FutexTypeOK'
      BY <2>1 DEF FutexTypeOK, Result
    <2>3. WaitersWait' /\ QueueIsExact'
      BY <2>1 DEF WaitersWait, QueueIsExact
    <2> QED BY <2>2, <2>3
  <1>2. CASE word[spaceOf[p]][a] = v
    <2>1. /\ futexWaiters' = IF schedulerAware THEN [futexWaiters EXCEPT ![a] = Append(@, p)] ELSE futexWaiters
          /\ waiting' = [waiting EXCEPT ![p] = a] /\ waiting[p] = NoAddr
          /\ comparing' = IF schedulerAware THEN comparing ELSE comparing \cup {p}
          /\ timed' = IF timeout THEN timed \cup {p} ELSE timed
          /\ result' = [result EXCEPT ![p] = "none"]
          /\ UNCHANGED <<schedulerAware, word, expired, woken, runCancelled>>
      BY <1>2 DEF FutexWait, Running
    <2>2. p \notin woken /\ p \notin comparing /\ a # NoAddr
      BY <2>1, FutexAssumption DEF WaitersWait
    <2>3. WaitersWait'
      BY <2>1, <2>2 DEF WaitersWait, FutexTypeOK
    <2>4. \A b \in Addr : Once(futexWaiters[b]) /\ futexWaiters[b] \in Seq(Task) /\ Members(futexWaiters[b]) = Unserved(b) /\ p \notin Members(futexWaiters[b])
      BY <2>1, ExactForm, FutexAssumption DEF FutexTypeOK, Unserved
    <2>5. /\ Append(futexWaiters[a], p) \in Seq(Task) /\ Once(Append(futexWaiters[a], p))
          /\ Members(Append(futexWaiters[a], p)) = Members(futexWaiters[a]) \cup {p}
      BY <2>4, AppendIsExact
    <2>6. futexWaiters' \in [Addr -> Seq(Task)]
      BY <2>1, <2>5 DEF FutexTypeOK
    <2>7. FutexTypeOK'
      BY <2>1, <2>6 DEF FutexTypeOK, Result
    <2>8. ASSUME NEW b \in Addr PROVE (Once(futexWaiters[b]) /\ Members(futexWaiters[b]) = Unserved(b))'
      <3>1. CASE b = a /\ schedulerAware
        <4>1. Unserved(a)' = Unserved(a) \cup {p}
          BY <3>1, <2>1, <2>2 DEF Unserved, FutexTypeOK
        <4>2. futexWaiters'[b] = Append(futexWaiters[a], p)
          BY <3>1, <2>1 DEF FutexTypeOK
        <4>3. Members(futexWaiters'[b]) = Unserved(b)'
          BY <4>1, <4>2, <3>1, <2>4, <2>5
        <4> QED BY <4>2, <4>3, <2>5 DEF Once, Members
      <3>2. CASE ~(b = a /\ schedulerAware)
        <4>1. futexWaiters'[b] = futexWaiters[b]
          BY <3>2, <2>1 DEF FutexTypeOK
        <4>2. Unserved(b)' = Unserved(b)
          BY <3>2, <2>1, <2>2, FutexAssumption DEF Unserved, FutexTypeOK
        <4> QED BY <4>1, <4>2, <2>4 DEF Once, Members
      <3> QED BY <3>1, <3>2
    <2>9. QueueIsExact'
      BY <2>8 DEF QueueIsExact, Once, Unserved
    <2> QED BY <2>3, <2>7, <2>9
  <1> QED BY <1>1, <1>2

(* The task that has compared joins the queue.                             *)
LEMMA EnqueueInv == ASSUME FutexInv, NEW p \in Task, Enqueue(p) PROVE FutexInv'
  <1> USE DEF FutexInv
  <1> DEFINE a == waiting[p]
  <1>1. /\ p \in comparing /\ comparing' = comparing \ {p} /\ futexWaiters' = [futexWaiters EXCEPT ![a] = Append(@, p)]
        /\ UNCHANGED <<schedulerAware, word, waiting, timed, expired, woken, result, runCancelled>>
    BY DEF Enqueue
  <1>2. a \in Addr /\ p \notin woken
    BY <1>1 DEF WaitersWait, FutexTypeOK
  <1> HIDE DEF a
  <1>3. \A b \in Addr : Once(futexWaiters[b]) /\ futexWaiters[b] \in Seq(Task) /\ Members(futexWaiters[b]) = Unserved(b) /\ p \notin Members(futexWaiters[b])
    BY <1>1, ExactForm DEF FutexTypeOK, Unserved
  <1>4. /\ Append(futexWaiters[a], p) \in Seq(Task) /\ Once(Append(futexWaiters[a], p))
        /\ Members(Append(futexWaiters[a], p)) = Members(futexWaiters[a]) \cup {p}
    BY <1>2, <1>3, AppendIsExact
  <1>5. FutexTypeOK'
    <2>1. futexWaiters' \in [Addr -> Seq(Task)]
      BY <1>1, <1>4, Zenon DEF FutexTypeOK
    <2> QED BY <1>1, <2>1 DEF FutexTypeOK
  <1>6. WaitersWait'
    BY <1>1 DEF WaitersWait
  <1>7. ASSUME NEW b \in Addr PROVE (Once(futexWaiters[b]) /\ Members(futexWaiters[b]) = Unserved(b))'
    <2>1. CASE b = a
      <3>1. Unserved(b)' = Unserved(b) \cup {p} /\ futexWaiters'[b] = Append(futexWaiters[b], p)
        BY <2>1, <1>1, <1>2 DEF Unserved, FutexTypeOK, a
      <3> QED BY <3>1, <2>1, <1>3, <1>4 DEF Once, Members
    <2>2. CASE b # a
      <3>1. Unserved(b)' = Unserved(b) /\ futexWaiters'[b] = futexWaiters[b]
        BY <2>2, <1>1 DEF Unserved, FutexTypeOK, a
      <3> QED BY <3>1, <1>3 DEF Once, Members
    <2> QED BY <2>1, <2>2
  <1>8. QueueIsExact'
    BY <1>7 DEF QueueIsExact, Once, Unserved
  <1> QED BY <1>5, <1>6, <1>8

(* The waiters a wake drops from the queue are those it wakes.             *)
LEMMA WakeInv ==
    ASSUME FutexInv, NEW p \in Task, NEW a \in Addr, NEW n \in 0..MaxWake, FutexWake(p, a, n)
    PROVE  FutexInv'
  <1> USE DEF FutexInv
  <1> DEFINE limit == IF n <= Len(futexWaiters[a]) THEN n ELSE Len(futexWaiters[a])
             W == {futexWaiters[a][j] : j \in 1..limit}
             r == SubSeq(futexWaiters[a], limit + 1, Len(futexWaiters[a]))
  <1>1. /\ woken' = woken \cup W /\ futexWaiters' = [futexWaiters EXCEPT ![a] = r] /\ result' = [result EXCEPT ![p] = "ok"]
        /\ UNCHANGED <<schedulerAware, word, waiting, comparing, timed, expired, runCancelled>>
    BY DEF FutexWake
  <1>2. \A b \in Addr : Once(futexWaiters[b]) /\ futexWaiters[b] \in Seq(Task) /\ Members(futexWaiters[b]) = Unserved(b)
    BY ExactForm DEF FutexTypeOK
  <1>3. limit \in 0..Len(futexWaiters[a])
    BY <1>2, FutexAssumption
  <1> HIDE DEF limit
  <1>4. r \in Seq(Task) /\ Once(r) /\ Members(r) = Members(futexWaiters[a]) \ W
    <2> DEFINE q == futexWaiters[a]
    <2>1. q \in Seq(Task) /\ Once(q) /\ limit \in 0..Len(q)
      BY <1>2, <1>3
    <2> HIDE DEF q
    <2>2. LET x == SubSeq(q, limit + 1, Len(q)) IN
          x \in Seq(Task) /\ Once(x) /\ Members(x) = Members(q) \ {q[j] : j \in 1..limit}
      BY <2>1, DropIsExact, SMTT(20), SMTT(30), Zenon
    <2> QED BY <2>2 DEF q
  <1>5. W \subseteq Unserved(a)
    <2>1. \A j \in 1..limit : j \in 1..Len(futexWaiters[a])
      BY <1>2, <1>3
    <2>2. W \subseteq Members(futexWaiters[a])
      BY <2>1 DEF Members
    <2> QED BY <1>2, <2>2
  <1> HIDE DEF W, r
  <1>6. FutexTypeOK'
    <2>1. futexWaiters' \in [Addr -> Seq(Task)] /\ woken' \in SUBSET Task /\ result' \in [Task -> Result]
      BY <1>1, <1>4, <1>5 DEF FutexTypeOK, Unserved, Result
    <2> QED BY <1>1, <2>1 DEF FutexTypeOK
  <1>7. WaitersWait'
    BY <1>1, <1>5, FutexAssumption DEF WaitersWait, Unserved
  <1>8. ASSUME NEW b \in Addr PROVE (Once(futexWaiters[b]) /\ Members(futexWaiters[b]) = Unserved(b))'
    <2>1. CASE b = a
      <3>1. Unserved(b)' = Unserved(b) \ W /\ futexWaiters'[b] = r
        BY <2>1, <1>1 DEF Unserved, FutexTypeOK
      <3> QED BY <3>1, <2>1, <1>2, <1>4, SMTT(20), SMTT(30), Zenon DEF Once, Members
    <2>2. CASE b # a
      <3>1. \A x \in W : waiting[x] = a
        BY <1>5 DEF Unserved
      <3>2. Unserved(b)' = Unserved(b) /\ futexWaiters'[b] = futexWaiters[b]
        BY <2>2, <1>1, <3>1 DEF Unserved, FutexTypeOK
      <3> QED BY <3>2, <1>2 DEF Once, Members
    <2> QED BY <2>1, <2>2
  <1>9. QueueIsExact'
    BY <1>8 DEF QueueIsExact, Once, Unserved
  <1> QED BY <1>6, <1>7, <1>9

(* Whatever ends a wait, its waiter leaves the queue if it is still there. *)
LEMMA ReturnInv ==
    ASSUME FutexInv, NEW p \in Task, waiting[p] # NoAddr, p \notin comparing, NEW o \in Result, FutexReturn(p, o)
    PROVE  FutexInv'
  <1> USE DEF FutexInv
  <1> DEFINE a == waiting[p]
             r == removeFutexWaiter(futexWaiters[a], p)
  <1>1. /\ futexWaiters' = [futexWaiters EXCEPT ![a] = r] /\ waiting' = [waiting EXCEPT ![p] = NoAddr]
        /\ timed' = timed \ {p} /\ expired' = expired \ {p} /\ woken' = woken \ {p} /\ result' = [result EXCEPT ![p] = o]
        /\ UNCHANGED <<schedulerAware, word, comparing, runCancelled>>
    BY DEF FutexReturn
  <1>2. a \in Addr
    BY DEF FutexTypeOK
  <1>3. \A b \in Addr : Once(futexWaiters[b]) /\ futexWaiters[b] \in Seq(Task) /\ Members(futexWaiters[b]) = Unserved(b)
    BY ExactForm DEF FutexTypeOK
  <1>4. r \in Seq(Task) /\ Once(r) /\ Members(r) = Members(futexWaiters[a]) \ {p}
    BY <1>2, <1>3, RemoveIsExact
  <1> HIDE DEF r
  <1>5. FutexTypeOK'
    <2>1. futexWaiters' \in [Addr -> Seq(Task)] /\ waiting' \in [Task -> Addr \cup {NoAddr}] /\ result' \in [Task -> Result]
      BY <1>1, <1>2, <1>4 DEF FutexTypeOK
    <2> QED BY <1>1, <2>1 DEF FutexTypeOK
  <1>6. WaitersWait'
    BY <1>1 DEF WaitersWait, FutexTypeOK
  <1>7. ASSUME NEW b \in Addr PROVE (Once(futexWaiters[b]) /\ Members(futexWaiters[b]) = Unserved(b))'
    <2>1. Unserved(b)' = Unserved(b) \ {p}
      BY <1>1, FutexAssumption DEF Unserved, FutexTypeOK
    <2>2. CASE b = a
      <3>1. futexWaiters'[b] = r
        BY <2>2, <1>1, <1>2 DEF FutexTypeOK
      <3>2. Members(futexWaiters'[b]) = Unserved(b)'
        BY <3>1, <2>1, <2>2, <1>3, <1>4
      <3>3. Once(futexWaiters'[b])
        BY <3>1, <1>4
      <3> QED BY <3>2, <3>3 DEF Once, Members
    <2>3. CASE b # a
      <3>1. futexWaiters'[b] = futexWaiters[b] /\ p \notin Unserved(b)
        BY <2>3, <1>1 DEF Unserved, FutexTypeOK
      <3> QED BY <3>1, <2>1, <1>3 DEF Once, Members
    <2> QED BY <2>2, <2>3
  <1>8. QueueIsExact'
    BY <1>7 DEF QueueIsExact, Once, Unserved
  <1> QED BY <1>5, <1>6, <1>8

(* Stores, deadlines and the cancellation touch no queue.                  *)
LEMMA OthersInv ==
    ASSUME FutexInv,
           \/ \E p \in Task, a \in Addr, v \in Value : Store(p, a, v)
           \/ \E p \in Task : Expire(p)
           \/ CancelRun
           \/ UNCHANGED futexVars
    PROVE  FutexInv'
  <1> USE DEF FutexInv
  <1>1. UNCHANGED <<schedulerAware, futexWaiters, waiting, comparing, timed, woken, result>>
    BY Zenon DEF Store, Expire, CancelRun, futexVars
  <1>2. word' \in [Space -> [Addr -> Value]]
    <2>1. CASE UNCHANGED word
      BY <2>1 DEF FutexTypeOK
    <2>2. CASE \E p \in Task, a \in Addr, v \in Value : Store(p, a, v)
      <3>1. PICK p \in Task, a \in Addr, v \in Value : word' = [word EXCEPT ![spaceOf[p]][a] = v]
        BY <2>2, Zenon DEF Store
      <3>2. spaceOf[p] \in Space
        BY FutexAssumption
      <3> QED BY <3>1, <3>2 DEF FutexTypeOK
    <2> QED BY <2>1, <2>2 DEF Expire, CancelRun, futexVars
  <1>3. expired' \in SUBSET timed /\ runCancelled' \in BOOLEAN
    BY Zenon DEF Store, Expire, CancelRun, futexVars, FutexTypeOK
  <1>4. FutexTypeOK'
    BY <1>1, <1>2, <1>3 DEF FutexTypeOK
  <1>5. WaitersWait' /\ QueueIsExact'
    BY <1>1 DEF WaitersWait, QueueIsExact
  <1> QED BY <1>4, <1>5

(* A task that resumes returns from its wait, and has an outcome.          *)
LEMMA ResumeInv ==
    ASSUME FutexInv, NEW p \in Task, TryResumeBlockedFutex(p) \/ SelectReturns(p)
    PROVE  FutexInv'
  <1>1. waiting[p] # NoAddr /\ p \notin comparing
    BY DEF FutexInv, WaitersWait, TryResumeBlockedFutex, SelectReturns, Running
  <1>2. \E o \in Result : FutexReturn(p, o)
    BY DEF TryResumeBlockedFutex, SelectReturns, Result
  <1> QED BY <1>1, <1>2, ReturnInv

(* The invariant holds throughout.                                         *)
LEMMA FutexInvHolds == FutexSpec => []FutexInv
  <1>1. ASSUME FutexInv, [FutexNext]_futexVars PROVE FutexInv'
    BY <1>1, WaitInv, EnqueueInv, WakeInv, ResumeInv, OthersInv DEF FutexNext, Ends
  <1>2. FutexInit => FutexInv
    BY FutexInitInv
  <1>3. FutexInv /\ [FutexNext]_futexVars => FutexInv'
    BY <1>1
  <1> QED BY <1>2, <1>3, PTL DEF FutexSpec

(* A queue holds exactly the tasks that wait at its address and were not   *)
(* woken, each once: for any number of tasks, spaces and addresses.        *)
THEOREM QueuesAreExact == FutexSpec => []QueueIsExact
  <1>1. FutexInv => QueueIsExact
    BY DEF FutexInv
  <1> QED BY FutexInvHolds, <1>1, PTL

(* Success, timeout and interruption are each reported only to a wait that *)
(* was woken, timed or cancelled.                                          *)
THEOREM OutcomesAreEarned == FutexSpec => SuccessIsEarned
  <1> DEFINE Earned(p) == ~Running(p) /\ waiting'[p] = NoAddr =>
                            /\ result'[p] = "ok" => p \in woken
                            /\ result'[p] = "timedout" => p \in timed
                            /\ result'[p] = "interrupted" => runCancelled
  <1>1. ASSUME FutexInv, [FutexNext]_futexVars, NEW p \in Task, ~Running(p), waiting'[p] = NoAddr
        PROVE  /\ result'[p] = "ok" => p \in woken
               /\ result'[p] = "timedout" => p \in timed
               /\ result'[p] = "interrupted" => runCancelled
    <2>1. PICK t \in Task : TryResumeBlockedFutex(t) \/ SelectReturns(t)
      <3>1. CASE \E t \in Task, a \in Addr, v \in Value, timeout \in BOOLEAN : FutexWait(t, a, v, timeout)
        BY <3>1, <1>1, FutexAssumption DEF FutexInv, FutexTypeOK, FutexWait, Running
      <3>2. CASE UNCHANGED waiting
        BY <3>2, <1>1 DEF Running
      <3> QED BY <1>1, <3>1, <3>2, Zenon DEF FutexNext, Ends, Store, FutexWake, Expire, Enqueue, CancelRun, futexVars
    <2>2. PICK o \in Result : /\ FutexReturn(t, o)
                              /\ o = "ok" => t \in woken
                              /\ o = "timedout" => t \in timed
                              /\ o = "interrupted" => runCancelled
      BY <1>1, <2>1 DEF TryResumeBlockedFutex, SelectReturns, Result, FutexInv, FutexTypeOK
    <2>3. p = t /\ result'[p] = o
      BY <1>1, <2>2 DEF FutexReturn, Running, FutexInv, FutexTypeOK
    <2> QED BY <2>2, <2>3
  <1>2. FutexInv /\ [FutexNext]_futexVars => [\A p \in Task : Earned(p)]_futexVars
    BY <1>1
  <1> QED BY FutexInvHolds, <1>2, PTL DEF FutexSpec, SuccessIsEarned

-----------------------------------------------------------------------------
(* Signals.                                                                *)

Entry == [saved : Saved, base : 0..Top, open : BOOLEAN]

(* Each frame is in place below the stack pointer it saved, and all that   *)
(* came later lies below it: later frames, what they saved, and esp.       *)
FramesNest ==
    /\ \A i \in 1..Len(active) :
          /\ stack[active[i].base] = active[i].saved
          /\ active[i].base < active[i].saved.esp
          /\ esp <= active[i].base
    /\ \A i, j \in 1..Len(active) : i < j => active[j].saved.esp <= active[i].base

(* The signal of a handler that nobody let through is blocked now, and in  *)
(* the mask of every later frame.                                          *)
StaysBlocked ==
    \A i \in 1..Len(active) : ~active[i].open =>
        /\ active[i].saved.signal \in mask
        /\ \A j \in 1..Len(active) : i < j => active[i].saved.signal \in active[j].saved.mask

SignalsInv == SignalsTypeOK /\ FramesNest /\ StaysBlocked /\ NoReentry

-----------------------------------------------------------------------------
(* A set of signals has a lowest one.                                      *)
LEMMA LowestIsIn ==
    ASSUME NEW S, S \subseteq SignalNumber, S # {}
    PROVE  (CHOOSE x \in S : \A y \in S : x <= y) \in S
  <1>0. S \subseteq Nat
    BY SignalsAssumption
  <1>1. IsWellFoundedOn(OpToRel(<, Nat), Nat)
    BY NatLessThanWellFounded, Zenon
  <1>2. PICK x \in S : \A y \in S : ~(<<y, x>> \in OpToRel(<, Nat))
    BY <1>0, <1>1, WFMin, Zenon
  <1>3. \A y \in S : ~(y < x)
    BY <1>0, <1>2, Zenon DEF OpToRel
  <1>4. \A y \in S : x <= y
    BY <1>0, <1>3
  <1> QED BY <1>4

(* A sequence without its last element.                                    *)
LEMMA FrontOf ==
    ASSUME NEW T, NEW q \in Seq(T), Len(q) > 0
    PROVE  LET r == SubSeq(q, 1, Len(q) - 1) IN
           /\ r \in Seq(T) /\ Len(r) = Len(q) - 1
           /\ \A i \in 1..(Len(q) - 1) : r[i] = q[i] /\ i \in 1..Len(q) /\ i < Len(q)
  <1> DEFINE n == Len(q)
             r == SubSeq(q, 1, n - 1)
  <1>1. n \in Nat /\ n - 1 \in Nat
    OBVIOUS
  <1>2. \A i \in 1..(n - 1) : i \in 1..n /\ i < n /\ q[i] \in T
    BY <1>1
  <1>3. r = [i \in 1..(n - 1) |-> q[i]]
    BY <1>1
  <1> HIDE DEF r
  <1>4. r \in Seq(T) /\ Len(r) = n - 1
    BY <1>1, <1>2, <1>3
  <1> QED BY <1>2, <1>3, <1>4 DEF r

(* The innermost entry.                                                    *)
LEMMA LastEntry ==
    ASSUME SignalsTypeOK, active # <<>>
    PROVE  /\ Len(active) \in 1..Len(active) /\ active[Len(active)] \in Entry
           /\ Floor = active[Len(active)].base
  <1>1. active \in Seq(Entry)
    BY DEF SignalsTypeOK, Entry
  <1>2. Len(active) \in Nat /\ Len(active) # 0
    BY <1>1
  <1>3. Len(active) \in 1..Len(active)
    BY <1>2
  <1> QED BY <1>1, <1>3 DEF Floor

(* Initially no handler runs.                                              *)
LEMMA SignalsInitInv == ASSUME Init PROVE SignalsInv
  <1>1. active = <<>> /\ Len(active) = 0 /\ active \in Seq(Entry)
    BY DEF Init
  <1>2. SignalsTypeOK
    <2>1. Top \in 0..Top
      BY SignalsAssumption
    <2>2. stack \in [0..Top -> Cell]
      BY DEF Init, Cell
    <2>3. Default \in Action
      BY DEF Default, Action
    <2> QED BY <1>1, <2>1, <2>2, <2>3 DEF Init, SignalsTypeOK, Entry
  <1>3. FramesNest /\ StaysBlocked /\ NoReentry
    BY <1>1 DEF FramesNest, StaysBlocked, NoReentry
  <1> QED BY <1>2, <1>3 DEF SignalsInv

(* The steps that leave frames, stack and mask alone.                      *)
LEMMA QuietInv ==
    ASSUME SignalsInv,
           \/ \E c \in Cpu : Compute(c)
           \/ \E s \in SignalNumber : queueSignal(s) \/ \E a \in Actions[s] : rtSigaction(s, a)
           \/ UNCHANGED vars
    PROVE  SignalsInv'
  <1>1. UNCHANGED <<state, mask, esp, stack, active>>
    BY DEF Compute, queueSignal, rtSigaction, vars
  <1>2. cpu' \in Cpu /\ pending' \subseteq SignalNumber
    BY DEF Compute, queueSignal, rtSigaction, vars, SignalsInv, SignalsTypeOK
  <1>3. action' \in [SignalNumber -> Action]
    <2>1. CASE action' = action
      BY <2>1 DEF SignalsInv, SignalsTypeOK
    <2>2. CASE \E s \in SignalNumber : \E a \in Actions[s] : rtSigaction(s, a)
      <3>1. PICK s \in SignalNumber : \E a \in Actions[s] : rtSigaction(s, a)
        BY <2>2
      <3>2. PICK a \in Actions[s] : action' = [action EXCEPT ![s] = a]
        BY <3>1, Zenon DEF rtSigaction
      <3>3. a \in Action
        BY SignalsAssumption
      <3> QED BY <3>2, <3>3 DEF SignalsInv, SignalsTypeOK
    <2> QED BY <2>1, <2>2 DEF Compute, queueSignal, vars
  <1>4. SignalsTypeOK'
    BY <1>1, <1>2, <1>3 DEF SignalsInv, SignalsTypeOK
  <1>5. FramesNest' /\ StaysBlocked' /\ NoReentry'
    BY <1>1 DEF SignalsInv, FramesNest, StaysBlocked, NoReentry
  <1> QED BY <1>4, <1>5 DEF SignalsInv

(* The running handler pushes and pops below its frame.                    *)
LEMMA StackInv == ASSUME SignalsInv, Push \/ Pop PROVE SignalsInv'
  <1> USE DEF SignalsInv
  <1>1. UNCHANGED <<state, pending, mask, action, cpu, active>>
    BY DEF Push, Pop
  <1>2. active \in Seq(Entry) /\ esp \in 0..Top /\ Top \in Nat
    BY SignalsAssumption DEF SignalsTypeOK, Entry
  <1>3. StaysBlocked' /\ NoReentry'
    BY <1>1 DEF StaysBlocked, NoReentry
  <1>4. CASE Push
    <2>1. esp > 0 /\ esp' = esp - 1 /\ stack' = [stack EXCEPT ![esp - 1] = Junk]
      BY <1>4 DEF Push
    <2>2. SignalsTypeOK'
      <3>1. esp' \in 0..Top /\ stack' \in [0..Top -> Cell]
        BY <2>1, <1>2 DEF SignalsTypeOK, Cell
      <3> QED BY <1>1, <3>1 DEF SignalsTypeOK
    <2>3. \A i \in 1..Len(active) : active[i].base \in 0..Top /\ esp <= active[i].base
      <3>1. \A i \in 1..Len(active) : active[i] \in Entry
        BY <1>2
      <3>2. \A i \in 1..Len(active) : active[i].base \in 0..Top
        BY <3>1 DEF Entry
      <3> QED BY <3>2 DEF FramesNest
    <2>4. \A b \in 0..Top : esp <= b => stack'[b] = stack[b] /\ esp' <= b
      BY <1>2, <2>1 DEF SignalsTypeOK
    <2>5. \A i \in 1..Len(active) : stack'[active[i].base] = stack[active[i].base] /\ esp' <= active[i].base
      BY <2>3, <2>4
    <2> QED BY <1>1, <1>3, <2>2, <2>5 DEF FramesNest
  <1>5. CASE Pop
    <2>1. esp < Floor /\ esp' = esp + 1 /\ stack' = stack
      BY <1>5 DEF Pop
    <2>2. CASE active = <<>>
      <3>1. esp' \in 0..Top /\ Len(active) = 0
        BY <2>1, <2>2, <1>2, SMTT(30) DEF Floor
      <3> QED BY <1>1, <1>3, <2>1, <3>1 DEF SignalsTypeOK, FramesNest
    <2>3. CASE active # <<>>
      <3> DEFINE n == Len(active)
      <3>1. n \in 1..n /\ active[n] \in Entry /\ Floor = active[n].base /\ n \in Nat
        BY <2>3, <1>2, LastEntry
      <3>2. esp' \in 0..Top /\ esp' <= active[n].base
        BY <2>1, <1>2, <3>1 DEF Entry
      <3>3. \A i \in 1..n : active[i] \in Entry /\ active[n].base <= active[i].base
        <4> SUFFICES ASSUME NEW i \in 1..n PROVE active[i] \in Entry /\ active[n].base <= active[i].base
          OBVIOUS
        <4>1. active[i] \in Entry
          BY <1>2
        <4>2. CASE i = n
          BY <4>1, <4>2 DEF Entry
        <4>3. CASE i < n
          BY <4>1, <4>3, <3>1 DEF FramesNest, Entry, Saved
        <4> QED BY <3>1, <4>1, <4>2, <4>3
      <3>4. \A i \in 1..n : esp' <= active[i].base
        BY <1>2, <3>1, <3>2, <3>3 DEF Entry
      <3> QED BY <1>1, <1>3, <2>1, <3>2, <3>4 DEF SignalsTypeOK, FramesNest
    <2> QED BY <2>2, <2>3
  <1> QED BY <1>4, <1>5

(* sigprocmask marks the handlers whose signal it lets through.            *)
LEMMA MaskInv ==
    ASSUME SignalsInv, NEW how \in {"block", "unblock", "setmask"}, NEW set \in SUBSET SignalNumber, NEW realtime \in BOOLEAN,
           sigprocmask(how, set, realtime)
    PROVE  SignalsInv' /\ Len(active') = Len(active)
  <1> USE DEF SignalsInv
  <1>1. PICK new \in SUBSET SignalNumber :
          /\ mask' = new
          /\ active' = [i \in 1..Len(active) |-> [active[i] EXCEPT !.open = @ \/ active[i].saved.signal \notin new]]
    BY Zenon DEF sigprocmask, SignalsTypeOK
  <1>2. UNCHANGED <<state, pending, action, cpu, esp, stack>>
    BY DEF sigprocmask
  <1>3. active \in Seq(Entry) /\ Len(active) \in Nat
    BY DEF SignalsTypeOK, Entry
  <1>4. \A i \in 1..Len(active) :
          /\ active'[i] \in Entry
          /\ active'[i].saved = active[i].saved /\ active'[i].base = active[i].base
          /\ active'[i].open = (active[i].open \/ active[i].saved.signal \notin new)
    <2> SUFFICES ASSUME NEW i \in 1..Len(active)
                 PROVE  /\ active'[i] \in Entry
                        /\ active'[i].saved = active[i].saved /\ active'[i].base = active[i].base
                        /\ active'[i].open = (active[i].open \/ active[i].saved.signal \notin new)
      OBVIOUS
    <2> DEFINE x == active[i]
    <2>1. x \in Entry
      BY <1>3
    <2>2. active'[i] = [x EXCEPT !.open = x.open \/ x.saved.signal \notin new]
      BY <1>1
    <2> HIDE DEF x
    <2>3. /\ active'[i] \in Entry /\ active'[i].saved = x.saved /\ active'[i].base = x.base
          /\ active'[i].open = (x.open \/ x.saved.signal \notin new)
      BY <2>1, <2>2, Zenon DEF Entry
    <2> QED BY <2>3 DEF x
  <1>5. active' \in Seq(Entry) /\ Len(active') = Len(active)
    BY <1>1, <1>3, <1>4
  <1>6. SignalsTypeOK'
    BY <1>1, <1>2, <1>5 DEF SignalsTypeOK, Entry
  <1>7. FramesNest'
    <2>1. \A i \in 1..Len(active') :
             /\ stack'[active'[i].base] = active'[i].saved
             /\ active'[i].base < active'[i].saved.esp
             /\ esp' <= active'[i].base
      BY <1>2, <1>4, <1>5, SMTT(20), SMTT(30), Zenon DEF FramesNest
    <2>2. \A i, j \in 1..Len(active') : i < j => active'[j].saved.esp <= active'[i].base
      BY <1>4, <1>5 DEF FramesNest
    <2> QED BY <2>1, <2>2 DEF FramesNest
  <1>8. StaysBlocked'
    <2> SUFFICES ASSUME NEW i \in 1..Len(active), ~active'[i].open
                 PROVE  /\ active'[i].saved.signal \in mask'
                        /\ \A j \in 1..Len(active) : i < j => active'[i].saved.signal \in active'[j].saved.mask
      BY <1>5 DEF StaysBlocked
    <2>1. ~active[i].open /\ active[i].saved.signal \in new
      BY <1>4, Zenon
    <2> QED BY <1>1, <1>4, <2>1, SMTT(20), SMTT(30), Zenon DEF StaysBlocked
  <1>9. NoReentry'
    BY <1>4, <1>5, Zenon DEF NoReentry
  <1> QED BY <1>5, <1>6, <1>7, <1>8, <1>9

(* A frame goes below all others, and the signal it is for was not         *)
(* blocked, so that the handlers it nests in let it through.               *)
LEMMA DeliverInv ==
    ASSUME SignalsInv, NEW s \in SignalNumber, s \notin mask, DeliverSignal(s), UNCHANGED action, pending' \subseteq SignalNumber,
           state = "running"
    PROVE  SignalsInv'
  <1> USE DEF SignalsInv
  <1> DEFINE saved == [signal |-> s, cpu |-> cpu, esp |-> esp, mask |-> mask]
             base == esp - Frame
             e == [saved |-> saved, base |-> base, open |-> action[s].nodefer]
             n == Len(active)
  <1>1. CASE ~HasRoom \/ action[s].handler = "unusable"
    <2>1. state' = "faulted" /\ UNCHANGED <<mask, cpu, esp, stack, active>>
      BY <1>1, Zenon DEF DeliverSignal
    <2> QED BY <2>1, Zenon DEF SignalsTypeOK, FramesNest, StaysBlocked, NoReentry
  <1>2. CASE ~(~HasRoom \/ action[s].handler = "unusable")
    <2>1. /\ stack' = [a \in 0..Top |-> IF a = base THEN saved ELSE IF a \in base..(esp - 1) THEN Junk ELSE stack[a]]
          /\ esp' = base /\ cpu' \in Cpu /\ mask' = HandlerMask(s)
          /\ active' = Append(active, e) /\ state' = state
      BY <1>2, Zenon DEF DeliverSignal, FrameBase
    <2>2. esp \in Nat /\ esp <= Top /\ Top \in Nat /\ Frame \in Nat /\ Frame > 0 /\ base \in 0..Top /\ base < esp
      BY <1>2, SignalsAssumption DEF HasRoom, SignalsTypeOK
    <2>3. saved \in Saved /\ e \in Entry
      <3>1. saved \in Saved
        BY DEF SignalsTypeOK, Saved
      <3>2. action[s].nodefer \in BOOLEAN
        BY DEF SignalsTypeOK, Action
      <3> QED BY <2>2, <3>1, <3>2, Zenon DEF Entry
    <2>4. active \in Seq(Entry) /\ n \in Nat
      BY SMTT(20), SMTT(30), Zenon DEF SignalsTypeOK, Entry
    <2>5. /\ active' \in Seq(Entry) /\ Len(active') = n + 1 /\ active'[n + 1] = e
          /\ \A i \in 1..n : active'[i] = active[i] /\ active[i] \in Entry
      <3>1. n = Len(active)
        OBVIOUS
      <3> HIDE DEF n, e, saved, base
      <3> QED BY <2>1, <2>3, <2>4, <3>1
    <2>6. \A i \in 1..Len(active') : i \in 1..n \/ i = n + 1
      <3>1. Len(active') = n + 1 /\ n \in Nat
        BY <2>4, <2>5
      <3> HIDE DEF n, e, saved, base
      <3> QED BY <3>1, SMTT(30)
    <2>7. mask' \subseteq SignalNumber /\ mask \subseteq mask' /\ (~e.open => s \in mask')
      BY <2>1 DEF HandlerMask, SignalsTypeOK, Action
    <2>8. e.saved.signal = s /\ e.saved.esp = esp /\ e.saved.mask = mask /\ e.base = base /\ e.saved = saved
      OBVIOUS
    <2>9. \A b \in 0..Top : esp <= b => stack'[b] = stack[b] /\ esp' <= b
      <3> HIDE DEF n, e, saved, base
      <3> QED BY <2>1, <2>2
    <2>10. stack'[base] = saved
      <3> HIDE DEF n, e, saved, base
      <3> QED BY <2>1, <2>2, SMTT(20), SMTT(30), Zenon
    <2>11. SignalsTypeOK'
      <3>1. stack' \in [0..Top -> Cell]
        BY <2>1, <2>3, SMTT(20), SMTT(30), Zenon DEF SignalsTypeOK, Cell
      <3> QED BY <2>1, <2>2, <2>5, <2>7, <3>1, SMTT(20), SMTT(30), Zenon DEF SignalsTypeOK, Entry
    <2> HIDE DEF saved, base, e
    <2>12. FramesNest'
      <3>1. ASSUME NEW i \in 1..Len(active')
            PROVE  /\ stack'[active'[i].base] = active'[i].saved
                   /\ active'[i].base < active'[i].saved.esp
                   /\ esp' <= active'[i].base
        <4>1. CASE i \in 1..n
          <5>1. active'[i] = active[i] /\ active[i].base \in 0..Top /\ esp <= active[i].base
            BY <4>1, <2>5 DEF FramesNest, Entry
          <5> QED BY <4>1, <5>1, <2>9 DEF FramesNest
        <4>2. CASE i = n + 1
          BY <4>2, <2>1, <2>2, <2>5, <2>8, <2>10, SMTT(20), SMTT(30), Zenon
        <4> QED BY <2>6, <4>1, <4>2, SMTT(20), SMTT(30), Zenon
      <3>2. ASSUME NEW i \in 1..Len(active'), NEW j \in 1..Len(active'), i < j
            PROVE  active'[j].saved.esp <= active'[i].base
        <4>1. i \in 1..n /\ active'[i] = active[i]
          BY <3>2, <2>4, <2>5
        <4>2. CASE j \in 1..n
          BY <3>2, <4>1, <4>2, <2>5 DEF FramesNest
        <4>3. CASE j = n + 1
          BY <4>1, <4>3, <2>5, <2>8, SMTT(20), SMTT(30), Zenon DEF FramesNest
        <4> QED BY <2>6, <4>2, <4>3
      <3> QED BY <3>1, <3>2 DEF FramesNest
    <2>13. StaysBlocked'
      <3> SUFFICES ASSUME NEW i \in 1..Len(active'), ~active'[i].open
                   PROVE  /\ active'[i].saved.signal \in mask'
                          /\ \A j \in 1..Len(active') : i < j => active'[i].saved.signal \in active'[j].saved.mask
        BY DEF StaysBlocked
      <3>1. CASE i \in 1..n
        <4>1. active[i].saved.signal \in mask /\ active'[i] = active[i]
          BY <3>1, <2>5 DEF StaysBlocked
        <4>2. ASSUME NEW j \in 1..Len(active'), i < j PROVE active'[i].saved.signal \in active'[j].saved.mask
          <5>1. CASE j \in 1..n
            BY <3>1, <4>1, <4>2, <5>1, <2>5 DEF StaysBlocked
          <5>2. CASE j = n + 1
            BY <4>1, <5>2, <2>5, <2>8
          <5> QED BY <2>6, <5>1, <5>2
        <4> QED BY <4>1, <4>2, <2>7
      <3>2. CASE i = n + 1
        <4>1. \A j \in 1..Len(active') : ~(i < j)
          BY <3>2, <2>4, <2>5
        <4> QED BY <3>2, <4>1, <2>5, <2>7, <2>8
      <3> QED BY <2>6, <3>1, <3>2, SMTT(30)
    <2>14. NoReentry'
      <3> SUFFICES ASSUME NEW i \in 1..Len(active'), NEW j \in 1..Len(active'), i < j,
                          active'[i].saved.signal = active'[j].saved.signal
                   PROVE  active'[i].open
        BY DEF NoReentry
      <3>1. i \in 1..n /\ active'[i] = active[i]
        BY <2>4, <2>5
      <3>2. CASE j \in 1..n
        BY <3>1, <3>2, <2>5, SMTT(30) DEF NoReentry
      <3>3. CASE j = n + 1
        BY <3>1, <3>3, <2>5, <2>8 DEF StaysBlocked
      <3> QED BY <2>6, <3>2, <3>3
    <2> QED BY <2>11, <2>12, <2>13, <2>14
  <1> QED BY <1>1, <1>2

(* Process.Step takes the lowest signal that is not blocked.               *)
LEMMA TakeInv == ASSUME SignalsInv, TakePendingSignal PROVE SignalsInv'
  <1> DEFINE s == CHOOSE x \in Available : \A y \in Available : x <= y
  <1>1. s \in Available /\ s \in SignalNumber /\ s \notin mask
    <2>1. Available \subseteq SignalNumber /\ Available # {}
      BY DEF TakePendingSignal, Available, SignalsInv, SignalsTypeOK
    <2>2. s \in Available
      BY <2>1, LowestIsIn
    <2> QED BY <2>1, <2>2 DEF Available
  <1>2. pending' \subseteq SignalNumber /\ UNCHANGED action /\ state = "running"
    BY DEF TakePendingSignal, SignalsInv, SignalsTypeOK
  <1>3. CASE action[s].handler # "default"
    <2>1. DeliverSignal(s)
      BY <1>3, SMTT(20), SMTT(30), Zenon DEF TakePendingSignal
    <2> HIDE DEF s
    <2> QED BY <1>1, <1>2, <2>1, DeliverInv
  <1>4. CASE ~(action[s].handler # "default")
    <2>1. state' \in {"running", "exited"} /\ UNCHANGED <<mask, cpu, esp, stack, active>>
      BY <1>4 DEF TakePendingSignal
    <2> QED BY <1>2, <2>1 DEF SignalsInv, SignalsTypeOK, FramesNest, StaysBlocked, NoReentry
  <1> QED BY <1>3, <1>4

(* rt_sigreturn finds the frame of the innermost handler, so that it does  *)
(* not fault, and what it restores is what that handler interrupted.       *)
LEMMA ReturnFindsFrame ==
    ASSUME SignalsInv, rtSigreturn
    PROVE  LET n == Len(active)  saved == active[n].saved IN
           /\ n \in 1..n /\ active[n] \in Entry
           /\ cpu' = saved.cpu /\ esp' = saved.esp /\ mask' = saved.mask
           /\ active' = SubSeq(active, 1, n - 1)
           /\ UNCHANGED <<state, pending, action, stack>>
  <1> USE DEF SignalsInv
  <1> DEFINE n == Len(active)
  <1>1. n \in 1..n /\ active[n] \in Entry /\ esp = active[n].base
    BY LastEntry DEF rtSigreturn
  <1>2. stack[esp] = active[n].saved
    BY <1>1 DEF FramesNest
  <1>3. active[n].saved # Junk
    <2>1. active[n].saved.signal \in SignalNumber
      BY <1>1 DEF Entry, Saved
    <2> QED BY <2>1, SignalsAssumption DEF Junk
  <1> QED BY <1>1, <1>2, <1>3, SMTT(20), SMTT(30), Zenon DEF rtSigreturn

(* The invariant survives the return.                                      *)
LEMMA SigreturnInv == ASSUME SignalsInv, rtSigreturn PROVE SignalsInv'
  <1> USE DEF SignalsInv
  <1> DEFINE n == Len(active)
             saved == active[n].saved
  <1>1. /\ n \in 1..n /\ active[n] \in Entry
        /\ cpu' = saved.cpu /\ esp' = saved.esp /\ mask' = saved.mask
        /\ active' = SubSeq(active, 1, n - 1)
        /\ UNCHANGED <<state, pending, action, stack>>
    BY ReturnFindsFrame
  <1>2. active \in Seq(Entry) /\ n \in Nat /\ n > 0
    BY <1>1 DEF SignalsTypeOK, Entry
  <1>3. /\ active' \in Seq(Entry) /\ Len(active') = n - 1
        /\ \A i \in 1..(n - 1) : active'[i] = active[i] /\ i \in 1..n /\ i < n
    BY <1>1, <1>2, FrontOf
  <1>4. saved.cpu \in Cpu /\ saved.esp \in 0..Top /\ saved.mask \subseteq SignalNumber
    <2>1. saved \in Saved
      BY <1>1 DEF Entry
    <2> QED BY <2>1 DEF Saved
  <1> HIDE DEF saved
  <1>5. SignalsTypeOK'
    BY <1>1, <1>3, <1>4, SMTT(20), SMTT(30), Zenon DEF SignalsTypeOK, Entry
  <1>6. FramesNest'
    <2>1. \A i \in 1..(n - 1) : saved.esp <= active[i].base
      BY <1>1, <1>3 DEF FramesNest, saved
    <2>2. \A i \in 1..(n - 1) :
             /\ stack'[active'[i].base] = active'[i].saved
             /\ active'[i].base < active'[i].saved.esp
             /\ esp' <= active'[i].base
      BY <1>1, <1>3, <2>1 DEF FramesNest
    <2>3. \A i, j \in 1..(n - 1) : i < j => active'[j].saved.esp <= active'[i].base
      BY <1>3 DEF FramesNest
    <2> QED BY <1>3, <2>2, <2>3 DEF FramesNest
  <1>7. StaysBlocked'
    <2>1. \A i \in 1..(n - 1) : ~active[i].open => active[i].saved.signal \in saved.mask
      BY <1>1, <1>3 DEF StaysBlocked, saved
    <2>2. \A i \in 1..(n - 1) : ~active'[i].open => active'[i].saved.signal \in mask'
      BY <1>1, <1>3, <2>1
    <2>3. \A i, j \in 1..(n - 1) : ~active'[i].open /\ i < j => active'[i].saved.signal \in active'[j].saved.mask
      BY <1>3, SMTT(20), SMTT(30), Zenon DEF StaysBlocked
    <2> QED BY <1>3, <2>2, <2>3, Zenon DEF StaysBlocked
  <1>8. NoReentry'
    BY <1>3 DEF NoReentry
  <1> QED BY <1>5, <1>6, <1>7, <1>8

(* The invariant holds throughout.                                         *)
LEMMA SignalsInvHolds == SignalsSpec => []SignalsInv
  <1>1. ASSUME SignalsInv, [SignalsNext]_vars PROVE SignalsInv'
    BY <1>1, QuietInv, StackInv, MaskInv, TakeInv, SigreturnInv, SMTT(20), SMTT(30), Zenon DEF SignalsNext
  <1>2. SignalsInv /\ [SignalsNext]_vars => SignalsInv'
    BY <1>1
  <1>3. Init => SignalsInv
    BY SignalsInitInv
  <1> QED BY <1>2, <1>3, PTL DEF SignalsSpec

(* The frames of all running handlers stay intact on the guest stack, for  *)
(* any stack size and any depth of nesting.                                *)
THEOREM FramesStayIntact == SignalsSpec => []FramesIntact
  <1>1. ASSUME SignalsInv PROVE FramesIntact
    <2>1. active \in Seq(Entry) /\ Len(active) \in Nat /\ esp \in 0..Top
      BY <1>1 DEF SignalsInv, SignalsTypeOK, Entry
    <2>2. \A i \in 1..Len(active) : active[i].base \in 0..Top /\ active[i].saved.esp \in 0..Top
      <3>1. \A i \in 1..Len(active) : active[i] \in Entry
        BY <2>1
      <3>2. \A x \in Entry : x.base \in 0..Top /\ x.saved.esp \in 0..Top
        BY DEF Entry, Saved
      <3> QED BY <3>1, <3>2
    <2>3. \A i \in 1..(Len(active) - 1) : i \in 1..Len(active) /\ i + 1 \in 1..Len(active) /\ i < i + 1
      BY <2>1
    <2>4. \A i \in 1..(Len(active) - 1) : active[i + 1].saved.esp <= active[i].base
      BY <1>1, <2>3 DEF SignalsInv, FramesNest
    <2>5. \A i \in 1..(Len(active) - 1) : active[i + 1].base < active[i + 1].saved.esp
      BY <1>1, <2>3 DEF SignalsInv, FramesNest
    <2>6. \A i \in 1..(Len(active) - 1) : active[i + 1].base < active[i].base
      BY <2>2, <2>3, <2>4, <2>5, SMTT(20), SMTT(30), Zenon
    <2>7. esp <= Floor
      <3>1. CASE active = <<>>
        BY <2>1, <3>1, SignalsAssumption DEF Floor
      <3>2. CASE active # <<>>
        BY <1>1, <3>2, LastEntry DEF SignalsInv, FramesNest
      <3> QED BY <3>1, <3>2
    <2> QED BY <1>1, <2>6, <2>7 DEF FramesIntact, SignalsInv, FramesNest
  <1>2. SignalsInv => FramesIntact
    BY <1>1
  <1> QED BY SignalsInvHolds, <1>2, PTL

(* No handler is entered again while it runs unless its signal was let     *)
(* through.                                                                *)
THEOREM HandlersDoNotReenter == SignalsSpec => []NoReentry
  <1>1. SignalsInv => NoReentry
    BY DEF SignalsInv
  <1> QED BY SignalsInvHolds, <1>1, PTL

(* rt_sigreturn restores registers, stack pointer and mask exactly.        *)
THEOREM SigreturnRestores == SignalsSpec => ReturnRestores
  <1> DEFINE Restored == LET saved == active[Len(active)].saved
                         IN  cpu' = saved.cpu /\ esp' = saved.esp /\ mask' = saved.mask
  <1>1. ASSUME SignalsInv, [SignalsNext]_vars, Len(active') < Len(active) PROVE Restored
    <2>1. active \in Seq(Entry) /\ Len(active) \in Nat
      BY <1>1 DEF SignalsInv, SignalsTypeOK, Entry
    <2>2. CASE rtSigreturn
      BY <1>1, <2>2, ReturnFindsFrame
    <2>3. CASE active' = active
      BY <1>1, <2>1, <2>3
    <2>4. CASE \E how \in {"block", "unblock", "setmask"}, set \in SUBSET SignalNumber, realtime \in BOOLEAN :
                 sigprocmask(how, set, realtime)
      <3>1. Len(active') = Len(active)
        BY <1>1, <2>4, MaskInv
      <3> QED BY <1>1, <2>1, <3>1
    <2>5. CASE TakePendingSignal
      <3>1. active' = active \/ \E e : active' = Append(active, e)
        BY <2>5 DEF TakePendingSignal, DeliverSignal
      <3>2. Len(active') >= Len(active)
        BY <2>1, <3>1
      <3> QED BY <1>1, <2>1, <3>2, SMTT(20), SMTT(30), Zenon
    <2> QED BY <1>1, <2>2, <2>3, <2>4, <2>5 DEF SignalsNext, Compute, Push, Pop, queueSignal, rtSigaction, vars
  <1>2. SignalsInv /\ [SignalsNext]_vars => [Len(active') < Len(active) => Restored]_vars
    BY <1>1
  <1> QED BY SignalsInvHolds, <1>2, PTL DEF SignalsSpec, ReturnRestores

-----------------------------------------------------------------------------

(* Cutting a queue in two gives two byte sequences that make it up again.  *)
LEMMA CutQueue ==
  ASSUME NEW q \in Seq(Byte), NEW n \in 0..Len(q)
  PROVE  /\ SubSeq(q, 1, n) \in Seq(Byte)
         /\ SubSeq(q, n + 1, Len(q)) \in Seq(Byte)
         /\ SubSeq(q, 1, n) \o SubSeq(q, n + 1, Len(q)) = q
         /\ Len(SubSeq(q, 1, n)) = n
<1>1. \A i \in 1..Len(q) : q[i] \in Byte
  BY ElementOfSeq
<1>2. n \in Nat /\ Len(q) \in Nat /\ n <= Len(q)
  OBVIOUS
<1>3. SubSeq(q, 1, n) \in Seq(Byte) /\ Len(SubSeq(q, 1, n)) = n
  BY <1>1, <1>2, SubSeqProperties
<1>4. SubSeq(q, n + 1, Len(q)) \in Seq(Byte)
  BY <1>1, <1>2, SubSeqProperties
<1>5. SubSeq(q, 1, n) \o SubSeq(q, n + 1, Len(q)) = SubSeq(q, 1, Len(q))
  <2>1. 1 \in 1..Len(q)+1 /\ n \in 1-1..Len(q) /\ Len(q) \in n..Len(q)
    BY <1>2
  <2> QED BY <2>1, ConcatAdjacentSubSeq, Zenon
<1>6. SubSeq(q, 1, Len(q)) = q
  BY SubSeqFull
<1> QED
  BY <1>3, <1>4, <1>5, <1>6, Zenon

(* Every step of the terminal keeps its variables in their types.          *)
LEMMA TypeStep == TypeOK /\ [Next]_tvars => TypeOK'
<1> SUFFICES ASSUME TypeOK, [Next]_tvars PROVE TypeOK'
  OBVIOUS
<1> USE TerminalAssumption DEF TypeOK, Side, ReaderState, Outcome
<1>1. ASSUME NEW data \in Chunk, WriteInput(data) PROVE TypeOK'
  BY <1>1 DEF WriteInput
<1>2. ASSUME NEW data \in Chunk, WriteOutput(data) PROVE TypeOK'
  BY <1>2 DEF WriteOutput
<1>3. CASE Close
  BY <1>3 DEF Close
<1>4. CASE CloseInput
  BY <1>4 DEF CloseInput
<1>5. ASSUME NEW s \in Side, Signal(s) PROVE TypeOK'
  BY <1>5 DEF Signal
<1>6. ASSUME NEW s \in Side, ReadStart(s) PROVE TypeOK'
  BY <1>6 DEF ReadStart
<1>7. ASSUME NEW s \in Side, NEW size \in Size, ReadCheck(s, size) PROVE TypeOK'
  <2>1. CASE Deliverable(s, queue[s])
    <3> DEFINE n == IF size < Len(queue[s]) THEN size ELSE Len(queue[s])
    <3>1. queue[s] \in Seq(Byte) /\ n \in 0..Len(queue[s])
      OBVIOUS
    <3> HIDE DEF n
    <3>2. SubSeq(queue[s], 1, n) \in Seq(Byte) /\ SubSeq(queue[s], n + 1, Len(queue[s])) \in Seq(Byte)
      BY <3>1, CutQueue, SMTT(30)
    <3>3. /\ queue' = [queue EXCEPT ![s] = SubSeq(@, n + 1, Len(@))]
          /\ received' = [received EXCEPT ![s] = @ \o SubSeq(queue[s], 1, n)]
          /\ Return(s, "data")
          /\ UNCHANGED <<wake, closed, inputClosed, cancelled, owed>>
      BY <1>7, <2>1, Zenon DEF ReadCheck, n
    <3>4. received[s] \o SubSeq(queue[s], 1, n) \in Seq(Byte)
      BY <3>2
    <3>5. queue' \in [Side -> Seq(Byte)] /\ received' \in [Side -> Seq(Byte)]
      BY <3>2, <3>3, <3>4, Zenon
    <3> QED BY <3>3, <3>5, Zenon DEF Return
  <2>2. CASE ~Deliverable(s, queue[s])
    BY <1>7, <2>2 DEF ReadCheck, Return
  <2> QED BY <2>1, <2>2
<1>8. ASSUME NEW s \in Side, Woken(s) PROVE TypeOK'
  BY <1>8 DEF Woken
<1>9. ASSUME NEW s \in Side, Abandon(s) PROVE TypeOK'
  BY <1>9 DEF Abandon, Return
<1>10. CASE WaitStart
  BY <1>10 DEF WaitStart
<1>11. CASE WaitCheck
  BY <1>11 DEF WaitCheck, Return
<1>12. CASE DrainOutput
  BY <1>12 DEF DrainOutput
<1>13. ASSUME NEW s \in Side, Cancel(s) PROVE TypeOK'
  BY <1>13 DEF Cancel
<1>14. CASE UNCHANGED tvars
  BY <1>14 DEF tvars
<1> QED
  BY <1>1, <1>2, <1>3, <1>4, <1>5, <1>6, <1>7, <1>8, <1>9, <1>10, <1>11, <1>12, <1>13, <1>14
  DEF Next, ReaderStep

(* The variables of the terminal always have their types.                  *)
THEOREM TerminalTypes == Spec => []TypeOK
<1>1. TermInit => TypeOK
  <2> SUFFICES ASSUME TermInit PROVE TypeOK
    OBVIOUS
  <2>1. queue \in [Side -> Seq(Byte)] /\ received \in [Side -> Seq(Byte)]
    BY EmptySeq DEF TermInit
  <2>2. wake \in [Side -> BOOLEAN] /\ cancelled \in [Side -> BOOLEAN]
    BY DEF TermInit
  <2> QED
    BY <2>1, <2>2, Zenon DEF TermInit, TypeOK, ReaderState, Outcome
<1> QED
  BY <1>1, TypeStep, PTL DEF Spec

-----------------------------------------------------------------------------
(* One step of any goroutine cannot lose a wake-up.  The steps that make a *)
(* waiting reader's call satisfiable (the two writes, Close, CloseInput)   *)
(* leave a token or a debt behind; the steps that consume a token (Woken)  *)
(* end the wait; the steps that begin a wait (ReadCheck, WaitCheck) do so  *)
(* only when the call is not satisfiable.                                  *)
LEMMA WakeupStep == TypeOK /\ NoLostWakeup /\ [Next]_tvars => NoLostWakeup'
<1> SUFFICES ASSUME TypeOK, NoLostWakeup, [Next]_tvars, NEW r \in Side,
                    Waiting(r)', Satisfied(r)'
             PROVE  wake[r]' \/ owed[r]' > 0
  BY DEF NoLostWakeup
<1>0. Waiting(r) /\ Satisfied(r) => wake[r] \/ owed[r] > 0
  BY DEF NoLostWakeup
<1> USE DEF Waiting, Satisfied, Shut
<1>1. ASSUME NEW data \in Chunk, WriteInput(data) PROVE wake[r]' \/ owed[r]' > 0
  BY <1>0, <1>1, Zenon DEF WriteInput, TypeOK, Side
<1>2. ASSUME NEW data \in Chunk, WriteOutput(data) PROVE wake[r]' \/ owed[r]' > 0
  BY <1>0, <1>2 DEF WriteOutput, TypeOK, Side
<1>3. CASE Close
  BY <1>3 DEF Close, TypeOK, Side
<1>4. CASE CloseInput
  BY <1>0, <1>4 DEF CloseInput, TypeOK, Side
<1>5. ASSUME NEW s \in Side, Signal(s) PROVE wake[r]' \/ owed[r]' > 0
  BY <1>0, <1>5 DEF Signal, TypeOK, Side
<1>6. ASSUME NEW s \in Side, ReadStart(s) PROVE wake[r]' \/ owed[r]' > 0
  BY <1>0, <1>6 DEF ReadStart, TypeOK, Side
<1>7. ASSUME NEW s \in Side, NEW size \in Size, ReadCheck(s, size) PROVE wake[r]' \/ owed[r]' > 0
  <2>1. CASE Deliverable(s, queue[s])
    BY <1>0, <1>7, <2>1, SMTT(20), SMTT(30), Zenon DEF ReadCheck, Return, TypeOK, Side
  <2>2. CASE ~Deliverable(s, queue[s])
    BY <1>0, <1>7, <2>2 DEF ReadCheck, Return, TypeOK, Side
  <2> QED BY <2>1, <2>2
<1>8. ASSUME NEW s \in Side, Woken(s) PROVE wake[r]' \/ owed[r]' > 0
  BY <1>0, <1>8 DEF Woken, TypeOK, Side
<1>9. ASSUME NEW s \in Side, Abandon(s) PROVE wake[r]' \/ owed[r]' > 0
  BY <1>0, <1>9 DEF Abandon, Return, TypeOK, Side
<1>10. CASE WaitStart
  BY <1>0, <1>10 DEF WaitStart, TypeOK, Side
<1>11. CASE WaitCheck
  BY <1>0, <1>11 DEF WaitCheck, inputReadyLocked, Return, TypeOK, Side
<1>12. CASE DrainOutput
  BY <1>0, <1>12 DEF DrainOutput, Deliverable, TypeOK, Side
<1>13. ASSUME NEW s \in Side, Cancel(s) PROVE wake[r]' \/ owed[r]' > 0
  BY <1>0, <1>13 DEF Cancel, TypeOK, Side
<1>14. CASE UNCHANGED tvars
  BY <1>0, <1>14 DEF tvars
<1> QED
  BY <1>1, <1>2, <1>3, <1>4, <1>5, <1>6, <1>7, <1>8, <1>9, <1>10, <1>11, <1>12, <1>13, <1>14
  DEF Next, ReaderStep

(* No wake-up of a terminal reader is ever lost, for any bytes, chunk and  *)
(* buffer sizes and any number of writers and closers.                     *)
THEOREM NeverLosesWakeup == Spec => []NoLostWakeup
<1>1. TermInit => NoLostWakeup
  BY DEF TermInit, NoLostWakeup, Waiting, Side
<1>2. Spec => []TypeOK
  BY TerminalTypes
<1> QED
  BY <1>1, <1>2, WakeupStep, PTL DEF Spec

-----------------------------------------------------------------------------
(* Both directions implement Stream.  A reader inside a call has not yet   *)
(* an outcome.                                                             *)
InsideHasNone == \A s \in Side : reader[s] # "idle" => outcome[s] = "none"

(* What the reader was given, followed by what is queued, is what was      *)
(* sent; behind the first of these lies the second.                        *)
LEMMA BehindReceived ==
  ASSUME NEW r \in Seq(Byte), NEW q \in Seq(Byte)
  PROVE  /\ r \o q \in Seq(Byte) /\ Len(r \o q) = Len(r) + Len(q) /\ Len(r) \in Nat /\ Len(q) \in Nat
         /\ SubSeq(r \o q, Len(r) + 1, Len(r \o q)) = q
<1>1. r \o q \in Seq(Byte) /\ Len(r \o q) = Len(r) + Len(q) /\ Len(r) \in Nat /\ Len(q) \in Nat
  BY ConcatProperties
<1>2. CASE q = <<>>
  <2>1. Len(r \o q) < Len(r) + 1
    BY <1>1, <1>2
  <2> QED BY <1>1, <1>2, <2>1, SubSeqEmpty
<1>3. CASE q # <<>>
  <2>1. Len(q) > 0
    BY <1>1, <1>3
  <2>2. Len(r) + 1 \in Len(r) + 1 .. Len(r) + Len(q) /\ Len(r \o q) \in Len(r) + 1 .. Len(r) + Len(q)
    BY <1>1, <2>1
  <2>3. SubSeq(r \o q, Len(r) + 1, Len(r \o q)) = SubSeq(q, Len(r) + 1 - Len(r), Len(r \o q) - Len(r))
    BY <2>2, SubSeqOfConcat2
  <2>4. Len(r) + 1 - Len(r) = 1 /\ Len(r \o q) - Len(r) = Len(q)
    BY <1>1
  <2> QED BY <1>1, <2>3, <2>4, SubSeqFull
<1> QED BY <1>1, <1>2, <1>3

(* A write extends what was sent.                                          *)
LEMMA WriteExtends ==
  ASSUME NEW r \in Seq(Byte), NEW q \in Seq(Byte), NEW d \in Seq(Byte), d # <<>>
  PROVE  /\ Len(r \o (q \o d)) > Len(r \o q)
         /\ SubSeq(r \o (q \o d), 1, Len(r \o q)) = r \o q
<1> DEFINE t == r \o q
<1>1. t \in Seq(Byte) /\ r \o (q \o d) = t \o d
  BY ConcatAssociative, SMTT(20), SMTT(30), Zenon
<1> HIDE DEF t
<1>2. Len(t \o d) = Len(t) + Len(d) /\ Len(t) \in Nat /\ Len(d) \in Nat /\ Len(d) > 0
  BY <1>1, ConcatProperties
<1>3. SubSeq(t \o d, 1, Len(t)) = t
  <2>1. CASE t = <<>>
    BY <1>2, <2>1, SubSeqEmpty
  <2>2. CASE t # <<>>
    <3>1. 1 \in 1..Len(t) /\ Len(t) \in 1..Len(t)
      BY <1>1, <1>2, <2>2
    <3> QED BY <1>1, <3>1, SubSeqOfConcat1, SubSeqFull
  <2> QED BY <2>1, <2>2
<1> QED BY <1>1, <1>2, <1>3 DEF t

(* Three pieces in a row.                                                  *)
LEMMA Regroup ==
  ASSUME NEW x \in Seq(Byte), NEW y \in Seq(Byte), NEW z \in Seq(Byte)
  PROVE  (x \o y) \o z = x \o (y \o z)
<1>1. /\ (x \o y) \o z \in Seq(Byte) /\ x \o (y \o z) \in Seq(Byte)
      /\ Len((x \o y) \o z) = Len(x \o (y \o z))
  OBVIOUS
<1>2. \A i \in 1..Len((x \o y) \o z) : ((x \o y) \o z)[i] = (x \o (y \o z))[i]
  OBVIOUS
<1> QED BY <1>1, <1>2, SeqEqual, SMTT(30)

(* A read moves bytes from the queue to the reader and loses none.         *)
LEMMA ReadMoves ==
  ASSUME NEW r \in Seq(Byte), NEW q \in Seq(Byte), NEW n \in 1..Len(q)
  PROVE  /\ (r \o SubSeq(q, 1, n)) \o SubSeq(q, n + 1, Len(q)) = r \o q
         /\ Len(r \o SubSeq(q, 1, n)) \in Len(r) + 1 .. Len(r \o q)
<1> DEFINE a == SubSeq(q, 1, n)
           b == SubSeq(q, n + 1, Len(q))
<1>1. n \in 0..Len(q)
  OBVIOUS
<1>2. a \in Seq(Byte) /\ b \in Seq(Byte) /\ a \o b = q /\ Len(a) = n
  BY <1>1, CutQueue
<1> HIDE DEF a, b
<1>3. (r \o a) \o b = r \o q
  <2>1. (r \o a) \o b = r \o (a \o b)
    BY <1>2, Regroup, ZenonT(40)
  <2> QED BY <1>2, <2>1
<1>4. Len(r \o a) = Len(r) + n /\ Len(r \o q) = Len(r) + Len(q) /\ Len(r) \in Nat /\ Len(q) \in Nat
  <2>1. Len(r \o a) = Len(r) + Len(a) /\ Len(r \o q) = Len(r) + Len(q)
    BY <1>2, ConcatProperties, Zenon
  <2>2. Len(r) \in Nat /\ Len(q) \in Nat
    OBVIOUS
  <2> QED BY <1>2, <2>1, <2>2
<1>5. Len(r \o a) \in Len(r) + 1 .. Len(r \o q)
  BY <1>4
<1> QED BY <1>3, <1>5, Zenon DEF a, b

-----------------------------------------------------------------------------
(* What one step of any goroutine may do to side s.                        *)
Keeps(s) == /\ queue'[s] = queue[s] /\ received'[s] = received[s]
            /\ Shut(s)' = Shut(s) /\ (outcome'[s] = "eof") = (outcome[s] = "eof")

Sends(s) == /\ ~Shut(s) /\ Shut(s)' = Shut(s)
            /\ \E data \in Seq(Byte) : data # <<>> /\ queue'[s] = queue[s] \o data
            /\ received'[s] = received[s] /\ outcome'[s] = outcome[s]

Takes(s) == /\ Deliverable(s, queue[s]) /\ Shut(s)' = Shut(s)
            /\ \E n \in 1..Len(queue[s]) : /\ queue'[s] = SubSeq(queue[s], n + 1, Len(queue[s]))
                                          /\ received'[s] = received[s] \o SubSeq(queue[s], 1, n)
            /\ (outcome'[s] = "eof") = (outcome[s] = "eof")

Shuts(s) == /\ ~Shut(s) /\ Shut(s)'
            /\ queue'[s] = queue[s] /\ received'[s] = received[s] /\ outcome'[s] = outcome[s]

EndsRead(s) == /\ Shut(s) /\ ~Deliverable(s, queue[s]) /\ outcome'[s] = "eof"
               /\ queue'[s] = queue[s] /\ received'[s] = received[s] /\ Shut(s)' = Shut(s)

Restarts(s) == /\ outcome[s] = "eof" /\ outcome'[s] # "eof"
               /\ queue'[s] = queue[s] /\ received'[s] = received[s] /\ Shut(s)' = Shut(s)

StreamStep(s) == Keeps(s) \/ Sends(s) \/ Takes(s) \/ Shuts(s) \/ EndsRead(s) \/ Restarts(s)

(* No step does anything else.                                             *)
LEMMA StepsAreStreamSteps ==
  ASSUME TypeOK, InsideHasNone, [Next]_tvars, NEW r \in Side
  PROVE  StreamStep(r)
<1> USE DEF StreamStep
<1>0. r = "input" \/ r = "output"
  BY DEF Side
<1>1. ASSUME NEW data \in Chunk, WriteInput(data) PROVE StreamStep(r)
  <2>1. data \in Seq(Byte) /\ data # <<>>
    BY TerminalAssumption
  <2>2. CASE r = "input" \/ Echo
    BY <1>0, <1>1, <2>1, <2>2 DEF WriteInput, Sends, Shut
  <2>3. CASE ~(r = "input" \/ Echo)
    BY <1>0, <1>1, <2>3 DEF WriteInput, Keeps, Shut
  <2> QED BY <2>2, <2>3
<1>2. ASSUME NEW data \in Chunk, WriteOutput(data) PROVE StreamStep(r)
  <2>1. data \in Seq(Byte) /\ data # <<>>
    BY TerminalAssumption
  <2>2. CASE r = "output"
    BY <1>2, <2>1, <2>2, Zenon DEF WriteOutput, Sends, Shut, TypeOK
  <2>3. CASE r = "input"
    BY <1>2, <2>3 DEF WriteOutput, Keeps, Shut, TypeOK
  <2> QED BY <1>0, <2>2, <2>3
<1>3. CASE Close \/ CloseInput
  BY <1>0, <1>3 DEF Close, CloseInput, Keeps, Shuts, Shut
<1>4. ASSUME NEW s \in Side, ReadStart(s) PROVE StreamStep(r)
  BY <1>4 DEF ReadStart, Keeps, Restarts, Shut, TypeOK
<1>5. ASSUME NEW s \in Side, NEW size \in Size, ReadCheck(s, size) PROVE StreamStep(r)
  <2>1. CASE r # s
    BY <1>5, <2>1, SMTT(20), SMTT(30), Zenon DEF ReadCheck, Return, Keeps, Shut, TypeOK
  <2>2. CASE r = s /\ Deliverable(s, queue[s])
    <3> DEFINE n == IF size < Len(queue[s]) THEN size ELSE Len(queue[s])
    <3>1. queue[s] \in Seq(Byte) /\ queue[s] # <<>> /\ size \in Nat \ {0}
      BY <2>2, TerminalAssumption DEF TypeOK, Deliverable
    <3>2. n \in 1..Len(queue[s])
      BY <3>1
    <3>3. /\ queue' = [queue EXCEPT ![s] = SubSeq(@, n + 1, Len(@))]
          /\ received' = [received EXCEPT ![s] = @ \o SubSeq(queue[s], 1, n)]
          /\ outcome' = [outcome EXCEPT ![s] = "data"] /\ outcome[s] = "none"
          /\ UNCHANGED <<closed, inputClosed>>
      BY <1>5, <2>2, Zenon DEF ReadCheck, Return, InsideHasNone
    <3> HIDE DEF n
    <3>4. /\ queue'[s] = SubSeq(queue[s], n + 1, Len(queue[s]))
          /\ received'[s] = received[s] \o SubSeq(queue[s], 1, n) /\ outcome'[s] = "data"
      BY <3>3, Zenon DEF TypeOK
    <3> QED BY <2>2, <3>2, <3>3, <3>4, Zenon DEF Takes, Shut
  <2>3. CASE r = s /\ ~Deliverable(s, queue[s])
    BY <1>5, <2>3 DEF ReadCheck, Return, EndsRead, Keeps, Shut, TypeOK
  <2> QED BY <2>1, <2>2, <2>3
<1>6. ASSUME NEW s \in Side, Abandon(s) PROVE StreamStep(r)
  BY <1>6, Zenon DEF Abandon, Return, Keeps, Shut, TypeOK, InsideHasNone
<1>7. CASE WaitStart
  BY <1>7 DEF WaitStart, Keeps, Restarts, Shut, TypeOK, Side
<1>8. CASE WaitCheck
  BY <1>8 DEF WaitCheck, Return, Keeps, Shut, TypeOK, InsideHasNone, Side
<1>9. CASE DrainOutput
  <2>1. CASE r = "input"
    BY <1>9, <2>1 DEF DrainOutput, Keeps, Shut, TypeOK
  <2>2. CASE r = "output"
    <3> DEFINE q == queue["output"]
               n == Len(q)
    <3>1. q \in Seq(Byte) /\ q # <<>>
      BY <1>9 DEF DrainOutput, TypeOK, Side
    <3>2. /\ queue'["output"] = <<>> /\ received'["output"] = received["output"] \o q
          /\ UNCHANGED <<closed, inputClosed, outcome>>
      BY <1>9 DEF DrainOutput, TypeOK, Side
    <3> HIDE DEF q
    <3>3. n \in 1..n /\ SubSeq(q, 1, n) = q /\ SubSeq(q, n + 1, n) = <<>>
      BY <3>1, SubSeqFull, SubSeqEmpty
    <3>4. Deliverable("output", q)
      BY <3>1 DEF Deliverable
    <3> QED BY <2>2, <3>2, <3>3, <3>4, Zenon DEF Takes, Shut, q
  <2> QED BY <1>0, <2>1, <2>2
<1>10. CASE (\E s \in Side : Signal(s) \/ Woken(s) \/ Cancel(s)) \/ UNCHANGED tvars
  BY <1>10, SMTT(20), SMTT(30), Zenon DEF Signal, Woken, Cancel, tvars, Keeps, Shut
<1> QED
  BY <1>1, <1>2, <1>3, <1>4, <1>5, <1>6, <1>7, <1>8, <1>9, <1>10 DEF Next, ReaderStep

(* A call ends with an outcome and the next one begins without.            *)
LEMMA InsideStep == ASSUME TypeOK, InsideHasNone, [Next]_tvars PROVE InsideHasNone'
<1> SUFFICES ASSUME NEW r \in Side, reader'[r] # "idle" PROVE outcome'[r] = "none"
  BY DEF InsideHasNone
<1> USE DEF InsideHasNone, TypeOK, Side
<1>1. CASE UNCHANGED <<reader, outcome>>
  BY <1>1
<1>2. ASSUME NEW s \in Side, ReadStart(s) \/ Woken(s) \/ Abandon(s) PROVE outcome'[r] = "none"
  BY <1>2 DEF ReadStart, Woken, Abandon, Return
<1>3. ASSUME NEW s \in Side, NEW size \in Size, ReadCheck(s, size) PROVE outcome'[r] = "none"
  BY <1>3, Zenon DEF ReadCheck, Return
<1>4. CASE WaitStart \/ WaitCheck
  BY <1>4 DEF WaitStart, WaitCheck, Return
<1> QED
  BY <1>1, <1>2, <1>3, <1>4
  DEF Next, ReaderStep, WriteInput, WriteOutput, Close, CloseInput, Signal, Cancel, DrainOutput, tvars

(* A step of side "input" is a step of its stream.                      *)
LEMMA InputImplements ==
  ASSUME TypeOK, StreamStep("input")
  PROVE  [InputStream!Next]_<<received["input"] \o queue["input"], Len(received["input"]), ~Shut("input"), outcome["input"] = "eof">>
<1> DEFINE r == received["input"]
           q == queue["input"]
<1>1. r \in Seq(Byte) /\ q \in Seq(Byte)
  BY DEF TypeOK, Side
<1>2. SubSeq(r \o q, Len(r) + 1, Len(r \o q)) = q
  BY <1>1, BehindReceived, Zenon
<1>3. InputStream!Buffered = q
  BY <1>2, Zenon DEF InputStream!Buffered
<1>4. CASE Keeps("input")
  BY <1>4 DEF Keeps
<1>5. CASE Sends("input")
  <2>1. PICK data \in Seq(Byte) : data # <<>> /\ queue'["input"] = q \o data
    BY <1>5 DEF Sends
  <2>2. Len(r \o (q \o data)) > Len(r \o q) /\ SubSeq(r \o (q \o data), 1, Len(r \o q)) = r \o q
    BY <1>1, <2>1, WriteExtends, Zenon
  <2>3. InputStream!Send
    BY <1>5, <2>1, <2>2, Zenon DEF Sends, InputStream!Send
  <2> QED BY <2>3 DEF InputStream!Next
<1>6. CASE Takes("input")
  <2>1. PICK n \in 1..Len(q) : /\ queue'["input"] = SubSeq(q, n + 1, Len(q))
                               /\ received'["input"] = r \o SubSeq(q, 1, n)
    BY <1>6, Zenon DEF Takes
  <2>2. /\ (r \o SubSeq(q, 1, n)) \o SubSeq(q, n + 1, Len(q)) = r \o q
        /\ Len(r \o SubSeq(q, 1, n)) \in Len(r) + 1 .. Len(r \o q)
    BY <1>1, ReadMoves, Zenon
  <2>3. InputStream!Take
    BY <1>3, <1>6, <2>1, <2>2, Zenon DEF Takes, InputStream!Take, InputDeliverable
  <2> QED BY <2>3 DEF InputStream!Next
<1>7. CASE Shuts("input")
  <2>1. InputStream!Shut
    BY <1>7 DEF Shuts, InputStream!Shut
  <2> QED BY <2>1 DEF InputStream!Next
<1>8. CASE EndsRead("input")
  <2>1. InputStream!End
    BY <1>3, <1>8 DEF EndsRead, InputStream!End, InputDeliverable
  <2> QED BY <2>1 DEF InputStream!Next
<1>9. CASE Restarts("input")
  <2>1. InputStream!Again
    BY <1>9 DEF Restarts, InputStream!Again
  <2> QED BY <2>1 DEF InputStream!Next
<1> QED BY <1>4, <1>5, <1>6, <1>7, <1>8, <1>9, Zenon DEF StreamStep

(* A step of side "output" is a step of its stream.                      *)
LEMMA OutputImplements ==
  ASSUME TypeOK, StreamStep("output")
  PROVE  [OutputStream!Next]_<<received["output"] \o queue["output"], Len(received["output"]), ~Shut("output"), outcome["output"] = "eof">>
<1> DEFINE r == received["output"]
           q == queue["output"]
<1>1. r \in Seq(Byte) /\ q \in Seq(Byte)
  BY DEF TypeOK, Side
<1>2. SubSeq(r \o q, Len(r) + 1, Len(r \o q)) = q
  BY <1>1, BehindReceived, Zenon
<1>3. OutputStream!Buffered = q
  BY <1>2, Zenon DEF OutputStream!Buffered
<1>4. CASE Keeps("output")
  BY <1>4 DEF Keeps
<1>5. CASE Sends("output")
  <2>1. PICK data \in Seq(Byte) : data # <<>> /\ queue'["output"] = q \o data
    BY <1>5 DEF Sends
  <2>2. Len(r \o (q \o data)) > Len(r \o q) /\ SubSeq(r \o (q \o data), 1, Len(r \o q)) = r \o q
    BY <1>1, <2>1, WriteExtends, Zenon
  <2>3. OutputStream!Send
    BY <1>5, <2>1, <2>2, Zenon DEF Sends, OutputStream!Send
  <2> QED BY <2>3 DEF OutputStream!Next
<1>6. CASE Takes("output")
  <2>1. PICK n \in 1..Len(q) : /\ queue'["output"] = SubSeq(q, n + 1, Len(q))
                               /\ received'["output"] = r \o SubSeq(q, 1, n)
    BY <1>6, Zenon DEF Takes
  <2>2. /\ (r \o SubSeq(q, 1, n)) \o SubSeq(q, n + 1, Len(q)) = r \o q
        /\ Len(r \o SubSeq(q, 1, n)) \in Len(r) + 1 .. Len(r \o q)
    BY <1>1, ReadMoves, Zenon
  <2>3. OutputStream!Take
    BY <1>3, <1>6, <2>1, <2>2, Zenon DEF Takes, OutputStream!Take, OutputDeliverable
  <2> QED BY <2>3 DEF OutputStream!Next
<1>7. CASE Shuts("output")
  <2>1. OutputStream!Shut
    BY <1>7 DEF Shuts, OutputStream!Shut
  <2> QED BY <2>1 DEF OutputStream!Next
<1>8. CASE EndsRead("output")
  <2>1. OutputStream!End
    BY <1>3, <1>8 DEF EndsRead, OutputStream!End, OutputDeliverable
  <2> QED BY <2>1 DEF OutputStream!Next
<1>9. CASE Restarts("output")
  <2>1. OutputStream!Again
    BY <1>9 DEF Restarts, OutputStream!Again
  <2> QED BY <2>1 DEF OutputStream!Next
<1> QED BY <1>4, <1>5, <1>6, <1>7, <1>8, <1>9, Zenon DEF StreamStep

(* Each direction of the terminal is a byte stream, for any bytes, chunks  *)
(* and buffer sizes, with and without echo and canonical mode: whatever    *)
(* writers, readers and closers do, no byte is lost, repeated or moved,    *)
(* and io.EOF comes only at the end.                                       *)
THEOREM DirectionsAreStreams == Spec => BothAreStreams
<1>1. TermInit => InsideHasNone
  BY DEF TermInit, InsideHasNone
<1>2. TypeOK /\ InsideHasNone /\ [Next]_tvars => InsideHasNone'
  BY InsideStep
<1>3. TermInit => InputStream!Init /\ OutputStream!Init
  BY DEF TermInit, InputStream!Init, OutputStream!Init, Shut, Side
<1>4. TypeOK /\ InsideHasNone /\ [Next]_tvars =>
        [InputStream!Next]_<<received["input"] \o queue["input"], Len(received["input"]), ~Shut("input"), outcome["input"] = "eof">>
  BY StepsAreStreamSteps, InputImplements, Zenon DEF Side
<1>5. TypeOK /\ InsideHasNone /\ [Next]_tvars =>
        [OutputStream!Next]_<<received["output"] \o queue["output"], Len(received["output"]), ~Shut("output"), outcome["output"] = "eof">>
  BY StepsAreStreamSteps, OutputImplements, Zenon DEF Side
<1> QED
  BY <1>1, <1>2, <1>3, <1>4, <1>5, TerminalTypes, PTL
  DEF Spec, BothAreStreams, InputStream!Spec, OutputStream!Spec, InputStream!svars, OutputStream!svars

-----------------------------------------------------------------------------
(* ishrun -interactive.  The end-of-file that main saw is final: the       *)
(* terminal is closed and its output queue empty.  A read is cut short     *)
(* only by the context.  Once main stops reading nothing more is read, so  *)
(* what its last call returned stays.                                      *)
ShownInv ==
  /\ queue \in [Side -> Seq(Byte)] /\ outcome \in [Side -> Outcome] /\ cancelled \in [Side -> BOOLEAN]
  /\ outcome["output"] = "eof" => closed /\ queue["output"] = <<>>
  /\ outcome["output"] = "cancelled" => cancelled["output"]
  /\ main # "read" => outcome["output"] \in {"eof", "cancelled"}

(* A step that leaves the output side, its end and main as they were.      *)
LEMMA ShownSame ==
  ASSUME ShownInv, queue' \in [Side -> Seq(Byte)], outcome' \in [Side -> Outcome], cancelled' \in [Side -> BOOLEAN],
         closed => closed' /\ queue'["output"] = queue["output"],
         outcome'["output"] = outcome["output"], cancelled["output"] => cancelled'["output"], main' = main
  PROVE  ShownInv'
BY DEF ShownInv

(* Main's own reads.  End-of-file comes only from a closed terminal whose  *)
(* output queue is empty, a cancelled read only from a done context.       *)
LEMMA MainReadsShown ==
  ASSUME ShownInv, MainReads
  PROVE  ShownInv'
<1> USE DEF Side
<1>0. /\ queue \in [Side -> Seq(Byte)] /\ outcome \in [Side -> Outcome] /\ cancelled \in [Side -> BOOLEAN]
      /\ main' = main /\ main = "read"
  BY DEF ShownInv, MainReads
<1>1. CASE ReadStart("output")
  <2>1. UNCHANGED <<queue, closed, cancelled>> /\ outcome' = [outcome EXCEPT !["output"] = "none"]
    BY <1>1 DEF ReadStart
  <2> QED BY <1>0, <2>1 DEF ShownInv, Outcome
<1>2. ASSUME NEW size \in Size, ReadCheck("output", size) PROVE ShownInv'
  <2>1. UNCHANGED <<closed, cancelled>>
    BY <1>2 DEF ReadCheck
  <2>2. CASE Deliverable("output", queue["output"])
    <3> DEFINE n == IF size < Len(queue["output"]) THEN size ELSE Len(queue["output"])
    <3>1. queue["output"] \in Seq(Byte) /\ n \in 0..Len(queue["output"])
      BY <1>0, TerminalAssumption
    <3>2. /\ queue' = [queue EXCEPT !["output"] = SubSeq(@, n + 1, Len(@))]
          /\ outcome' = [outcome EXCEPT !["output"] = "data"]
      BY <1>2, <2>2 DEF ReadCheck, Return
    <3> HIDE DEF n
    <3>3. SubSeq(queue["output"], n + 1, Len(queue["output"])) \in Seq(Byte)
      BY <3>1, CutQueue
    <3> QED BY <1>0, <2>1, <3>2, <3>3 DEF ShownInv, Outcome
  <2>3. CASE ~Deliverable("output", queue["output"]) /\ Shut("output")
    <3>1. queue' = queue /\ outcome' = [outcome EXCEPT !["output"] = "eof"]
      BY <1>2, <2>3 DEF ReadCheck, Return
    <3>2. queue["output"] = <<>> /\ closed
      BY <2>3 DEF Deliverable, Shut
    <3> QED BY <1>0, <2>1, <3>1, <3>2 DEF ShownInv, Outcome
  <2>4. CASE ~Deliverable("output", queue["output"]) /\ ~Shut("output")
    <3>1. queue' = queue /\ outcome' = outcome
      BY <1>2, <2>4 DEF ReadCheck
    <3> QED BY <1>0, <2>1, <3>1 DEF ShownInv
  <2> QED BY <2>2, <2>3, <2>4
<1>3. CASE Woken("output")
  BY <1>0, <1>3, ShownSame DEF Woken
<1>4. CASE Abandon("output")
  <2>1. /\ UNCHANGED <<queue, closed, cancelled>> /\ cancelled["output"]
        /\ outcome' = [outcome EXCEPT !["output"] = "cancelled"]
    BY <1>4 DEF Abandon, Return
  <2> QED BY <1>0, <2>1 DEF ShownInv, Outcome
<1> QED BY <1>1, <1>2, <1>3, <1>4 DEF MainReads, ReaderStep

(* The guest's calls work on the input side, except for its writes, which  *)
(* a closed terminal refuses.                                              *)
LEMMA GuestShown ==
  ASSUME ShownInv, GuestStep \/ PollTimeout
  PROVE  ShownInv'
<1> USE DEF Side
<1>0. queue \in [Side -> Seq(Byte)] /\ outcome \in [Side -> Outcome] /\ cancelled \in [Side -> BOOLEAN]
  BY DEF ShownInv
<1>1. main' = main
  BY DEF GuestStep, PollTimeout, RunHead, RunReturns, GuestComputes, GuestWrites, GuestReads, GuestPolls,
         GuestInCall, GuestCallReturns, SendDone, CloseTTY
<1>2. CASE RunHead \/ RunReturns \/ GuestComputes \/ GuestCallReturns \/ SendDone
  BY <1>0, <1>1, <1>2, ShownSame DEF RunHead, RunReturns, GuestComputes, GuestCallReturns, SendDone, tvars
<1>3. CASE GuestWrites
  <2>1. PICK data \in Chunk : WriteOutput(data)
    BY <1>3 DEF GuestWrites
  <2>2. ~closed /\ queue' = [queue EXCEPT !["output"] = @ \o data] /\ UNCHANGED <<outcome, cancelled>>
    BY <2>1 DEF WriteOutput
  <2>3. queue["output"] \o data \in Seq(Byte)
    BY <1>0, TerminalAssumption
  <2> QED BY <1>0, <1>1, <2>2, <2>3, ShownSame
<1>4. CASE GuestReads \/ GuestPolls \/ PollTimeout
  <2>1. /\ UNCHANGED <<queue, closed, cancelled>>
        /\ \E res \in {"none", "cancelled"} : outcome' = [outcome EXCEPT !["input"] = res]
    BY <1>4 DEF GuestReads, GuestPolls, PollTimeout, ReadStart, WaitStart, Return
  <2> QED BY <1>0, <1>1, <2>1, ShownSame DEF Outcome
<1>5. CASE GuestInCall
  <2>1. ASSUME NEW size \in Size, ReadCheck("input", size) PROVE ShownInv'
    <3>1. UNCHANGED <<closed, cancelled>>
      BY <2>1 DEF ReadCheck
    <3>2. CASE Deliverable("input", queue["input"])
      <4> DEFINE n == IF size < Len(queue["input"]) THEN size ELSE Len(queue["input"])
      <4>1. queue["input"] \in Seq(Byte) /\ n \in 0..Len(queue["input"])
        BY <1>0, TerminalAssumption
      <4>2. /\ queue' = [queue EXCEPT !["input"] = SubSeq(@, n + 1, Len(@))]
            /\ outcome' = [outcome EXCEPT !["input"] = "data"]
        BY <2>1, <3>2 DEF ReadCheck, Return
      <4> HIDE DEF n
      <4>3. SubSeq(queue["input"], n + 1, Len(queue["input"])) \in Seq(Byte)
        BY <4>1, CutQueue
      <4> QED BY <1>0, <1>1, <3>1, <4>2, <4>3, ShownSame DEF Outcome
    <3>3. CASE ~Deliverable("input", queue["input"])
      <4>1. queue' = queue /\ (outcome' = outcome \/ outcome' = [outcome EXCEPT !["input"] = "eof"])
        BY <2>1, <3>3 DEF ReadCheck, Return
      <4> QED BY <1>0, <1>1, <3>1, <4>1, ShownSame DEF Outcome
    <3> QED BY <3>2, <3>3
  <2>2. CASE Woken("input")
    BY <1>0, <1>1, <2>2, ShownSame DEF Woken
  <2>3. CASE Abandon("input") \/ WaitCheck
    <3>1. /\ UNCHANGED <<queue, closed, cancelled>>
          /\ outcome' = outcome \/ \E res \in {"ready", "cancelled"} : outcome' = [outcome EXCEPT !["input"] = res]
      BY <2>3 DEF Abandon, WaitCheck, Return
    <3> QED BY <1>0, <1>1, <3>1, ShownSame DEF Outcome
  <2> QED BY <1>5, <2>1, <2>2, <2>3 DEF GuestInCall, ReaderStep
<1>6. CASE CloseTTY
  BY <1>0, <1>1, <1>6, ShownSame DEF CloseTTY, Close
<1> QED BY <1>2, <1>3, <1>4, <1>5, <1>6 DEF GuestStep

(* Every step of ishrun keeps the invariant.                               *)
LEMMA ShownStep == ShownInv /\ [InteractiveNext]_ivars => ShownInv'
<1> SUFFICES ASSUME ShownInv, [InteractiveNext]_ivars PROVE ShownInv'
  OBVIOUS
<1> USE DEF Side
<1>0. queue \in [Side -> Seq(Byte)] /\ outcome \in [Side -> Outcome] /\ cancelled \in [Side -> BOOLEAN]
  BY DEF ShownInv
<1>1. CASE GuestStep \/ PollTimeout
  BY <1>1, GuestShown
<1>2. CASE StdinCopies
  <2>1. PICK data \in Chunk : WriteInput(data)
    BY <1>2 DEF StdinCopies
  <2>2. /\ ~closed /\ UNCHANGED <<outcome, cancelled, main>>
        /\ queue' = [s \in Side |-> IF s = "input" \/ Echo THEN queue[s] \o data ELSE queue[s]]
    BY <1>2, <2>1, Zenon DEF WriteInput, StdinCopies
  <2>3. \A s \in Side : queue[s] \o data \in Seq(Byte) /\ queue[s] \in Seq(Byte)
    BY <1>0, TerminalAssumption
  <2>4. queue' \in [Side -> Seq(Byte)]
    BY <2>2, <2>3
  <2> QED BY <1>0, <2>2, <2>4, ShownSame
<1>3. CASE StdinEnds \/ SendSignal
  BY <1>0, <1>3, ShownSame DEF StdinEnds, SendSignal, CloseInput, Signal
<1>4. CASE TimeoutFires
  BY <1>0, <1>4, ShownSame DEF TimeoutFires, Cancel
<1>5. CASE MainReads
  BY <1>5, MainReadsShown
<1>6. CASE MainStopsReading \/ MainJoins
  BY <1>6 DEF MainStopsReading, MainJoins, ShownInv, tvars
<1>7. CASE UNCHANGED ivars
  BY <1>7 DEF ivars, tvars, ShownInv
<1> QED BY <1>1, <1>2, <1>3, <1>4, <1>5, <1>6, <1>7 DEF InteractiveNext, MainStep

(* Whatever the guest, standard input and the goroutines that close the    *)
(* terminal do, ishrun leaves no byte of output behind unless its timeout  *)
(* fired: for any bytes, chunks and buffer sizes, with and without echo.   *)
THEOREM InteractiveShowsAll == InteractiveSpec => []AllOutputShown
<1>1. InteractiveInit => ShownInv
  <2> SUFFICES ASSUME InteractiveInit PROVE ShownInv
    OBVIOUS
  <2>1. queue \in [Side -> Seq(Byte)] /\ cancelled \in [Side -> BOOLEAN] /\ outcome \in [Side -> Outcome]
    BY EmptySeq DEF InteractiveInit, TermInit, Outcome
  <2> QED BY <2>1 DEF InteractiveInit, TermInit, ShownInv, Side
<1>2. ShownInv /\ [InteractiveNext]_ivars => ShownInv'
  BY ShownStep
<1>3. ShownInv => AllOutputShown
  BY DEF ShownInv, AllOutputShown, ctxDone
<1> QED BY <1>1, <1>2, <1>3, PTL DEF InteractiveSpec
=============================================================================
