--------------------------- MODULE Session_proofs ---------------------------
(* Proofs about module Session, for any number of calls and typists, and   *)
(* about the window over it in module Window, for any amount of output;    *)
(* and about module Scheduler, for any number of tasks and any budget.     *)
EXTENDS Window, Scheduler, SequenceTheorems, WellFoundedInduction, TLAPS

Installed == {c \in Call \ Elf : pc[c] \in {"run", "close", "clear"}}

(* A StartGuest that has installed its scheduler and not yet cleared it    *)
(* away owns the slot, unless a RunELF took it.                            *)
SlotIsOwned ==
    /\ \A c \in Installed : Scheduler = c \/ Scheduler \in Elf
    /\ Scheduler \in Call \ Elf => Scheduler \in Installed

(* There is one such call at most, also when the slot does not name it.    *)
OneInstalled == \A c, d \in Installed : c = d

(* A RunELF goes through fewer stages, and leaves its scheduler installed. *)
ElfStays ==
    \A c \in Elf :
        \/ pc[c] \in {"idle", "install", "refused"}
        \/ pc[c] \in {"run", "done"} /\ Scheduler \in Elf

(* A StartGuest that has gone past closing the terminal has closed it.     *)
ClosedByEnd == \A c \in Call \ Elf : pc[c] \in {"clear", "send", "done"} => closed

(* A GuestInput under way finds a guest, a closed terminal, or a slot that *)
(* a RunELF has taken.                                                     *)
TypistsServed == \A t \in Typist : typing[t] => closed \/ Running # {} \/ Scheduler \in Elf

Inv ==
    /\ TypeOK
    /\ SlotIsOwned /\ OneInstalled /\ ElfStays /\ ClosedByEnd /\ TypistsServed
    /\ InputNeedsGuest

(* Initially nothing is installed.                                         *)
LEMMA InitInv == Init => Inv
  BY SessionAssumption, Zenon DEF Init, Inv, TypeOK, SlotIsOwned, OneInstalled, ElfStays, ClosedByEnd, TypistsServed,
                           InputNeedsGuest, Installed, Stage

(* The steps of a call.  Its own stage decides each part of the invariant: *)
(* StartGuest takes the slot only when it is empty, and only its owner     *)
(* clears it.                                                              *)
LEMMA CallStep ==
    ASSUME Inv, NEW c \in Call,
           CheckActive(c) \/ LoadWithRuntime(c) \/ Install(c) \/ InstallELF(c) \/ RunReturns(c) \/ Finishes(c)
    PROVE  Inv'
  <1> USE SessionAssumption DEF Inv
  <1> USE DEF TypeOK, Stage, Goes, CheckActive, LoadWithRuntime, Install, InstallELF, RunReturns, Finishes,
              ClosePTY, ClearScheduler, SendDone
  <1>1. TypeOK'
    BY Zenon
  <1>2. Scheduler \in Elf => Scheduler' \in Elf
    BY DEF ElfStays
  <1>3. SlotIsOwned' /\ OneInstalled'
    <2>1. CASE Install(c)
      BY <2>1 DEF SlotIsOwned, OneInstalled, Installed
    <2>2. CASE ~Install(c)
      BY <2>2, <1>2 DEF SlotIsOwned, OneInstalled, Installed, ElfStays
    <2> QED BY <2>1, <2>2, Zenon
  <1>4. ElfStays'
    BY <1>2 DEF ElfStays
  <1>5. ClosedByEnd'
    BY DEF ClosedByEnd
  <1>6. Running # {} => closed' \/ Running' # {} \/ Scheduler' \in Elf
    <2> SUFFICES ASSUME NEW d \in Call, pc[d] \in {"run", "close"}
                 PROVE  closed' \/ Running' # {} \/ Scheduler' \in Elf
      BY DEF Running
    <2>1. closed' \/ pc'[d] \in {"run", "close"} \/ Scheduler' \in Elf
      BY <1>2 DEF ElfStays
    <2> QED BY <2>1 DEF Running
  <1>7. TypistsServed'
    <2>1. typing' = typing /\ (closed => closed')
      OBVIOUS
    <2> QED BY <2>1, <1>2, <1>6 DEF TypistsServed
  <1>8. InputNeedsGuest'
    BY DEF InputNeedsGuest
  <1> QED BY <1>1, <1>3, <1>4, <1>5, <1>7, <1>8

(* GuestInput's look and its write.  The guest it saw is still there when  *)
(* it writes, or has closed the terminal.                                  *)
LEMMA TypistStep ==
    ASSUME Inv, NEW t \in Typist, GuestInput(t) \/ WriteInput(t)
    PROVE  Inv'
  <1> USE SessionAssumption DEF Inv
  <1>1. /\ TypeOK' /\ SlotIsOwned' /\ OneInstalled' /\ ElfStays' /\ ClosedByEnd'
        /\ Running' = Running /\ closed' = closed /\ Scheduler' = Scheduler
    BY Zenon DEF TypeOK, SlotIsOwned, OneInstalled, ElfStays, ClosedByEnd, Installed, Running, GuestInput, WriteInput
  <1>2. CASE GuestInput(t)
    <2>1. closed \/ Running # {} \/ Scheduler \in Elf
      <3> SUFFICES ASSUME Scheduler \notin Elf PROVE closed \/ Running # {}
        OBVIOUS
      <3>1. Scheduler \in Installed
        BY <1>2 DEF GuestInput, TypeOK, SlotIsOwned
      <3> QED BY <3>1 DEF Installed, ClosedByEnd, Running
    <2> QED BY <1>1, <1>2, <2>1 DEF GuestInput, TypistsServed, InputNeedsGuest, TypeOK
  <1>3. CASE WriteInput(t)
    BY <1>1, <1>3 DEF WriteInput, TypistsServed, InputNeedsGuest, TypeOK
  <1> QED BY <1>2, <1>3

(* The invariant behind both theorems.                                     *)
LEMMA SessionInv == Spec => []Inv
  <1>1. Inv /\ [Next]_vars => Inv'
    <2> SUFFICES ASSUME Inv, [Next]_vars PROVE Inv'
      OBVIOUS
    <2>1. CASE UNCHANGED vars
      BY <2>1 DEF vars, Inv, TypeOK, SlotIsOwned, OneInstalled, ElfStays, ClosedByEnd, TypistsServed,
                  InputNeedsGuest, Installed, Running
    <2> QED BY <2>1, CallStep, TypistStep DEF Next
  <1> QED BY <1>1, InitInv, PTL DEF Spec

(* Two guests started by StartGuest never run at the same time, however    *)
(* many goroutines call it, wherever they are between its two checks of    *)
(* s.Scheduler, and whatever calls of RunELF do to the slot.               *)
THEOREM GuestsExclude == Spec => []OneGuest
  <1>1. Inv => OneGuest
    BY DEF Inv, OneInstalled, Installed, OneGuest, Running
  <1> QED BY <1>1, SessionInv, PTL

(* GuestInput's bytes are accepted only while a guest runs that has not    *)
(* yet closed the terminal, unless a RunELF has taken the slot.            *)
THEOREM InputFindsGuest == Spec => []InputNeedsGuest
  <1>1. Inv => InputNeedsGuest
    BY DEF Inv
  <1> QED BY <1>1, SessionInv, PTL

-----------------------------------------------------------------------------
(* The window.  The two parts of what its screen promises.                 *)
Numbered(n) ==
    /\ \A i \in Outs : (\A j \in Outs : j <= i) => lines[i][2] = n
    /\ \A i, j \in Outs : i < j /\ (\A k \in Outs : k <= i \/ k >= j) => lines[j][2] = lines[i][2] + 1

Paired == \A i \in 2..Len(lines) : lines[i][1] = "result" => lines[i - 1] = <<"prompt", lines[i][2]>>

Taken == emitted - Len(output) - Len(appending)

Line == {"note", "out", "prompt", "result"} \X Int

WindowTypes ==
    /\ lines \in Seq(Line)
    /\ appending \in Seq(Int) /\ output \in Seq(Int) /\ emitted \in Nat
    /\ guestMode \in BOOLEAN /\ raced \in BOOLEAN

(* With a guest there are no commands, and what the reader appends and     *)
(* what is queued are the last pieces that were written.                   *)
GuestPart ==
    /\ commands = {}
    /\ \A i \in 1..Len(lines) : lines[i][1] # "result"
    /\ \A k \in 1..Len(output) : output[k] = emitted - Len(output) + k
    /\ \A k \in 1..Len(appending) : appending[k] = Taken + k

(* Without one the goroutines of the guest do not exist, there is one      *)
(* command at most, and while it runs its prompt is the last line, unless  *)
(* the screen was wiped.                                                   *)
ShellPart ==
    /\ appending = <<>> /\ reader = "off" /\ watcher = "off" /\ ~typing[UI] /\ ui # "build"
    /\ Outs = {}
    /\ \A c, d \in commands : c = d
    /\ commands # {} => pending /\ ui = "loop"
    /\ \A c \in commands : c[1] = "run" => lines = <<>> \/ lines[Len(lines)] = <<"prompt", c[2]>>

WindowInv ==
    /\ WindowTypes
    /\ guestMode => GuestPart
    /\ ~guestMode => ShellPart
    /\ ~raced => Numbered(Taken) /\ Paired

(* The screen starts empty, or with the banner.                            *)
LEMMA WindowInvInit == WindowInit => WindowInv
  <1> SUFFICES ASSUME WindowInit PROVE WindowInv
    OBVIOUS
  <1>1. WindowTypes
    <2>1. << <<"note", 0>> >> \in Seq(Line)
      BY DEF Line
    <2>2. lines \in Seq(Line)
      BY <2>1 DEF WindowInit, Banner
    <2>3. appending \in Seq(Int) /\ output \in Seq(Int) /\ emitted \in Nat
      BY DEF WindowInit
    <2>4. guestMode \in BOOLEAN /\ raced \in BOOLEAN
      BY Zenon DEF WindowInit
    <2> QED BY <2>2, <2>3, <2>4 DEF WindowTypes
  <1>2. lines = <<>> \/ lines = << <<"note", 0>> >>
    BY DEF WindowInit, Banner
  <1>3. Outs = {} /\ \A i \in 1..Len(lines) : lines[i][1] # "result"
    BY <1>2 DEF Outs
  <1>4. GuestPart
    BY <1>3 DEF WindowInit, GuestPart
  <1>5. ~guestMode => ShellPart
    BY <1>3, WindowAssumption DEF WindowInit, Init, ShellPart
  <1>6. Numbered(Taken) /\ Paired
    BY <1>2, <1>3 DEF Numbered, Paired
  <1> QED BY <1>1, <1>4, <1>5, <1>6 DEF WindowInv

(* A line that is no output is put behind the others.                      *)
LEMMA ShowOther ==
    ASSUME lines \in Seq(Line), NEW line \in Line, line[1] # "out", Show(line), NEW n
    PROVE  /\ lines' \in Seq(Line) /\ Len(lines') = Len(lines) + 1 /\ Len(lines) \in Nat
           /\ lines'[Len(lines')] = line
           /\ \A i \in 1..Len(lines) : lines'[i] = lines[i]
           /\ Outs' = Outs
           /\ Numbered(n) => Numbered(n)'
  <1>1. /\ lines' \in Seq(Line) /\ Len(lines') = Len(lines) + 1 /\ Len(lines) \in Nat
        /\ lines'[Len(lines')] = line
        /\ \A i \in 1..Len(lines) : lines'[i] = lines[i]
    BY DEF Show
  <1>2. Outs' = Outs
    BY <1>1 DEF Outs
  <1>3. \A i \in Outs : i \in 1..Len(lines) /\ lines'[i] = lines[i]
    BY <1>1 DEF Outs
  <1>4. Numbered(n) => Numbered(n)'
    BY <1>2, <1>3 DEF Numbered
  <1> QED BY <1>1, <1>2, <1>4

(* A screen that is wiped, or started afresh.                              *)
LEMMA Wiped ==
    ASSUME lines' = <<>> \/ lines' = << <<"note", 0>> >>
    PROVE  /\ lines' \in Seq(Line) /\ Outs' = {} /\ (\A i \in 1..Len(lines') : lines'[i][1] # "result")
           /\ Paired' /\ \A n : Numbered(n)'
  <1>1. lines' \in Seq(Line) /\ (\A i \in 1..Len(lines') : lines'[i][1] \notin {"out", "result"}) /\ Len(lines') <= 1
    <2>1. << <<"note", 0>> >> \in Seq(Line)
      BY DEF Line
    <2>2. CASE lines' = <<>>
      BY <2>2
    <2>3. CASE lines' = << <<"note", 0>> >>
      BY <2>1, <2>3
    <2> QED BY <2>2, <2>3
  <1>2. Outs' = {}
    BY <1>1 DEF Outs
  <1> QED BY <1>1, <1>2 DEF Paired, Numbered

(* With a guest: steps that touch neither the screen nor the output.       *)
LEMMA GuestSame ==
    ASSUME WindowInv, guestMode,
           UNCHANGED <<lines, appending, output, emitted, guestMode, raced, commands>>
    PROVE  WindowInv'
  BY DEF WindowInv, WindowTypes, GuestPart, Numbered, Paired, Taken, Outs

(* With a guest: a message of the window.                                  *)
LEMMA GuestNote ==
    ASSUME WindowInv, guestMode, Show(<<"note", 0>>),
           UNCHANGED <<appending, output, emitted, guestMode, raced, commands>>
    PROVE  WindowInv'
  <1> DEFINE note == <<"note", 0>>
  <1>1. note \in Line /\ note[1] = "note" /\ Show(note)
    BY DEF Line
  <1> HIDE DEF note
  <1>2. /\ lines' \in Seq(Line) /\ Len(lines') = Len(lines) + 1 /\ Len(lines) \in Nat
        /\ lines'[Len(lines')] = note
        /\ \A i \in 1..Len(lines) : lines'[i] = lines[i]
        /\ \A n : Numbered(n) => Numbered(n)'
    BY <1>1, ShowOther, Zenon DEF WindowInv, WindowTypes
  <1>3. \A i \in 1..Len(lines') : lines'[i][1] # "result"
    BY <1>1, <1>2 DEF WindowInv, GuestPart
  <1>4. Paired'
    BY <1>2, <1>3 DEF Paired
  <1>5. Taken' = Taken
    BY DEF Taken
  <1>6. GuestPart'
    BY <1>3, <1>5 DEF WindowInv, GuestPart
  <1>7. WindowTypes'
    BY <1>2 DEF WindowInv, WindowTypes
  <1> QED BY <1>2, <1>4, <1>5, <1>6, <1>7 DEF WindowInv

(* With a guest: the terminal is written to.                               *)
LEMMA GuestOutput ==
    ASSUME WindowInv, guestMode, WriteOutput,
           UNCHANGED <<lines, appending, guestMode, raced, commands>>
    PROVE  WindowInv'
  <1>1. /\ output \in Seq(Int) /\ Len(output) \in Nat /\ emitted \in Nat /\ Len(appending) \in Nat
        /\ output' \in Seq(Int) /\ Len(output') = Len(output) + 1 /\ emitted' = emitted + 1
        /\ output'[Len(output) + 1] = emitted + 1
        /\ \A k \in 1..Len(output) : output'[k] = output[k]
    BY DEF WindowInv, WindowTypes, WriteOutput
  <1>2. Taken' = Taken /\ emitted' - Len(output') = emitted - Len(output)
    BY <1>1 DEF Taken
  <1>3. ASSUME NEW k \in 1..Len(output') PROVE output'[k] = emitted' - Len(output') + k
    <2>1. CASE k = Len(output) + 1
      BY <1>1, <2>1
    <2>2. CASE k \in 1..Len(output)
      BY <1>1, <1>2, <2>2 DEF WindowInv, GuestPart
    <2> QED BY <1>1, <2>1, <2>2
  <1>4. GuestPart'
    BY <1>2, <1>3 DEF WindowInv, GuestPart
  <1>5. \A n : Numbered(n)' <=> Numbered(n)
    BY DEF Numbered, Outs
  <1>6. WindowTypes'
    BY <1>1 DEF WindowInv, WindowTypes
  <1> QED BY <1>2, <1>4, <1>5, <1>6 DEF WindowInv, Paired

(* The reader takes the first pieces of the queue: they keep their places. *)
LEMMA ReaderTakes ==
    ASSUME WindowInv, ReadOutput
    PROVE  WindowInv'
  <1> DEFINE n == IF Len(output) < BufSize THEN Len(output) ELSE BufSize
  <1>1. guestMode
    BY DEF WindowInv, ShellPart, ReadOutput
  <1>2. CASE UNCHANGED <<output, appending>>
    BY <1>1, <1>2, GuestSame DEF ReadOutput
  <1>3. CASE n > 0 /\ appending' = SubSeq(output, 1, n) /\ output' = SubSeq(output, n + 1, Len(output))
    <2>1. n \in 1..Len(output) /\ Len(output) \in Nat /\ output \in Seq(Int) /\ emitted \in Nat /\ Len(appending) = 0
      BY <1>3, WindowAssumption DEF WindowInv, WindowTypes, ReadOutput
    <2> HIDE DEF n
    <2>2. /\ appending' \in Seq(Int) /\ Len(appending') = n
          /\ \A k \in 1..n : appending'[k] = output[k]
      BY <1>3, <2>1
    <2>3. /\ output' \in Seq(Int) /\ Len(output') = Len(output) - n
          /\ \A k \in 1..(Len(output) - n) : output'[k] = output[n + k]
      BY <1>3, <2>1
    <2>4. Taken' = Taken /\ Taken = emitted - Len(output) /\ emitted' = emitted
      BY <2>1, <2>2, <2>3 DEF Taken, ReadOutput
    <2>5. ASSUME NEW k \in 1..Len(appending') PROVE appending'[k] = Taken' + k
      <3>1. output[k] = emitted - Len(output) + k
        <4>1. k \in 1..Len(output)
          BY <2>1, <2>2
        <4> QED BY <1>1, <4>1, Zenon DEF WindowInv, GuestPart
      <3> QED BY <2>2, <2>4, <3>1
    <2>6. ASSUME NEW k \in 1..Len(output') PROVE output'[k] = emitted' - Len(output') + k
      <3>1. output[n + k] = emitted - Len(output) + (n + k)
        <4>1. n + k \in 1..Len(output)
          BY <2>1, <2>3
        <4> QED BY <1>1, <4>1, Zenon DEF WindowInv, GuestPart
      <3> QED BY <2>1, <2>3, <2>4, <3>1
    <2>7. UNCHANGED <<lines, guestMode, raced, commands>>
      BY DEF ReadOutput
    <2>8. GuestPart'
      BY <1>1, <2>5, <2>6, <2>7 DEF WindowInv, GuestPart
    <2>9. \A m : Numbered(m)' <=> Numbered(m)
      BY <2>7 DEF Numbered, Outs
    <2>10. WindowTypes'
      BY <2>2, <2>3, <2>4, <2>7 DEF WindowInv, WindowTypes
    <2> QED BY <1>1, <2>4, <2>7, <2>8, <2>9, <2>10 DEF WindowInv, Paired
  <1> QED BY <1>2, <1>3 DEF ReadOutput

(* What was taken becomes the last lines of the screen: the first of them  *)
(* follows the last output there, and each follows the one before it.      *)
LEMMA ReaderAppends ==
    ASSUME WindowInv, AppendOutput
    PROVE  WindowInv'
  <1> DEFINE m == Len(appending)
             l == Len(lines)
             new == [i \in 1..m |-> <<"out", appending[i]>>]
  <1>1. /\ guestMode /\ m \in Nat \ {0} /\ l \in Nat /\ lines \in Seq(Line) /\ appending \in Seq(Int)
        /\ emitted \in Nat /\ Len(output) \in Nat /\ output \in Seq(Int)
    BY EmptySeq DEF WindowInv, WindowTypes, ShellPart, AppendOutput
  <1>2. UNCHANGED <<guestMode, raced, output, emitted, commands>> /\ appending' = <<>> /\ lines' = lines \o new
    BY DEF AppendOutput
  <1>3. new \in Seq(Line) /\ Len(new) = m
    <2>1. \A i \in 1..m : <<"out", appending[i]>> \in Line
      BY <1>1 DEF Line
    <2> QED BY <1>1, <2>1
  <1>4. \A i \in 1..m : new[i][1] = "out" /\ new[i][2] = appending[i] /\ appending[i] = Taken + i
    BY <1>1 DEF WindowInv, GuestPart
  <1> HIDE DEF new
  <1>5. /\ lines' \in Seq(Line) /\ Len(lines') = l + m
        /\ \A i \in 1..l : lines'[i] = lines[i]
        /\ \A i \in 1..m : lines'[l + i] = new[i]
    <2>1. /\ lines \o new \in Seq(Line) /\ Len(lines \o new) = Len(lines) + Len(new)
          /\ \A i \in 1..(Len(lines) + Len(new)) :
                (lines \o new)[i] = IF i <= Len(lines) THEN lines[i] ELSE new[i - Len(lines)]
      BY <1>1, <1>3, ConcatProperties, ZenonT(60)
    <2> HIDE DEF m
    <2>2. \A i \in 1..m : lines'[l + i] = new[i]
      <3> TAKE i \in 1..m
      <3>1. l + i \in 1..(l + m) /\ ~(l + i <= l) /\ (l + i) - l = i
        BY <1>1
      <3> QED BY <1>2, <1>3, <2>1, <3>1
    <2>3. \A i \in 1..l : lines'[i] = lines[i]
      BY <1>1, <1>2, <1>3, <2>1
    <2> QED BY <1>2, <1>3, <2>1, <2>2, <2>3
  <1>6. Taken' = emitted - Len(output) /\ Taken = emitted - Len(output) - m /\ Taken \in Int /\ Taken' = Taken + m
    BY <1>1, <1>2 DEF Taken
  <1> HIDE DEF m, l
  <1>7. \A i \in (l + 1)..(l + m) : i \in Outs' /\ lines'[i][2] = Taken + (i - l) /\ lines'[i][1] = "out"
    <2> TAKE i \in (l + 1)..(l + m)
    <2>1. i - l \in 1..m /\ l + (i - l) = i /\ i \in 1..(l + m)
      BY <1>1
    <2>2. lines'[i] = new[i - l]
      BY <1>5, <2>1
    <2> QED BY <1>4, <1>5, <2>1, <2>2 DEF Outs
  <1>8. \A i \in 1..l : lines'[i] = lines[i] /\ (i \in Outs' <=> i \in Outs)
    BY <1>1, <1>5, SMTT(20), SMTT(30), Zenon DEF Outs, l
  <1>9. Outs' \subseteq 1..(l + m) /\ Outs \subseteq 1..l
    BY <1>5 DEF Outs, l
  <1>10. ASSUME Numbered(Taken) PROVE Numbered(Taken)'
    <2>1. ASSUME NEW i \in Outs', \A j \in Outs' : j <= i PROVE lines'[i][2] = Taken'
      <3>1. l + m \in (l + 1)..(l + m) /\ i \in 1..(l + m)
        BY <1>1, <1>9
      <3>2. l + m \in Outs'
        BY <1>7, <3>1
      <3>3. i = l + m
        BY <1>1, <2>1, <3>1, <3>2
      <3>4. lines'[l + m][2] = Taken + ((l + m) - l)
        BY <1>7, <3>1, Zenon
      <3>5. (l + m) - l = m
        BY <1>1
      <3> QED BY <1>6, <3>3, <3>4, <3>5, Zenon
    <2>2. ASSUME NEW i \in Outs', NEW j \in Outs', i < j, \A k \in Outs' : k <= i \/ k >= j
          PROVE  lines'[j][2] = lines'[i][2] + 1
      <3>1. CASE i > l
        <4>1. i \in (l + 1)..(l + m) /\ j \in (l + 1)..(l + m) /\ i + 1 \in (l + 1)..(l + m)
          BY <1>1, <1>9, <2>2, <3>1
        <4>2. j = i + 1
          <5>1. i + 1 \in Outs'
            BY <1>7, <4>1
          <5> QED BY <1>1, <2>2, <4>1, <5>1
        <4> QED BY <1>1, <1>6, <1>7, <4>1, <4>2
      <3>2. CASE i <= l /\ j > l
        <4>1. i \in Outs /\ l + 1 \in (l + 1)..(l + m) /\ j \in (l + 1)..(l + m)
          BY <1>1, <1>8, <1>9, <2>2, <3>2
        <4>2. j = l + 1
          BY <1>1, <1>7, <2>2, <3>2, <4>1
        <4>3. \A k \in Outs : k <= i
          BY <1>1, <1>8, <1>9, <2>2, <3>2
        <4>4. lines[i][2] = Taken
          BY <1>10, <4>1, <4>3 DEF Numbered
        <4> QED BY <1>1, <1>6, <1>7, <1>8, <1>9, <4>1, <4>2, <4>4, SMTT(20), SMTT(30), Zenon
      <3>3. CASE j <= l
        <4>1. i \in Outs /\ j \in Outs /\ i \in 1..l /\ j \in 1..l
          BY <1>1, <1>8, <1>9, <2>2, <3>3
        <4>2. \A k \in Outs : k <= i \/ k >= j
          BY <1>8, <1>9, <2>2
        <4>3. lines[j][2] = lines[i][2] + 1
          BY <1>10, <2>2, <4>1, <4>2 DEF Numbered
        <4> QED BY <1>8, <4>1, <4>3
      <3> QED BY <1>1, <1>9, <3>1, <3>2, <3>3, SMTT(20), SMTT(30), Zenon
    <2> QED BY <2>1, <2>2 DEF Numbered
  <1>11. \A i \in 1..Len(lines') : lines'[i][1] # "result"
    <2> TAKE i \in 1..Len(lines')
    <2>1. i \in 1..l \/ i \in (l + 1)..(l + m)
      BY <1>1, <1>5
    <2>2. i \in 1..l => lines[i][1] # "result"
      BY <1>1 DEF WindowInv, GuestPart, l
    <2> QED BY <1>7, <1>8, <2>1, <2>2
  <1>12. Paired'
    BY <1>1, <1>5, <1>11 DEF Paired
  <1>13. GuestPart'
    <2>1. GuestPart /\ Len(appending') = 0
      BY <1>1, <1>2 DEF WindowInv
    <2> QED BY <1>2, <1>11, <2>1 DEF GuestPart
  <1>14. WindowTypes'
    BY <1>1, <1>2, <1>5 DEF WindowInv, WindowTypes
  <1> QED BY <1>1, <1>2, <1>10, <1>12, <1>13, <1>14 DEF WindowInv

(* A screen that is wiped says nothing any more.                           *)
LEMMA WindowWipes ==
    ASSUME WindowInv, newTerminalView \/ Clear
    PROVE  WindowInv'
  <1>1. /\ lines' = <<>> \/ lines' = << <<"note", 0>> >>
        /\ UNCHANGED <<appending, output, emitted, guestMode, commands, typing, reader, watcher, pending>>
    BY DEF newTerminalView, Clear, vars, Banner
  <1>2. /\ lines' \in Seq(Line) /\ Outs' = {} /\ (\A i \in 1..Len(lines') : lines'[i][1] # "result")
        /\ Paired' /\ \A n : Numbered(n)'
    BY <1>1, Wiped
  <1>3. Taken' = Taken
    BY <1>1 DEF Taken
  <1>4. GuestPart => GuestPart'
    BY <1>1, <1>2, <1>3 DEF GuestPart
  <1>5. ShellPart => ShellPart'
    <2> SUFFICES ASSUME ShellPart PROVE ShellPart'
      OBVIOUS
    <2>1. CASE newTerminalView
      BY <1>1, <1>2, <2>1 DEF ShellPart, newTerminalView
    <2>2. CASE Clear
      BY <1>1, <1>2, <2>2 DEF ShellPart, Clear
    <2> QED BY <2>1, <2>2
  <1>6. WindowTypes'
    <2>1. raced' \in BOOLEAN
      BY Zenon DEF WindowInv, WindowTypes, newTerminalView, Clear
    <2> QED BY <1>1, <1>2, <2>1 DEF WindowInv, WindowTypes
  <1> QED BY <1>1, <1>2, <1>3, <1>4, <1>5, <1>6 DEF WindowInv

(* Without a guest: a command is entered, and its prompt shown.            *)
LEMMA CommandStarts ==
    ASSUME WindowInv, SubmitCommand
    PROVE  WindowInv'
  <1> DEFINE line == <<"prompt", emitted + 1>>
  <1>1. ~guestMode /\ ShellPart /\ commands = {} /\ emitted \in Nat /\ lines \in Seq(Line)
    BY DEF WindowInv, WindowTypes, SubmitCommand, ShellPart
  <1>2. line \in Line /\ line[1] = "prompt" /\ line[2] = emitted + 1 /\ Show(line)
    BY <1>1 DEF Line, SubmitCommand
  <1>3. /\ commands' = {<<"run", emitted + 1>>} /\ pending' = TRUE /\ emitted' = emitted + 1
        /\ UNCHANGED <<typing, guestMode, ui, appending, raced, output, reader, watcher>> /\ ui = "loop"
    BY <1>1 DEF SubmitCommand, vars
  <1>4. \A c \in commands' : c[1] = "run" /\ <<"prompt", c[2]>> = line
    BY <1>3
  <1> HIDE DEF line
  <1>5. /\ lines' \in Seq(Line) /\ Len(lines') = Len(lines) + 1 /\ Len(lines) \in Nat
        /\ lines'[Len(lines')] = line
        /\ \A i \in 1..Len(lines) : lines'[i] = lines[i]
        /\ Outs' = Outs
    BY <1>1, <1>2, ShowOther
  <1>6. ShellPart'
    <2>1. \A c, d \in commands' : c = d
      BY <1>3, SMTT(20), SMTT(30), Zenon
    <2> QED BY <1>1, <1>3, <1>4, <1>5, <2>1 DEF ShellPart
  <1>7. \A n : Numbered(n)'
    BY <1>1, <1>5 DEF ShellPart, Numbered
  <1>8. Paired => Paired'
    BY <1>2, <1>5, SMTT(20), SMTT(30), Zenon DEF Paired
  <1>9. WindowTypes'
    BY <1>1, <1>3, <1>5 DEF WindowInv, WindowTypes
  <1> QED BY <1>1, <1>3, <1>6, <1>7, <1>8, <1>9 DEF WindowInv

(* Without a guest: the result goes below the prompt, which is still the   *)
(* last line since nothing else is shown while a command runs.             *)
LEMMA CommandShows ==
    ASSUME WindowInv, NEW n \in 1..MaxPieces, ShowResult(n)
    PROVE  WindowInv'
  <1> DEFINE line == <<"result", n>>
  <1>1. ~guestMode /\ ShellPart /\ lines \in Seq(Line) /\ output \in Seq(Int) /\ n \in Int
    BY WindowAssumption DEF WindowInv, WindowTypes, ShowResult, GuestPart
  <1>2. /\ UNCHANGED <<typing, guestMode, ui, appending, raced, emitted, reader, watcher, pending>>
        /\ commands' = {<<"shown", n>>} /\ pending /\ ui = "loop"
        /\ lines = <<>> \/ lines[Len(lines)] = <<"prompt", n>>
    <2>1. <<"run", n>> \in commands /\ commands' = (commands \ {<<"run", n>>}) \cup {<<"shown", n>>}
      BY DEF ShowResult
    <2>2. commands = {<<"run", n>>} /\ pending /\ ui = "loop"
      BY <1>1, <2>1, Zenon DEF ShellPart
    <2>3. lines = <<>> \/ lines[Len(lines)] = <<"prompt", n>>
      <3>1. <<"run", n>>[1] = "run" /\ <<"run", n>>[2] = n
        OBVIOUS
      <3> QED BY <1>1, <2>1, <3>1, Zenon DEF ShellPart
    <2>4. UNCHANGED <<typing, guestMode, ui, appending, raced, emitted, reader, watcher, pending>>
      BY DEF ShowResult, vars
    <2> QED BY <2>1, <2>2, <2>3, <2>4
  <1>3. output' \in Seq(Int)
    <2>1. output' = Append(output, n) \/ output' = output
      BY DEF ShowResult
    <2> QED BY <1>1, <2>1, SMTT(20), SMTT(30), Zenon
  <1>4. line \in Line /\ line[1] = "result" /\ line[2] = n
    BY <1>1 DEF Line
  <1> HIDE DEF line
  <1>5. lines' \in Seq(Line) /\ Outs' = {} /\ (Paired => Paired')
    <2>1. CASE Show(line)
      <3>1. /\ lines' \in Seq(Line) /\ Len(lines') = Len(lines) + 1 /\ Len(lines) \in Nat
            /\ lines'[Len(lines')] = line
            /\ \A i \in 1..Len(lines) : lines'[i] = lines[i]
            /\ Outs' = Outs
        BY <1>1, <1>4, <2>1, ShowOther, SMTT(20), SMTT(30), Zenon
      <3>2. ASSUME Paired, NEW i \in 2..Len(lines'), lines'[i][1] = "result"
            PROVE  lines'[i - 1] = <<"prompt", lines'[i][2]>>
        <4>1. CASE i = Len(lines')
          <5>1. i - 1 = Len(lines) /\ i - 1 \in 1..Len(lines)
            BY <3>1, <4>1
          <5> QED BY <1>2, <1>4, <3>1, <4>1, <5>1
        <4>2. CASE i # Len(lines')
          <5>1. i \in 2..Len(lines) /\ i \in 1..Len(lines) /\ i - 1 \in 1..Len(lines)
            BY <3>1, <4>2
          <5> QED BY <3>1, <3>2, <5>1, SMTT(20), SMTT(30), Zenon DEF Paired
        <4> QED BY <4>1, <4>2
      <3> QED BY <1>1, <3>1, <3>2, SMTT(20), SMTT(30), Zenon DEF Paired, ShellPart
    <2>2. CASE lines' = <<>>
      BY <2>2, Wiped
    <2>3. CASE UNCHANGED lines
      BY <1>1, <2>3 DEF Paired, ShellPart, Outs
    <2> QED BY <2>1, <2>2, <2>3, SMTT(20), SMTT(30), Zenon DEF ShowResult, line
  <1>6. ShellPart'
    BY <1>1, <1>2, <1>5 DEF ShellPart
  <1>7. \A k : Numbered(k)'
    BY <1>5 DEF Numbered
  <1>8. WindowTypes'
    BY <1>2, <1>3, <1>5 DEF WindowInv, WindowTypes
  <1> QED BY <1>1, <1>2, <1>5, <1>6, <1>7, <1>8, SMTT(20), SMTT(30), Zenon DEF WindowInv

(* Without a guest: the command's goroutine ends.                          *)
LEMMA CommandStops ==
    ASSUME WindowInv, NEW n, CommandEnds(n)
    PROVE  WindowInv'
  <1>1. ~guestMode /\ ShellPart
    BY DEF WindowInv, CommandEnds, GuestPart
  <1>2. /\ UNCHANGED <<typing, guestMode, ui, lines, appending, raced, output, emitted, reader, watcher>>
        /\ commands' = {}
    BY <1>1, SMTT(20), SMTT(30), Zenon DEF CommandEnds, vars, ShellPart
  <1>3. ShellPart' /\ (Paired => Paired') /\ WindowTypes'
    BY <1>1, <1>2 DEF ShellPart, Outs, Paired, WindowInv, WindowTypes
  <1>4. \A k : Numbered(k)'
    BY <1>3 DEF Numbered, ShellPart
  <1> QED BY <1>1, <1>2, <1>3, <1>4, SMTT(20), SMTT(30), Zenon DEF WindowInv

(* Every step of the window keeps the invariant.                           *)
LEMMA WindowStep ==
    ASSUME WindowInv, [WindowNext]_<<vars, view>>
    PROVE  WindowInv'
  <1>1. CASE StartGuest \/ GuestEnds
    BY <1>1, GuestSame DEF StartGuest, GuestEnds, view
  <1>2. CASE startGuest
    <2>1. guestMode
      BY <1>2 DEF WindowInv, ShellPart, startGuest
    <2> QED BY <1>2, <2>1, GuestSame, GuestNote DEF startGuest
  <1>3. CASE GuestWrites
    BY <1>3, GuestOutput DEF GuestWrites
  <1>4. CASE Watch
    <2>1. guestMode
      BY <1>4 DEF WindowInv, ShellPart, Watch
    <2> QED BY <1>4, <2>1, GuestSame, GuestNote DEF Watch
  <1>5. CASE SubmitInput
    BY <1>5, GuestSame, GuestNote DEF SubmitInput
  <1>6. CASE SendInput
    <2>1. guestMode
      BY <1>6 DEF WindowInv, ShellPart, SendInput, WriteInput
    <2> QED BY <1>6, <2>1, GuestNote, GuestOutput DEF SendInput
  <1>7. CASE UNCHANGED <<vars, view>>
    <2>1. WindowTypes' /\ Taken' = Taken /\ Outs' = Outs /\ (GuestPart => GuestPart') /\ (ShellPart => ShellPart')
      BY <1>7, SMTT(20), SMTT(30), Zenon DEF vars, view, WindowInv, WindowTypes, Taken, Outs, GuestPart, ShellPart
    <2>2. Paired' = Paired /\ lines' = lines
      BY <1>7, SMTT(20), SMTT(30), Zenon DEF vars, view, Paired
    <2>3. \A n : Numbered(n) => Numbered(n)'
      BY <2>1, <2>2 DEF Numbered
    <2> QED BY <1>7, <2>1, <2>2, <2>3, SMTT(20), SMTT(30), Zenon DEF WindowInv, vars, view
  <1> QED BY <1>1, <1>2, <1>3, <1>4, <1>5, <1>6, <1>7, ReaderTakes, ReaderAppends, WindowWipes, CommandStarts,
             CommandShows, CommandStops, SMTT(20), SMTT(30), Zenon DEF WindowNext, Builds, Reads

(* The screen is in order, however much the guest writes, whatever the     *)
(* reader's buffer holds, and however the window's goroutine, the reader,  *)
(* the watcher and a command's goroutine interleave, unless the unlocked   *)
(* assignment at the end of newTerminalView met an append.                 *)
THEOREM ScreenStaysInOrder == WindowSpec => []ScreenInOrder
  <1>1. WindowInv => ScreenInOrder
    BY DEF WindowInv, ScreenInOrder, Numbered, Paired, Taken
  <1> QED BY <1>1, WindowInvInit, WindowStep, PTL DEF WindowSpec

-----------------------------------------------------------------------------
(* The scheduler of the tasks.                                             *)

(* Only tasks that have exited are reaped.                                 *)
ReapedHaveExited == \A p \in Pid : reaped[p] => state[p] = "Exited"

(* A pid not yet given out names no task.                                  *)
Unborn == \A p \in Pid : p >= nextPID => state[p] = "None"

(* The task picked is about to execute, and Run is in its loop.            *)
PickedRuns == cur # 0 => run = "loop" /\ state[cur] \in {"Ready", "Running"}

(* A fault is the end of Run.                                              *)
FaultEnds == \A p \in Pid : state[p] = "Faulted" => run = "fault"

TasksInv ==
    /\ SchedulerTypeOK
    /\ BlockedCanEnd /\ ReapedHaveExited /\ Unborn /\ PickedRuns /\ FaultEnds
    /\ DoneMeansExited

(* A set of pids has a first one.                                          *)
LEMMA FirstIsIn ==
    ASSUME NEW S, S \subseteq Pid, S # {}
    PROVE  First(S) \in S
  <1>0. S \subseteq Nat
    BY SchedulerAssumption DEF Pid
  <1>1. IsWellFoundedOn(OpToRel(<, Nat), Nat)
    BY NatLessThanWellFounded, Zenon
  <1>2. PICK x \in S : \A y \in S : ~(<<y, x>> \in OpToRel(<, Nat))
    BY <1>0, <1>1, WFMin, Zenon
  <1>3. \A y \in S : ~(y < x)
    BY <1>0, <1>2, Zenon DEF OpToRel
  <1>4. \A y \in S : x <= y
    BY <1>0, <1>3
  <1> QED BY <1>4 DEF First

(* Initially there is one task, which can go on.                           *)
LEMMA InitTasksInv == SchedulerInit => TasksInv
  <1> SUFFICES ASSUME SchedulerInit PROVE TasksInv
    OBVIOUS
  <1>1. SchedulerTypeOK
    <2>1. 2 \in 2..(MaxPid + 1) /\ 0 \in 0..MaxPid
      BY SchedulerAssumption
    <2>2. state \in [Pid -> State] /\ wakeable \in SUBSET Pid
      BY DEF SchedulerInit, State
    <2>3. /\ parent \in [Pid -> 0..MaxPid] /\ reaped \in [Pid -> BOOLEAN] /\ wait \in [Pid -> Request \cup {NoWait}]
          /\ blocked \in [Pid -> BOOLEAN] /\ fatal \in [Pid -> BOOLEAN]
      BY <2>1 DEF SchedulerInit
    <2> QED BY <2>1, <2>2, <2>3, Zenon DEF SchedulerInit, SchedulerTypeOK
  <1>2. BlockedCanEnd
    BY DEF SchedulerInit, BlockedCanEnd, HasBlocked, NoWait
  <1>3. ReapedHaveExited /\ Unborn /\ PickedRuns /\ FaultEnds /\ DoneMeansExited
    BY DEF SchedulerInit, ReapedHaveExited, Unborn, PickedRuns, FaultEnds, DoneMeansExited, Pid
  <1> QED BY <1>1, <1>2, <1>3 DEF TasksInv

(* A step of cur that registers nobody and reaps nobody keeps the          *)
(* invariant when the task ends up Blocked exactly with a record, and a    *)
(* record of wait4 has a child.                                            *)
LEMMA SteppedInv ==
    ASSUME TasksInv, cur # 0, NEW st \in {"Running", "Blocked", "Exited"}, Stepped(st),
           UNCHANGED <<parent, reaped, wakeable>>,
           fatal' \in [Pid -> BOOLEAN], nextPID' \in nextPID..(MaxPid + 1),
           NEW w \in Request \cup {NoWait}, wait' = [wait EXCEPT ![cur] = w],
           NEW b \in BOOLEAN, blocked' = [blocked EXCEPT ![cur] = b],
           st = "Blocked" <=> b \/ w # NoWait,
           w # NoWait => Children(cur, w) # {}
    PROVE  TasksInv'
  <1> USE DEF TasksInv
  <1>1. /\ cur \in Pid /\ state' = [state EXCEPT ![cur] = st] /\ cur' = 0 /\ run' = run /\ run = "loop"
        /\ steps' \in Nat /\ maxSteps' = maxSteps /\ ctxDone' = ctxDone
        /\ state[cur] \in {"Ready", "Running"} /\ ~reaped[cur]
    BY SMTT(20), SMTT(30), Zenon DEF Stepped, SchedulerTypeOK, Pid, PickedRuns, ReapedHaveExited
  <1>2. SchedulerTypeOK'
    BY <1>1, SchedulerAssumption, SMTT(20), SMTT(30), Zenon DEF SchedulerTypeOK, Pid, State
  <1>3. BlockedCanEnd'
    <2> SUFFICES ASSUME NEW p \in Pid
                 PROVE  /\ state'[p] = "Blocked" <=> HasBlocked(p)'
                        /\ wait'[p] # NoWait => Children(p, wait[p])' # {}
      BY SMTT(20), SMTT(30), Zenon DEF BlockedCanEnd
    <2>1. state'[p] = "Blocked" <=> HasBlocked(p)'
      BY <1>1, SMTT(20), SMTT(30), Zenon DEF BlockedCanEnd, HasBlocked, SchedulerTypeOK
    <2>2. ASSUME wait'[p] # NoWait PROVE Children(p, wait'[p]) # {} /\ wait'[p] \in Request
      BY <1>1, <2>2, SMTT(20), SMTT(30), Zenon DEF BlockedCanEnd, SchedulerTypeOK
    <2>3. \A c \in Pid : state[c] # "None" => state'[c] # "None" /\ parent'[c] = parent[c]
      BY <1>1, SMTT(20), SMTT(30), Zenon DEF SchedulerTypeOK
    <2>4. ASSUME wait'[p] # NoWait PROVE Children(p, wait[p])' # {}
      BY <2>2, <2>3, <2>4, <1>1, SMTT(20), SMTT(30), Zenon DEF Children
    <2> QED BY <2>1, <2>4
  <1>4. ReapedHaveExited' /\ PickedRuns' /\ FaultEnds' /\ DoneMeansExited'
    BY <1>1, SMTT(20), SMTT(30), Zenon DEF SchedulerTypeOK, ReapedHaveExited, PickedRuns, FaultEnds, DoneMeansExited
  <1>5. Unborn'
    BY <1>1, SMTT(20), SMTT(30), Zenon DEF SchedulerTypeOK, Unborn, Pid
  <1> QED BY <1>2, <1>3, <1>4, <1>5, SMTT(20), SMTT(30), Zenon

(* Pick chooses a task that can go on; it may reap a child of that task    *)
(* which has exited, and nobody else.                                      *)
LEMMA PickReaps ==
    ASSUME TasksInv, Pick
    PROVE  /\ First(Runnable) \in Pid /\ ~Skipped(First(Runnable))
           /\ reaped' \in [Pid -> BOOLEAN]
           /\ \A c \in Pid : reaped'[c] # reaped[c] => reaped'[c] /\ state[c] = "Exited" /\ parent[c] = First(Runnable)
  <1> USE DEF TasksInv
  <1> DEFINE p == First(Runnable)
             C == Children(p, wait[p])
  <1>1. p \in Pid /\ ~Skipped(p)
    <2>1. Runnable \subseteq Pid /\ Runnable # {}
      BY DEF Runnable, Pick
    <2> QED BY <2>1, FirstIsIn, SMTT(20), SMTT(30), Zenon DEF Runnable
  <1>2. CASE reaped' = reaped
    BY <1>1, <1>2, SMTT(20), SMTT(30), Zenon DEF SchedulerTypeOK
  <1>3. CASE state[p] = "Blocked" /\ wait[p] # NoWait /\ C # {} /\ reaped' = [reaped EXCEPT ![First(C)] = TRUE]
    <2> HIDE DEF p
    <2>1. First(C) \in C
      BY <1>3, FirstIsIn, SMTT(20), SMTT(30), Zenon DEF Children
    <2>2. WaitCompletes(p, wait[p])
      BY <1>1, <1>3, SMTT(20), SMTT(30), Zenon DEF Skipped, CanResume
    <2>3. First(C) \in Pid /\ parent[First(C)] = p /\ state[First(C)] = "Exited"
      BY <2>1, <2>2, <1>3 DEF WaitCompletes, Children
    <2>4. /\ reaped' \in [Pid -> BOOLEAN]
          /\ \A c \in Pid : reaped'[c] # reaped[c] => reaped'[c] /\ c = First(C)
      BY <2>3, <1>3, Zenon DEF SchedulerTypeOK
    <2> QED BY <1>1, <2>3, <2>4, SMTT(20), SMTT(30), Zenon DEF p
  <1> QED BY <1>2, <1>3, SMTT(20), SMTT(30), Zenon DEF Pick

(* Pick completes the call of the first task that can go on: whoever it    *)
(* reaps, no other task was waiting for them.                              *)
LEMMA PickInv == ASSUME TasksInv, Pick PROVE TasksInv'
  <1> USE DEF TasksInv
  <1> DEFINE p == First(Runnable)
  <1>1. p \in Pid /\ ~Skipped(p)
    BY PickReaps, SMTT(20), SMTT(30), Zenon
  <1>2. state[p] \in {"Ready", "Running", "Blocked"} /\ ~reaped[p]
    BY <1>1, SMTT(20), SMTT(30), Zenon DEF Skipped, SchedulerTypeOK, State, FaultEnds, Pick, AtHead
  <1>3. /\ reaped' \in [Pid -> BOOLEAN]
        /\ \A c \in Pid : reaped'[c] => reaped[c] \/ (state[c] = "Exited" /\ parent[c] = p)
    BY PickReaps, SMTT(20), SMTT(30), Zenon DEF SchedulerTypeOK
  <1> HIDE DEF p
  <1>4. /\ cur' = p /\ run' = "loop" /\ run = "loop" /\ state' = [state EXCEPT ![p] = IF @ = "Blocked" THEN "Ready" ELSE @]
        /\ wait' = [wait EXCEPT ![p] = NoWait] /\ blocked' = [blocked EXCEPT ![p] = FALSE]
        /\ wakeable' = wakeable \ {p}
        /\ fatal' = fatal \/ fatal' = [fatal EXCEPT ![p] = TRUE]
        /\ UNCHANGED <<parent, nextPID, maxSteps, steps, ctxDone>>
    BY DEF Pick, AtHead, p
  <1>5. SchedulerTypeOK'
    <2>1. p \in 0..MaxPid /\ wakeable' \in SUBSET Pid
      BY <1>1, <1>4, SchedulerAssumption DEF Pid, SchedulerTypeOK
    <2>2. state' \in [Pid -> State]
      BY <1>4, Zenon DEF SchedulerTypeOK, State
    <2>3. fatal' \in [Pid -> BOOLEAN] /\ blocked' \in [Pid -> BOOLEAN] /\ wait' \in [Pid -> Request \cup {NoWait}]
      BY <1>4, ZenonT(60) DEF SchedulerTypeOK
    <2> QED BY <2>1, <2>2, <2>3, <1>4, <1>3, Zenon DEF SchedulerTypeOK
  <1>6. BlockedCanEnd'
    <2> SUFFICES ASSUME NEW q \in Pid
                 PROVE  /\ state'[q] = "Blocked" <=> HasBlocked(q)'
                        /\ wait'[q] # NoWait => Children(q, wait[q])' # {}
      BY DEF BlockedCanEnd
    <2>1. CASE q = p
      BY <2>1, <1>1, <1>2, <1>4, SMTT(20), SMTT(30), Zenon DEF HasBlocked, SchedulerTypeOK
    <2>2. CASE q # p
      <3>1. state'[q] = state[q] /\ wait'[q] = wait[q] /\ blocked'[q] = blocked[q]
        BY <2>2, <1>4, SMTT(20), SMTT(30), Zenon DEF SchedulerTypeOK
      <3>2. \A c \in Pid : state[c] # "None" => state'[c] # "None" /\ parent'[c] = parent[c]
        BY <1>4 DEF SchedulerTypeOK
      <3>3. \A c \in Pid : parent[c] = q /\ ~reaped[c] => ~reaped'[c]
        BY <2>2, <1>3, SMTT(20), SMTT(30), Zenon
      <3>4. ASSUME wait[q] # NoWait PROVE Children(q, wait[q])' # {}
        BY <3>1, <3>2, <3>3, <3>4, SMTT(20), SMTT(30), Zenon DEF BlockedCanEnd, Children
      <3> QED BY <3>1, <3>4 DEF BlockedCanEnd, HasBlocked
    <2> QED BY <2>1, <2>2, SMTT(20), SMTT(30), Zenon
  <1>7. ReapedHaveExited'
    BY <1>2, <1>4, <1>3, SMTT(20), SMTT(30), Zenon DEF SchedulerTypeOK, ReapedHaveExited
  <1>8. Unborn' /\ PickedRuns' /\ FaultEnds' /\ DoneMeansExited'
    BY <1>1, <1>2, <1>4 DEF SchedulerTypeOK, Unborn, PickedRuns, FaultEnds, DoneMeansExited
  <1> QED BY <1>5, <1>6, <1>7, <1>8

(* fork registers a child under a pid that named no task.                  *)
LEMMA ForkInv == ASSUME TasksInv, Fork PROVE TasksInv'
  <1> USE DEF TasksInv
  <1>1. /\ cur \in Pid /\ nextPID \in Pid /\ cur # nextPID /\ run = "loop" /\ state[cur] \in {"Ready", "Running"}
        /\ state[nextPID] = "None" /\ ~reaped[nextPID]
    BY DEF Fork, Executes, SchedulerTypeOK, Pid, PickedRuns, Unborn, ReapedHaveExited
  <1>2. /\ nextPID' = nextPID + 1 /\ state' = [state EXCEPT ![cur] = "Running", ![nextPID] = "Ready"]
        /\ parent' = [parent EXCEPT ![nextPID] = cur] /\ cur' = 0 /\ steps' \in Nat
        /\ UNCHANGED <<reaped, wait, blocked, wakeable, fatal, maxSteps, ctxDone, run>>
    BY SMTT(20), SMTT(30), Zenon DEF Fork, SchedulerTypeOK
  <1>3. SchedulerTypeOK'
    <2>1. cur \in 0..MaxPid /\ 0 \in 0..MaxPid /\ nextPID + 1 \in 2..(MaxPid + 1)
      BY <1>1, SchedulerAssumption DEF Pid, SchedulerTypeOK
    <2>2. state' \in [Pid -> State] /\ parent' \in [Pid -> 0..MaxPid]
      BY <1>2, <2>1, ZenonT(60) DEF SchedulerTypeOK, State
    <2> QED BY <1>2, <2>1, <2>2 DEF SchedulerTypeOK
  <1>4. BlockedCanEnd'
    <2> SUFFICES ASSUME NEW p \in Pid
                 PROVE  /\ state'[p] = "Blocked" <=> HasBlocked(p)'
                        /\ wait'[p] # NoWait => Children(p, wait[p])' # {}
      BY DEF BlockedCanEnd
    <2>1. state'[p] = "Blocked" <=> HasBlocked(p)'
      BY <1>1, <1>2, SMTT(20), SMTT(30), Zenon DEF BlockedCanEnd, HasBlocked, SchedulerTypeOK
    <2>2. \A c \in Pid : state[c] # "None" => state'[c] # "None" /\ parent'[c] = parent[c]
      BY <1>1, <1>2, SMTT(20), SMTT(30), Zenon DEF SchedulerTypeOK
    <2>3. ASSUME wait'[p] # NoWait PROVE Children(p, wait[p])' # {}
      <3>1. wait[p] # NoWait /\ wait'[p] = wait[p]
        BY <2>3, <1>2, SMTT(20), SMTT(30), Zenon
      <3>2. PICK c \in Children(p, wait[p]) : TRUE
        BY <3>1 DEF BlockedCanEnd
      <3>3. c \in Pid /\ state[c] # "None" /\ ~reaped[c] /\ parent[c] = p /\ (wait[p] > 0 => c = wait[p])
        BY <3>2 DEF Children
      <3>4. state'[c] # "None" /\ parent'[c] = p /\ ~reaped'[c] /\ (wait'[p] > 0 => c = wait'[p])
        BY <3>1, <3>3, <2>2, <1>2, ZenonT(60)
      <3> QED BY <3>3, <3>4 DEF Children
    <2> QED BY <2>1, <2>3, SMTT(20), SMTT(30), Zenon
  <1>5. ReapedHaveExited' /\ PickedRuns' /\ FaultEnds' /\ DoneMeansExited'
    BY <1>1, <1>2, SMTT(20), SMTT(30), Zenon DEF SchedulerTypeOK, ReapedHaveExited, PickedRuns, FaultEnds, DoneMeansExited
  <1>6. Unborn'
    BY <1>1, <1>2, SMTT(20), SMTT(30), Zenon DEF SchedulerTypeOK, Unborn, Pid
  <1> QED BY <1>3, <1>4, <1>5, <1>6

(* wait4 reaps a child of the caller that has exited, or blocks with one   *)
(* to wait for.                                                            *)
LEMMA Wait4Inv ==
    ASSUME TasksInv, NEW requested \in Request, NEW wnohang \in BOOLEAN, Wait4(requested, wnohang)
    PROVE  TasksInv'
  <1> USE DEF TasksInv
  <1> DEFINE C == Children(cur, requested)
  <1>1. /\ cur # 0 /\ cur \in Pid /\ run = "loop" /\ state[cur] \in {"Ready", "Running"} /\ ~blocked[cur] /\ wait[cur] = NoWait
        /\ UNCHANGED <<parent, blocked, wakeable, fatal, nextPID>>
    BY DEF Wait4, Executes, SchedulerTypeOK, Pid, PickedRuns, BlockedCanEnd, HasBlocked
  <1>2. /\ wait = [wait EXCEPT ![cur] = NoWait] /\ blocked = [blocked EXCEPT ![cur] = FALSE]
        /\ NoWait \in Request \cup {NoWait} /\ fatal' \in [Pid -> BOOLEAN] /\ nextPID' \in nextPID..(MaxPid + 1)
    BY <1>1, SchedulerAssumption DEF SchedulerTypeOK
  <1>3. CASE Stepped("Running") /\ UNCHANGED <<reaped, wait>>
    BY <1>1, <1>2, <1>3, SteppedInv, Zenon
  <1>4. CASE C # {} /\ Stepped("Blocked") /\ wait' = [wait EXCEPT ![cur] = requested] /\ UNCHANGED reaped
    <2>1. requested # NoWait /\ requested \in Request \cup {NoWait}
      BY SchedulerAssumption DEF Request, Pid, AnyChild, NoWait
    <2> QED BY <1>1, <1>2, <1>4, <2>1, SteppedInv, Zenon
  <1>5. CASE /\ C # {} /\ state[First(C)] = "Exited" /\ Stepped("Running")
             /\ reaped' = [reaped EXCEPT ![First(C)] = TRUE] /\ UNCHANGED wait
    <2> DEFINE c == First(C)
    <2>1. c \in Pid /\ parent[c] = cur /\ state[c] = "Exited" /\ c # cur
      BY <1>1, <1>5, FirstIsIn, SMTT(20), SMTT(30), Zenon DEF Children
    <2> HIDE DEF c
    <2>2. /\ state' = [state EXCEPT ![cur] = "Running"] /\ cur' = 0 /\ steps' \in Nat /\ UNCHANGED <<maxSteps, ctxDone, run>>
          /\ reaped' = [reaped EXCEPT ![c] = TRUE] /\ wait' = wait
      BY <1>5, SMTT(20), SMTT(30), Zenon DEF Stepped, SchedulerTypeOK, c
    <2>3. SchedulerTypeOK'
      BY <1>1, <2>1, <2>2, SchedulerAssumption, SMTT(20), SMTT(30), Zenon DEF SchedulerTypeOK, State
    <2>4. BlockedCanEnd'
      <3> SUFFICES ASSUME NEW p \in Pid
                   PROVE  /\ state'[p] = "Blocked" <=> HasBlocked(p)'
                          /\ wait'[p] # NoWait => Children(p, wait[p])' # {}
        BY SMTT(20), SMTT(30), Zenon DEF BlockedCanEnd
      <3>1. state'[p] = "Blocked" <=> HasBlocked(p)'
        BY <1>1, <2>2, SMTT(20), SMTT(30), Zenon DEF BlockedCanEnd, HasBlocked, SchedulerTypeOK
      <3>2. ASSUME wait'[p] # NoWait PROVE Children(p, wait[p])' # {}
        <4>1. p # cur /\ wait[p] # NoWait /\ Children(p, wait[p]) # {}
          BY <1>1, <2>2, <3>2, SMTT(20), SMTT(30), Zenon DEF BlockedCanEnd
        <4>2. \A d \in Pid : state[d] # "None" => state'[d] # "None"
          BY <2>2, SMTT(20), SMTT(30), Zenon DEF SchedulerTypeOK
        <4>3. \A d \in Pid : parent[d] = p /\ ~reaped[d] => ~reaped'[d]
          BY <4>1, <2>1, <2>2, SMTT(20), SMTT(30), Zenon DEF SchedulerTypeOK
        <4> QED BY <1>1, <2>2, <4>1, <4>2, <4>3, SMTT(20), SMTT(30), Zenon DEF Children
      <3> QED BY <3>1, <3>2, SMTT(20), SMTT(30), Zenon
    <2>5. ReapedHaveExited' /\ Unborn' /\ PickedRuns' /\ FaultEnds' /\ DoneMeansExited'
      BY <1>1, <2>1, <2>2, SMTT(20), SMTT(30), Zenon DEF SchedulerTypeOK, ReapedHaveExited, Unborn, PickedRuns, FaultEnds, DoneMeansExited
    <2> QED BY <2>3, <2>4, <2>5, SMTT(20), SMTT(30), Zenon
  <1> QED BY <1>3, <1>4, <1>5, SMTT(20), SMTT(30), Zenon DEF Wait4

(* The other instructions of the task picked, and its death by a signal,   *)
(* concern that task alone.                                                *)
LEMMA OwnStepInv ==
    ASSUME TasksInv, Compute \/ CloneFails \/ Block \/ Exit \/ Kill \/ DieBySignal
    PROVE  TasksInv'
  <1> USE DEF TasksInv
  <1>1. /\ cur # 0 /\ cur \in Pid /\ ~blocked[cur] /\ wait[cur] = NoWait
    BY SMTT(20), SMTT(30), Zenon DEF Compute, CloneFails, Block, Exit, Kill, DieBySignal, Executes, SchedulerTypeOK, Pid, PickedRuns, BlockedCanEnd, HasBlocked
  <1>2. /\ wait = [wait EXCEPT ![cur] = NoWait] /\ blocked = [blocked EXCEPT ![cur] = FALSE]
        /\ NoWait \in Request \cup {NoWait} /\ nextPID \in nextPID..(MaxPid + 1)
        /\ nextPID \in Pid => nextPID + 1 \in nextPID..(MaxPid + 1)
    BY <1>1, SchedulerAssumption DEF SchedulerTypeOK, Pid
  <1>3. CASE Compute \/ Exit
    BY <1>1, <1>2, <1>3, SteppedInv, Zenon DEF Compute, Exit, SchedulerTypeOK
  <1>4. CASE CloneFails
    BY <1>1, <1>2, <1>4, SteppedInv, Zenon DEF CloneFails, SchedulerTypeOK
  <1>5. CASE Block
    BY <1>1, <1>2, <1>5, SteppedInv, Zenon DEF Block, SchedulerTypeOK
  <1>6. CASE Kill \/ DieBySignal
    <2>1. fatal' \in [Pid -> BOOLEAN]
      BY <1>6, Zenon DEF Kill, DieBySignal, SchedulerTypeOK
    <2> QED BY <1>1, <1>2, <1>6, <2>1, SteppedInv, Zenon DEF Kill, DieBySignal
  <1> QED BY <1>3, <1>4, <1>5, <1>6, SMTT(20), SMTT(30), Zenon

(* A fault ends Run with the task that faulted.                            *)
LEMMA FaultInv == ASSUME TasksInv, Fault PROVE TasksInv'
  <1> USE DEF TasksInv
  <1>1. /\ cur \in Pid /\ state[cur] \in {"Ready", "Running"} /\ state' = [state EXCEPT ![cur] = "Faulted"]
        /\ cur' = 0 /\ run' = "fault"
        /\ UNCHANGED <<parent, reaped, wait, blocked, wakeable, fatal, nextPID, maxSteps, steps, ctxDone>>
    BY SMTT(20), SMTT(30), Zenon DEF Fault, SchedulerTypeOK, Pid, PickedRuns
  <1>2. SchedulerTypeOK'
    BY <1>1, SchedulerAssumption, SMTT(20), SMTT(30), ZenonT(60) DEF SchedulerTypeOK, State
  <1>3. BlockedCanEnd'
    <2> SUFFICES ASSUME NEW p \in Pid
                 PROVE  /\ state'[p] = "Blocked" <=> HasBlocked(p)'
                        /\ wait'[p] # NoWait => Children(p, wait[p])' # {}
      BY DEF BlockedCanEnd
    <2>1. state'[p] = "Blocked" <=> HasBlocked(p)'
      BY <1>1, SMTT(20), SMTT(30), Zenon DEF BlockedCanEnd, HasBlocked, SchedulerTypeOK
    <2>2. \A c \in Pid : state[c] # "None" => state'[c] # "None"
      BY <1>1, SMTT(20), SMTT(30), Zenon DEF SchedulerTypeOK
    <2>3. ASSUME wait'[p] # NoWait PROVE Children(p, wait[p])' # {}
      <3>1. wait'[p] = wait[p] /\ Children(p, wait[p]) # {}
        BY <1>1, <2>3, SMTT(20), SMTT(30), Zenon DEF BlockedCanEnd
      <3> QED BY <3>1, <1>1, <2>2, SMTT(20), SMTT(30), Zenon DEF Children
    <2> QED BY <2>1, <2>3
  <1>4. ReapedHaveExited' /\ Unborn' /\ PickedRuns' /\ FaultEnds' /\ DoneMeansExited'
    BY <1>1 DEF SchedulerTypeOK, ReapedHaveExited, Unborn, PickedRuns, FaultEnds, DoneMeansExited
  <1> QED BY <1>2, <1>3, <1>4, SMTT(20), SMTT(30), Zenon

(* Steps that change no task: the end of Run, a wake-up, a cancellation.   *)
(* When Run returns nil, a task left over would be Runnable or Blocked,    *)
(* and a Blocked one would have been reaped, which only exited ones are.   *)
LEMMA LoopEndInv == ASSUME TasksInv, Stop \/ Finish \/ Wake \/ Cancel \/ UNCHANGED schedulerVars PROVE TasksInv'
  <1> USE DEF TasksInv
  <1>1. UNCHANGED <<state, parent, reaped, wait, blocked, fatal, nextPID, cur, maxSteps, steps>>
    BY SMTT(20), SMTT(30), Zenon DEF Stop, Finish, Wake, Cancel, schedulerVars
  <1>2. SchedulerTypeOK'
    <2>1. wakeable' \in SUBSET Pid /\ ctxDone' \in BOOLEAN /\ run' \in {"loop", "done", "cancelled", "limit", "fault"}
      BY ZenonT(60) DEF Stop, Finish, Wake, Cancel, schedulerVars, SchedulerTypeOK
    <2> QED BY <1>1, <2>1 DEF SchedulerTypeOK
  <1>3. BlockedCanEnd' /\ ReapedHaveExited' /\ Unborn'
    BY <1>1, SMTT(20), SMTT(30), Zenon DEF BlockedCanEnd, HasBlocked, Children, ReapedHaveExited, Unborn
  <1>4. PickedRuns' /\ FaultEnds'
    BY <1>1 DEF PickedRuns, FaultEnds, Stop, Finish, Wake, Cancel, schedulerVars, AtHead, Runnable, Skipped, ReapedHaveExited
  <1>5. DoneMeansExited'
    <2>1. CASE Finish
      <3> SUFFICES ASSUME NEW p \in Pid, state[p] \notin {"None", "Exited"} PROVE FALSE
        BY <1>1, <2>1, SMTT(20), SMTT(30), Zenon DEF DoneMeansExited, Finish
      <3>1. Skipped(p)
        BY <2>1, SMTT(20), SMTT(30), Zenon DEF Finish, Runnable
      <3> QED BY <2>1, <3>1, SMTT(20), SMTT(30), Zenon DEF Skipped, Finish, ReapedHaveExited
    <2>2. CASE Stop
      BY <1>1, <2>2, SMTT(20), SMTT(30), Zenon DEF DoneMeansExited, Stop
    <2>3. CASE Wake \/ Cancel \/ UNCHANGED schedulerVars
      BY <1>1, <2>3 DEF DoneMeansExited, Wake, Cancel, schedulerVars
    <2> QED BY <2>1, <2>2, <2>3, SMTT(20), SMTT(30), Zenon
  <1> QED BY <1>2, <1>3, <1>4, <1>5, SMTT(20), SMTT(30), Zenon

(* Every step keeps the invariant.                                         *)
LEMMA NextTasksInv == ASSUME TasksInv, [SchedulerNext]_schedulerVars PROVE TasksInv'
  BY PickInv, ForkInv, Wait4Inv, OwnStepInv, FaultInv, LoopEndInv DEF SchedulerNext, Loop, TaskStep

(* The invariant holds throughout.                                         *)
LEMMA SchedulerInv == SchedulerSpec => []TasksInv
  <1>1. TasksInv /\ [SchedulerNext]_schedulerVars => TasksInv'
    BY NextTasksInv
  <1> QED BY InitTasksInv, <1>1, PTL DEF SchedulerSpec

(* A task is Blocked exactly when its kernel holds a record, and a wait4   *)
(* that waits has a child: for any number of tasks and any budget.         *)
THEOREM BlockedTasksCanEnd == SchedulerSpec => []BlockedCanEnd
  <1>1. TasksInv => BlockedCanEnd
    BY DEF TasksInv
  <1> QED BY SchedulerInv, <1>1, PTL

(* Run returns nil only when every task has exited.                        *)
THEOREM DoneAfterAll == SchedulerSpec => []DoneMeansExited
  <1>1. TasksInv => DoneMeansExited
    BY SMTT(20), SMTT(30), Zenon DEF TasksInv
  <1> QED BY SchedulerInv, <1>1, PTL

(* wait4 itself reaps nobody but a child of the caller that has exited.    *)
LEMMA Wait4Reaps ==
    ASSUME TasksInv, NEW requested \in Request, NEW wnohang \in BOOLEAN, Wait4(requested, wnohang), NEW c \in Pid, reaped'[c] # reaped[c]
    PROVE  reaped'[c] /\ state[c] = "Exited" /\ parent[c] = cur /\ cur # 0
  <1> DEFINE C == Children(cur, requested)
  <1>1. C # {} /\ state[First(C)] = "Exited" /\ reaped' = [reaped EXCEPT ![First(C)] = TRUE] /\ cur # 0
    BY DEF Wait4, Executes
  <1>2. c = First(C) /\ reaped'[c]
    BY <1>1, Zenon DEF TasksInv, SchedulerTypeOK
  <1>3. First(C) \in C
    BY <1>1, FirstIsIn DEF Children
  <1> QED BY <1>1, <1>2, <1>3, SMTT(20), SMTT(30), Zenon DEF Children

(* A child is reaped once, after it exited, by the task that created it:   *)
(* for any number of tasks and any budget.                                 *)
THEOREM ParentsReapOnce == SchedulerSpec => ReapedOnceByParent
  <1>1. ASSUME TasksInv, [SchedulerNext]_schedulerVars
        PROVE  [\A c \in Pid : reaped'[c] # reaped[c] =>
                  /\ reaped'[c] /\ state[c] = "Exited"
                  /\ parent[c] = (IF cur = 0 THEN cur' ELSE cur)]_schedulerVars
    <2> SUFFICES ASSUME NEW c \in Pid, reaped'[c] # reaped[c]
                 PROVE  reaped'[c] /\ state[c] = "Exited" /\ parent[c] = (IF cur = 0 THEN cur' ELSE cur)
      OBVIOUS
    <2>1. CASE Pick
      <3>1. cur = 0 /\ cur' = First(Runnable)
        BY <2>1, SMTT(20), SMTT(30), Zenon DEF Pick, AtHead
      <3> QED BY <1>1, <2>1, <3>1, PickReaps, SMTT(20), SMTT(30), Zenon
    <2>2. CASE \E requested \in Request, wnohang \in BOOLEAN : Wait4(requested, wnohang)
      BY <1>1, <2>2, Wait4Reaps, SMTT(20), SMTT(30), Zenon
    <2>3. CASE UNCHANGED reaped
      BY <2>3
    <2> QED BY <1>1, <2>1, <2>2, <2>3, SMTT(20), SMTT(30), Zenon DEF SchedulerNext, Loop, TaskStep, Compute, Fork, CloneFails, Block, Exit, Kill, DieBySignal, Fault, Stop, Finish, Wake, Cancel, schedulerVars
  <1>2. TasksInv /\ [SchedulerNext]_schedulerVars => [\A c \in Pid : reaped'[c] # reaped[c] =>
                  /\ reaped'[c] /\ state[c] = "Exited"
                  /\ parent[c] = (IF cur = 0 THEN cur' ELSE cur)]_schedulerVars
    BY <1>1
  <1> QED BY SchedulerInv, <1>2, PTL DEF SchedulerSpec, ReapedOnceByParent

=============================================================================
