-------------------------- MODULE InspectionProofs --------------------------
(***************************************************************************)
(* Proofs about what is shown of an artifact, for any line program, stack, *)
(* symbol table and file, and of the debugged machine, for any page tables *)
(* and descriptor tables and any text of its monitor.                      *)
(*                                                                         *)
(* A job stays with the module it began in, so what the steps of one       *)
(* module keep holds in the whole.  What a loop computes is a function on  *)
(* 0..n that is defined by recursion; that there is one, and what holds of *)
(* its last value, comes from Recursion and Induction below.               *)
(***************************************************************************)
EXTENDS Inspection, FiniteSetTheorems, SequenceTheorems, WellFoundedInduction, TLAPS

-----------------------------------------------------------------------------
(* Numbers. *)

\* A set of positive numbers up to n has a least member.
LEMMA LeastIsThere ==
    ASSUME NEW n \in Nat, NEW T \in SUBSET (1 .. n), T # {}
    PROVE  \E x \in T : \A y \in T : x <= y
<1> DEFINE Below == {1 .. k : k \in T}
<1>1. IsWellFoundedOn(StrictSubsetOrdering(Nat), FiniteSubsetsOf(Nat))
  BY FS_StrictSubsetOrderingWellFounded
<1>2. Below \subseteq FiniteSubsetsOf(Nat)
  <2>1. \A k \in T : 1 .. k \in SUBSET Nat /\ IsFiniteSet(1 .. k)
    BY FS_Interval
  <2>2. QED
    BY <2>1 DEF FiniteSubsetsOf
<1>3. Below # {}
  OBVIOUS
<1> HIDE DEF Below
<1>4. PICK least \in Below : \A other \in Below : <<other, least>> \notin StrictSubsetOrdering(Nat)
  BY <1>1, <1>2, <1>3, WFMin
<1> USE DEF Below
<1>5. PICK x \in T : least = 1 .. x
  BY <1>4
<1>6. ASSUME NEW y \in T, ~ (x <= y) PROVE FALSE
  <2>1. 1 .. y \subseteq 1 .. x /\ x \in 1 .. x /\ x \notin 1 .. y /\ 1 .. x \in SUBSET Nat
    BY <1>6
  <2>2. <<1 .. y, 1 .. x>> \in StrictSubsetOrdering(Nat)
    BY <2>1 DEF StrictSubsetOrdering
  <2>3. QED
    BY <1>4, <1>5, <2>2
<1>7. QED
  BY <1>6

\* What holds of 0 and of the successor of what it holds of, up to n, holds up to n.
LEMMA Induction ==
    ASSUME NEW n \in Nat, NEW S, 0 \in S, \A k \in 0 .. n - 1 : k \in S => k + 1 \in S
    PROVE  \A k \in 0 .. n : k \in S
<1> SUFFICES ASSUME NEW k \in 0 .. n, k \notin S PROVE FALSE
  OBVIOUS
<1> DEFINE Out == {i \in 1 .. n : i \notin S}
<1>1. Out \in SUBSET (1 .. n) /\ Out # {}
  OBVIOUS
<1>2. PICK least \in Out : \A i \in Out : least <= i
  BY <1>1, LeastIsThere
<1>3. least - 1 \in 0 .. n - 1 /\ least - 1 \notin Out
  BY <1>2
<1>4. least - 1 \in S
  BY <1>3
<1>5. QED
  BY <1>3, <1>4

\* f begins with `first', and each value up to n comes from the one before by a step.
Follows(f, n, T, first, step) ==
    /\ f \in [0 .. n -> T]
    /\ f[0] = first
    /\ \A k \in 1 .. n : f[k] = step[k][f[k - 1]]

\* There is such a function: what the library proves with an operator as a parameter,
\* here with a function of functions.
LEMMA Recursion ==
    ASSUME NEW n \in Nat, NEW T, NEW first \in T, NEW step \in [1 .. n -> [T -> T]]
    PROVE  \E f : Follows(f, n, T, first, step)
<1> DEFINE S == {m \in 0 .. n : \E f : Follows(f, m, T, first, step)}
<1>1. 0 \in S
  <2>1. Follows([k \in 0 .. 0 |-> first], 0, T, first, step)
    BY DEF Follows
  <2>2. QED
    BY <2>1
<1>2. ASSUME NEW m \in 0 .. n - 1, m \in S PROVE m + 1 \in S
  <2>1. PICK f : Follows(f, m, T, first, step)
    BY <1>2
  <2> DEFINE g == [k \in 0 .. m + 1 |-> IF k = m + 1 THEN step[m + 1][f[m]] ELSE f[k]]
  <2>2. f[m] \in T /\ step[m + 1] \in [T -> T]
    BY <2>1 DEF Follows
  <2>3. g \in [0 .. m + 1 -> T] /\ g[0] = first
    BY <2>1, <2>2 DEF Follows
  <2>4. \A k \in 1 .. m + 1 : g[k] = step[k][g[k - 1]]
    BY <2>1 DEF Follows
  <2> HIDE DEF g
  <2>5. Follows(g, m + 1, T, first, step)
    BY <2>3, <2>4 DEF Follows
  <2>6. QED
    BY <2>5
<1> HIDE DEF S
<1>3. \A k \in 0 .. n - 1 : k \in S => k + 1 \in S
  BY <1>2
<1>4. \A k \in 0 .. n : k \in S
  BY <1>1, <1>3, Induction
<1>5. QED
  BY <1>4 DEF S

-----------------------------------------------------------------------------
(* A job belongs to the module it began in. *)

HasKind == "kind" \in DOMAIN job
Stays(kinds) == job.kind \in kinds /\ job'.kind = job.kind /\ HasKind'

LEMMA PagesStep == HasKind /\ Pages!Next => Stays({"walk"})
BY DEF HasKind, Stays, Pages!Next, Pages!Table, Pages!Read, Pages!ReadFails, Pages!Look,
       Pages!Explain, Pages!Retrace, Pages!End, Pages!LeafOf

LEMMA TablesStep == HasKind /\ Tables!Next => Stays({"gdt", "idt"})
BY DEF HasKind, Stays, Tables!Next, Tables!End, Tables!Unreadable, Tables!ReadNull,
       Tables!ReadSegment, Tables!ReadSystem, Tables!ReadGate, Tables!Ends, Tables!Reading,
       Tables!Readable, Tables!TakeSlots

LEMMA MonitorStep == HasKind /\ Monitor!Next => Stays({"report", "xp"})
BY DEF HasKind, Stays, Monitor!Next, Monitor!ParseLine, Monitor!EndOfReport,
       Monitor!NoMonitor, Monitor!Ask, Monitor!Answered

LEMMA ArtifactStep ==
    HasKind /\ Artifact!Next => Stays({"lines", "frames", "symbol", "hex", "artifact"})
BY DEF HasKind, Stays, Artifact!Next, Artifact!BuildSegments, Artifact!WalkFrame,
       Artifact!coarse_location, Artifact!Ask, Artifact!ReadWindow, Artifact!Answered,
       Artifact!clear_cache, Artifact!refresh_len, Artifact!FileChanges, Artifact!Rebuild,
       Artifact!open, Artifact!set_syntax, Artifact!disassemble_with_source,
       Artifact!disassemble, Artifact!sections, Artifact!source_line_for_address

\* The states that a module's jobs begin in are of its own kinds.
Began(kinds) == HasKind /\ job.kind \in kinds

LEMMA PagesStart == Pages!Init => Began({"walk"})
<1> SUFFICES ASSUME Pages!Init PROVE Began({"walk"})
  OBVIOUS
<1>1. \E regs, va, running, pc, result :
        job = [kind |-> "walk", regs |-> regs, va |-> va, running |-> running, pass |-> 1,
               pc |-> pc, result |-> result, at |-> "none", physical |-> 0,
               table |-> regs.cr3, visited |-> <<>>, path |-> <<>>, hole |-> <<>>]
  BY Zenon DEF Pages!Init
<1>2. QED
  BY <1>1 DEF Began, HasKind

LEMMA TablesStart == Tables!Init => Began({"gdt", "idt", "fields"})
<1> SUFFICES ASSUME Tables!Init PROVE Began({"gdt", "idt", "fields"})
  OBVIOUS
<1>1. \/ \E contents, readable : \/ job = Tables!Table("gdt", contents, readable)
                                 \/ job = Tables!Table("idt", contents, readable)
      \/ \E base, limit, g, upper :
           job = [kind |-> "fields", base |-> base, limit |-> limit, g |-> g, upper |-> upper]
  BY Zenon DEF Tables!Init, Tables!Fields
<1>2. QED
  BY <1>1 DEF Tables!Table, Began, HasKind

LEMMA MonitorStart == Monitor!Init => Began({"report", "leaves", "flags", "pairs", "xp"})
<1> SUFFICES ASSUME Monitor!Init PROVE Began({"report", "leaves", "flags", "pairs", "xp"})
  OBVIOUS
<1>1. \/ \E report, text : job = Monitor!Report(report, text)
      \/ \E sizes : job = [kind |-> "leaves", sizes |-> sizes]
      \/ \E text : job = [kind |-> "flags", text |-> text]
      \/ \E pairs, cut, tokens :
           job = [kind |-> "pairs", pairs |-> pairs, cut |-> cut, tokens |-> tokens]
      \/ \E address, count : job = Monitor!Xp(address, count)
  BY Zenon DEF Monitor!Init
<1>2. QED
  BY <1>1 DEF Monitor!Report, Monitor!Xp, Began, HasKind

LEMMA ArtifactStart == Artifact!Init => Began({"lines", "frames", "symbol", "hex", "artifact"})
BY DEF Artifact!Init, Artifact!Program, Artifact!Walk, Artifact!Lookup, Artifact!Reader,
   Artifact!Opened, Began, HasKind

TableKinds == {"gdt", "idt", "fields"}
MonitorKinds == {"report", "leaves", "flags", "pairs", "xp"}
Views == {"lines", "frames", "symbol", "hex", "artifact"}

LEMMA JobsStay ==
    HasKind /\ [InspectionNext]_job =>
        /\ HasKind' /\ job'.kind = job.kind
        /\ job.kind = "walk" => [Pages!Next]_job
        /\ job.kind \in TableKinds => [Tables!Next]_job
        /\ job.kind \in MonitorKinds => [Monitor!Next]_job
        /\ job.kind \in Views => [Artifact!Next]_job
BY PagesStep, TablesStep, MonitorStep, ArtifactStep
DEF InspectionNext, Stays, HasKind, TableKinds, MonitorKinds, Views

LEMMA JobsStart ==
    InspectionInit =>
        /\ HasKind
        /\ job.kind = "walk" => Pages!Init
        /\ job.kind \in TableKinds => Tables!Init
        /\ job.kind \in MonitorKinds => Monitor!Init
        /\ job.kind \in Views => Artifact!Init
BY PagesStart, TablesStart, MonitorStart, ArtifactStart
DEF InspectionInit, Began, TableKinds, MonitorKinds, Views

-----------------------------------------------------------------------------
(* The chain of frame pointers. *)

\* One frame more, of the stack that is there.
Framed(stack, rbp, before, n) ==
    LET at == IF n = 1 THEN rbp ELSE stack[Artifact!Last(before)].next
    IN  CASE n > 1 /\ Len(before) < n - 1 -> before
          [] n > 1 /\ stack[Artifact!Last(before)].ret = 0 -> before
          [] at \notin DOMAIN stack \/ at = 0 -> before
          [] n > 1 /\ at <= Artifact!Last(before) -> before
          [] OTHER -> Append(before, at)

IsStack(stack) == \A a \in DOMAIN stack : a \in Nat \ {0} /\ stack[a].next \in Nat

At(stack, rbp, before, n) == IF n = 1 THEN rbp ELSE stack[Artifact!Last(before)].next
Adds(stack, rbp, before, n) ==
    /\ At(stack, rbp, before, n) \in DOMAIN stack /\ At(stack, rbp, before, n) # 0
    /\ n > 1 => /\ Len(before) >= n - 1
                /\ stack[Artifact!Last(before)].ret # 0
                /\ At(stack, rbp, before, n) > Artifact!Last(before)

LEMMA FramedIs ==
    ASSUME NEW stack, NEW rbp \in Nat, IsStack(stack), NEW n \in Nat \ {0},
           NEW before \in Seq(DOMAIN stack)
    PROVE  Framed(stack, rbp, before, n) =
             IF Adds(stack, rbp, before, n) THEN Append(before, At(stack, rbp, before, n)) ELSE before
<1> DEFINE at == At(stack, rbp, before, n)
<1> DEFINE last == Artifact!Last(before)
<1>1. Framed(stack, rbp, before, n) =
        CASE n > 1 /\ Len(before) < n - 1 -> before
          [] n > 1 /\ stack[last].ret = 0 -> before
          [] at \notin DOMAIN stack \/ at = 0 -> before
          [] n > 1 /\ at <= last -> before
          [] OTHER -> Append(before, at)
  BY Zenon DEF Framed, At
<1>2. Len(before) \in Nat /\ (n > 1 /\ Len(before) >= n - 1 => last \in Nat)
  BY DEF Artifact!Last, IsStack
<1>3. at \in DOMAIN stack => at \in Nat
  BY DEF IsStack
<1>4. Adds(stack, rbp, before, n) <=>
        /\ at \in DOMAIN stack /\ at # 0
        /\ n > 1 => Len(before) >= n - 1 /\ stack[last].ret # 0 /\ at > last
  BY DEF Adds
<1> HIDE DEF at, last
<1>5. QED
  BY <1>1, <1>2, <1>3, <1>4 DEF at

Chain(stack, rbp) ==
    CHOOSE chain : chain = [n \in 0 .. MaxFrames |->
                              IF n = 0 THEN <<>> ELSE Framed(stack, rbp, chain[n - 1], n)]

LEMMA ChainIsThere ==
    ASSUME NEW stack, NEW rbp \in Nat, IsStack(stack)
    PROVE  /\ Artifact!TrueStack(stack, rbp) = Chain(stack, rbp)[MaxFrames]
           /\ Chain(stack, rbp)[0] = <<>>
           /\ \A n \in 1 .. MaxFrames :
                 Chain(stack, rbp)[n] = Framed(stack, rbp, Chain(stack, rbp)[n - 1], n)
<1> DEFINE Is(f) == f = [n \in 0 .. MaxFrames |-> IF n = 0 THEN <<>> ELSE Framed(stack, rbp, f[n - 1], n)]
<1> DEFINE T == Seq(DOMAIN stack)
<1> DEFINE chain == CHOOSE f : Is(f)
<1>1. Artifact!TrueStack(stack, rbp) = chain[MaxFrames] /\ Chain(stack, rbp) = chain
  BY Zenon DEF Artifact!TrueStack, Chain, Framed
<1>2. \E f : Is(f)
  <2> DEFINE step == [n \in 1 .. MaxFrames |-> [x \in T |-> Framed(stack, rbp, x, n)]]
  <2>1. ASSUME NEW n \in 1 .. MaxFrames, NEW before \in T PROVE Framed(stack, rbp, before, n) \in T
    <3>1. Adds(stack, rbp, before, n) =>
            Append(before, At(stack, rbp, before, n)) \in Seq(DOMAIN stack)
      BY DEF Adds
    <3>2. n \in Nat \ {0} /\ before \in Seq(DOMAIN stack)
      BY FramesAreBounded
    <3>3. Framed(stack, rbp, before, n) =
            IF Adds(stack, rbp, before, n) THEN Append(before, At(stack, rbp, before, n)) ELSE before
      BY <3>2, FramedIs
    <3>4. QED
      BY <3>1, <3>2, <3>3
  <2>2. step \in [1 .. MaxFrames -> [T -> T]] /\ <<>> \in T
    BY <2>1
  <2>3. \A n \in 1 .. MaxFrames : \A x \in T : step[n][x] = Framed(stack, rbp, x, n)
    OBVIOUS
  <2> HIDE DEF T, step
  <2>4. PICK f : Follows(f, MaxFrames, T, <<>>, step)
    BY <2>2, Recursion, FramesAreBounded
  <2>5. f \in [0 .. MaxFrames -> T] /\ f[0] = <<>> /\ \A n \in 1 .. MaxFrames : f[n - 1] \in T
    BY <2>4, FramesAreBounded DEF Follows
  <2>6. \A n \in 1 .. MaxFrames : f[n] = Framed(stack, rbp, f[n - 1], n)
    BY <2>3, <2>4, <2>5 DEF Follows
  <2>7. Is(f)
    BY <2>5, <2>6, FramesAreBounded
  <2> HIDE DEF Is
  <2>8. QED
    BY <2>7
<1> HIDE DEF Is
<1>3. Is(chain)
  BY <1>2
<1> HIDE DEF chain
<1>4. chain[0] = <<>> /\ \A n \in 1 .. MaxFrames : chain[n] = Framed(stack, rbp, chain[n - 1], n)
  BY <1>3, FramesAreBounded DEF Is
<1>5. QED
  BY <1>1, <1>4

\* Where no frame is added, none is added later.
LEMMA ChainStops ==
    ASSUME NEW stack, NEW rbp \in Nat, IsStack(stack), NEW n \in 0 .. MaxFrames,
           Len(Chain(stack, rbp)[n]) = n,
           n < MaxFrames => Chain(stack, rbp)[n + 1] = Chain(stack, rbp)[n]
    PROVE  Artifact!TrueStack(stack, rbp) = Chain(stack, rbp)[n]
<1> DEFINE chain == Chain(stack, rbp)
<1> DEFINE S == {k \in Nat : n + k <= MaxFrames => chain[n + k] = chain[n]}
<1>1. /\ Artifact!TrueStack(stack, rbp) = chain[MaxFrames]
      /\ \A m \in 1 .. MaxFrames : chain[m] = Framed(stack, rbp, chain[m - 1], m)
  BY ChainIsThere
<1> HIDE DEF chain
<1>2. Len(chain[n]) = n /\ (n < MaxFrames => chain[n + 1] = chain[n])
  BY DEF chain
<1>3. ASSUME NEW k \in Nat, k \in S PROVE k + 1 \in S
  <2> SUFFICES ASSUME n + (k + 1) <= MaxFrames PROVE chain[n + (k + 1)] = chain[n]
    OBVIOUS
  <2>1. chain[n + k] = chain[n]
    BY <1>3, FramesAreBounded
  <2>2. CASE k = 0
    BY <1>2, <2>2, FramesAreBounded
  <2>3. CASE k > 0
    <3>1. chain[n + (k + 1)] = Framed(stack, rbp, chain[n + k], n + (k + 1))
      BY <1>1, FramesAreBounded
    <3>2. n + (k + 1) > 1 /\ Len(chain[n + k]) < n + (k + 1) - 1
      BY <1>2, <2>1, <2>3
    <3>3. QED
      BY <2>1, <3>1, <3>2 DEF Framed
  <2>4. QED
    BY <2>2, <2>3
<1>4. 0 \in S
  BY FramesAreBounded
<1> HIDE DEF S
<1>a. \A k \in 0 .. MaxFrames - 1 : k \in S => k + 1 \in S
  BY <1>3, FramesAreBounded
<1>5. \A k \in 0 .. MaxFrames : k \in S
  BY <1>4, <1>a, Induction, FramesAreBounded
<1>6. MaxFrames - n \in S /\ n + (MaxFrames - n) = MaxFrames
  BY <1>5, FramesAreBounded
<1>7. QED
  BY <1>1, <1>6 DEF S, chain

FramesInv ==
    /\ {"kind", "stack", "rbp", "fp", "out", "pc"} \subseteq DOMAIN job
    /\ IsStack(job.stack) /\ job.rbp \in Nat
    /\ job.out \in Seq(DOMAIN job.stack) /\ Len(job.out) <= MaxFrames
    /\ \A i \in 1 .. Len(job.out) - 1 : job.out[i] < job.out[i + 1]
    /\ job.pc \in {"walk", "done"}
    /\ job.pc = "walk" =>
         /\ job.out = Chain(job.stack, job.rbp)[Len(job.out)]
         /\ job.out = <<>> => job.fp = job.rbp
         /\ job.out # <<>> => /\ job.fp = job.stack[Artifact!Last(job.out)].next
                              /\ job.stack[Artifact!Last(job.out)].ret # 0
                              /\ job.fp > Artifact!Last(job.out)
    /\ job.pc = "done" => job.out = Artifact!TrueStack(job.stack, job.rbp)

LEMMA FramesKeep == HasKind /\ job.kind = "frames" /\ FramesInv /\ Artifact!Next => FramesInv'
<1> SUFFICES ASSUME HasKind, job.kind = "frames", FramesInv, Artifact!Next PROVE FramesInv'
  OBVIOUS
<1>1. Artifact!WalkFrame
  BY DEF Artifact!Next, Artifact!BuildSegments, Artifact!coarse_location, Artifact!Ask,
     Artifact!ReadWindow, Artifact!Answered, Artifact!clear_cache, Artifact!refresh_len,
     Artifact!FileChanges, Artifact!Rebuild, Artifact!open, Artifact!set_syntax,
     Artifact!disassemble_with_source, Artifact!disassemble, Artifact!sections,
     Artifact!source_line_for_address
<1> DEFINE n == Len(job.out)
<1> DEFINE chain == Chain(job.stack, job.rbp)
<1> DEFINE top == Artifact!Last(job.out)
<1>2. n \in 0 .. MaxFrames /\ job.pc = "walk" /\ job.out = chain[n]
  BY <1>1, FramesAreBounded DEF FramesInv, Artifact!WalkFrame
<1>3. /\ chain[0] = <<>>
      /\ n < MaxFrames => chain[n + 1] = Framed(job.stack, job.rbp, job.out, n + 1)
  <2>1. /\ chain[0] = <<>>
        /\ \A m \in 1 .. MaxFrames : chain[m] = Framed(job.stack, job.rbp, chain[m - 1], m)
    BY ChainIsThere DEF FramesInv
  <2> HIDE DEF chain
  <2>2. QED
    BY <1>2, <2>1, FramesAreBounded
<1>4. chain[n + 1] = chain[n] \/ n = MaxFrames => job.out = Artifact!TrueStack(job.stack, job.rbp)
  BY <1>2, ChainStops, FramesAreBounded DEF FramesInv
<1>5. n > 0 => top \in DOMAIN job.stack /\ job.out # <<>>
  BY <1>2 DEF FramesInv, Artifact!Last
<1>6. job.fp \in Nat
  BY <1>2, <1>5 DEF FramesInv, IsStack
<1>7. CASE n < MaxFrames /\ job.fp # 0 /\ Artifact!Advances /\ job.fp \in DOMAIN job.stack
  <2> DEFINE frame == job.stack[job.fp]
  <2>1. job' = [job EXCEPT !.out = Append(@, job.fp), !.fp = frame.next,
                           !.pc = IF Artifact!IsLast(frame) THEN "done" ELSE "walk"]
    BY <1>1, <1>7 DEF Artifact!WalkFrame
  <2>2. Adds(job.stack, job.rbp, job.out, n + 1) /\ At(job.stack, job.rbp, job.out, n + 1) = job.fp
    BY <1>2, <1>5, <1>7 DEF Adds, At, FramesInv
  <2>3. chain[n + 1] = Append(job.out, job.fp)
    <3>1. Framed(job.stack, job.rbp, job.out, n + 1) = Append(job.out, job.fp)
      BY <2>2, <1>2, FramedIs DEF FramesInv
    <3>2. QED
      BY <1>3, <1>7, <3>1
  <2>4. /\ job'.out \in Seq(DOMAIN job.stack) /\ Len(job'.out) = n + 1 /\ job'.out # <<>>
        /\ Artifact!Last(job'.out) = job.fp
        /\ \A i \in 1 .. n : job'.out[i] = job.out[i]
        /\ job'.out[n + 1] = job.fp
    <3>1. job.out \in Seq(DOMAIN job.stack) /\ job.fp \in DOMAIN job.stack
      BY <1>7 DEF FramesInv
    <3>2. job'.out = Append(job.out, job.fp)
      BY <2>1 DEF FramesInv
    <3>3. /\ job'.out \in Seq(DOMAIN job.stack) /\ Len(job'.out) = n + 1
          /\ \A i \in 1 .. n : job'.out[i] = job.out[i]
          /\ job'.out[n + 1] = job.fp
      <4> DEFINE was == job.out
      <4> DEFINE fp == job.fp
      <4> DEFINE S == DOMAIN job.stack
      <4>1. was \in Seq(S) /\ fp \in S /\ job'.out = Append(was, fp) /\ n = Len(was)
        BY <3>1, <3>2
      <4> HIDE DEF was, fp, S
      <4>2. /\ job'.out \in Seq(S) /\ Len(job'.out) = n + 1
            /\ \A i \in 1 .. n : job'.out[i] = was[i]
            /\ job'.out[n + 1] = fp
        BY ONLY <4>1
      <4>3. QED
        BY <4>2 DEF was, fp, S
    <3>4. QED
      BY <1>2, <3>3 DEF Artifact!Last
  <2>5. \A i \in 1 .. Len(job'.out) - 1 : job'.out[i] < job'.out[i + 1]
    <3>1. ASSUME NEW i \in 1 .. n PROVE job'.out[i] < job'.out[i + 1]
      <4>1. CASE i = n
        <5>1. n > 0 /\ job.fp > top /\ job'.out[i] = top /\ job'.out[i + 1] = job.fp
          BY <1>2, <1>5, <1>7, <2>4, <4>1 DEF Artifact!Advances, Artifact!Last
        <5>2. top \in Nat
          BY <1>5, <5>1 DEF FramesInv, IsStack
        <5>3. QED
          BY <1>6, <5>1, <5>2
      <4>2. CASE i < n
        <5>1. i \in 1 .. Len(job.out) - 1 /\ i \in 1 .. n /\ i + 1 \in 1 .. n
          BY <1>2, <4>2
        <5>2. job.out[i] < job.out[i + 1]
          BY <5>1 DEF FramesInv
        <5>3. job'.out[i] = job.out[i] /\ job'.out[i + 1] = job.out[i + 1]
          BY <2>4, <5>1
        <5>4. QED
          BY <5>2, <5>3
      <4>3. QED
        BY <1>2, <4>1, <4>2
    <3>2. QED
      BY <2>4, <3>1, <1>2
  <2>6. /\ job'.kind = job.kind /\ job'.stack = job.stack /\ job'.rbp = job.rbp
        /\ job'.fp = frame.next /\ DOMAIN job' = DOMAIN job /\ job'.out = Append(job.out, job.fp)
        /\ job'.pc = IF Artifact!IsLast(frame) THEN "done" ELSE "walk"
    BY <2>1, <1>2 DEF FramesInv
  <2>7. Chain(job'.stack, job'.rbp)[n + 1] = job'.out
    BY <2>3, <2>6
  <2>8. ASSUME ~ Artifact!IsLast(frame)
        PROVE  frame.ret # 0 /\ frame.next > job.fp
    BY <2>8, <1>6, <1>7 DEF Artifact!IsLast, Artifact!Outermost, FramesInv, IsStack
  <2>9. ASSUME Artifact!IsLast(frame), n + 1 < MaxFrames
        PROVE  chain[n + 2] = chain[n + 1]
    <3>1. frame.ret = 0 \/ ~ (frame.next > job.fp)
      BY <2>9, <1>6, <1>7 DEF Artifact!IsLast, Artifact!Outermost, FramesInv, IsStack
    <3>2. ~ Adds(job.stack, job.rbp, job'.out, n + 2)
      BY <3>1, <2>4, <1>2 DEF Adds, At
    <3>3. Framed(job.stack, job.rbp, job'.out, n + 2) = job'.out
      BY <3>2, <1>2, <2>4, FramedIs DEF FramesInv
    <3>4. chain[n + 2] = Framed(job.stack, job.rbp, chain[n + 1], n + 2)
      <4>1. \A m \in 1 .. MaxFrames : chain[m] = Framed(job.stack, job.rbp, chain[m - 1], m)
        BY ChainIsThere DEF FramesInv
      <4> HIDE DEF chain
      <4>2. n + 2 \in 1 .. MaxFrames /\ (n + 2) - 1 = n + 1
        BY <1>2, <2>9, FramesAreBounded
      <4>3. QED
        BY <4>1, <4>2
    <3>5. QED
      BY <2>3, <2>6, <3>3, <3>4
  <2>10. Artifact!IsLast(frame) => job'.out = Artifact!TrueStack(job.stack, job.rbp)
    <3>1. Len(chain[n + 1]) = n + 1 /\ n + 1 \in 0 .. MaxFrames
      BY <1>2, <1>7, <2>3, <2>4, <2>6, FramesAreBounded
    <3>2. Artifact!IsLast(frame) => (n + 1 < MaxFrames => chain[(n + 1) + 1] = chain[n + 1])
      BY <1>2, <2>9
    <3>3. Artifact!IsLast(frame) => Artifact!TrueStack(job.stack, job.rbp) = chain[n + 1]
      BY <3>1, <3>2, ChainStops DEF FramesInv
    <3>4. QED
      BY <2>3, <2>6, <3>3
  <2>11. QED
    BY <1>2, <1>7, <2>4, <2>5, <2>6, <2>7, <2>8, <2>10, FramesAreBounded DEF FramesInv, IsStack
<1>8. CASE ~ (n < MaxFrames /\ job.fp # 0 /\ Artifact!Advances /\ job.fp \in DOMAIN job.stack)
  <2>1. job' = [job EXCEPT !.pc = "done"]
    BY <1>1, <1>8 DEF Artifact!WalkFrame
  <2>2. Artifact!Advances
    BY <1>2 DEF Artifact!Advances, FramesInv
  <2>3. ASSUME n < MaxFrames PROVE chain[n + 1] = chain[n]
    <3>1. ~ Adds(job.stack, job.rbp, job.out, n + 1)
      BY <1>2, <1>5, <1>8, <2>2, <2>3 DEF Adds, At, FramesInv
    <3>2. Framed(job.stack, job.rbp, job.out, n + 1) = job.out
      BY <3>1, <1>2, FramedIs DEF FramesInv
    <3>3. QED
      BY <1>2, <1>3, <2>3, <3>2
  <2>4. job.out = Artifact!TrueStack(job.stack, job.rbp)
    BY <1>2, <1>4, <2>3, FramesAreBounded
  <2>5. /\ job'.kind = job.kind /\ job'.stack = job.stack /\ job'.rbp = job.rbp
        /\ job'.out = job.out /\ DOMAIN job' = DOMAIN job /\ job'.pc = "done"
    BY <2>1 DEF FramesInv
  <2>6. QED
    BY <2>4, <2>5 DEF FramesInv, IsStack
<1>9. QED
  BY <1>7, <1>8

LEMMA FramesStart ==
    ASSUME NEW readable \in SUBSET (Artifact!Addresses \ {0}),
           NEW stack \in [readable -> Artifact!Frames], NEW rbp \in {0, 1, 2},
           job = Artifact!Walk(stack, rbp)
    PROVE  FramesInv
<1>1. IsStack(stack)
  <2>1. DOMAIN stack = readable /\ \A a \in readable : stack[a] \in Artifact!Frames
    OBVIOUS
  <2>2. \A frame \in Artifact!Frames : frame.next \in Artifact!Addresses
    BY DEF Artifact!Frames
  <2>3. Artifact!Addresses \subseteq Nat
    BY AddressesAreBounded DEF Artifact!Addresses
  <2>4. QED
    BY <2>1, <2>2, <2>3 DEF IsStack
<1>2. /\ {"kind", "stack", "rbp", "fp", "out", "pc"} \subseteq DOMAIN job
      /\ job.stack = stack /\ job.rbp = rbp /\ job.fp = rbp /\ job.out = <<>> /\ job.pc = "walk"
  BY DEF Artifact!Walk
<1>3. Chain(stack, rbp)[0] = <<>> /\ rbp \in Nat /\ 0 <= MaxFrames
  BY <1>1, ChainIsThere, FramesAreBounded
<1>4. <<>> \in Seq(DOMAIN stack) /\ Len(<<>>) = 0
  OBVIOUS
<1>5. /\ IsStack(job.stack) /\ job.rbp \in Nat
      /\ job.out \in Seq(DOMAIN job.stack) /\ Len(job.out) = 0
      /\ job.out = Chain(job.stack, job.rbp)[0]
  BY ONLY <1>1, <1>2, <1>3, <1>4
<1>6. \A i \in 1 .. Len(job.out) - 1 : job.out[i] < job.out[i + 1]
  BY ONLY <1>5
<1>7. QED
  BY ONLY <1>2, <1>3, <1>5, <1>6 DEF FramesInv

LEMMA FramesShow == FramesInv => Artifact!WalkIsTheStack
BY DEF FramesInv, Artifact!WalkIsTheStack

-----------------------------------------------------------------------------
(* The symbol of an address. *)

\* One symbol of the table after another: the narrowest so far, <<>> while there is none.
Narrower(table, a, best, n) ==
    IF ~ Artifact!Covers(table[n], a) THEN best
    ELSE IF best = <<>> \/ Artifact!Width(table[n]) <= Artifact!Width(best[1]) THEN <<table[n]>>
    ELSE best

\* What is found covers the address, and nothing that covers it is narrower.
Covering(table, a) == {s \in Artifact!ToSet(table) : Artifact!Covers(s, a)}
IsNarrowest(table, a, found) ==
    /\ found = <<>> <=> Covering(table, a) = {}
    /\ found = <<>> \/ \E s \in Covering(table, a) :
         found = <<s>> /\ \A t \in Covering(table, a) : Artifact!Width(s) <= Artifact!Width(t)

LEMMA BestIsNarrowest ==
    ASSUME NEW table \in Seq(Artifact!Symbols), NEW a
    PROVE  IsNarrowest(table, a, Artifact!Best(table, a))
<1> DEFINE covering == Covering(table, a)
<1>c. covering = {s \in Artifact!ToSet(table) : Artifact!Covers(s, a)}
  BY DEF Covering
<1> HIDE DEF covering
<1> DEFINE N == Len(table)
<1> DEFINE T == {<<>>} \cup {<<s>> : s \in Artifact!Symbols}
<1> DEFINE Is(best) == best = [n \in 0 .. N |-> IF n = 0 THEN <<>> ELSE Narrower(table, a, best[n - 1], n)]
<1> DEFINE best == CHOOSE f : Is(f)
<1>1. Artifact!Best(table, a) = best[N]
  BY Zenon DEF Artifact!Best, Narrower
<1>2. N \in Nat /\ \A n \in 1 .. N : table[n] \in Artifact!Symbols
  OBVIOUS
<1>3. \E f : Is(f)
  <2> DEFINE step == [n \in 1 .. N |-> [x \in T |-> Narrower(table, a, x, n)]]
  <2>1. step \in [1 .. N -> [T -> T]] /\ <<>> \in T
    BY <1>2 DEF Narrower
  <2>2. \A n \in 1 .. N : \A x \in T : step[n][x] = Narrower(table, a, x, n)
    OBVIOUS
  <2> HIDE DEF T, N, step
  <2>3. PICK f : Follows(f, N, T, <<>>, step)
    BY <1>2, <2>1, Recursion
  <2>4. f \in [0 .. N -> T] /\ f[0] = <<>> /\ \A n \in 1 .. N : f[n - 1] \in T
    BY <1>2, <2>3 DEF Follows
  <2>5. \A n \in 1 .. N : f[n] = Narrower(table, a, f[n - 1], n)
    BY <1>2, <2>2, <2>3, <2>4 DEF Follows
  <2>6. Is(f)
    BY <1>2, <2>4, <2>5
  <2> HIDE DEF Is
  <2>7. QED
    BY <2>6
<1> HIDE DEF Is
<1>4. Is(best)
  BY <1>3
<1> HIDE DEF best
<1> USE DEF Is
<1> DEFINE Upto(n) == {s \in {table[i] : i \in 1 .. n} : Artifact!Covers(s, a)}
<1> DEFINE Right(n) ==
      \/ best[n] = <<>> /\ Upto(n) = {}
      \/ \E s \in Upto(n) : best[n] = <<s>> /\ \A t \in Upto(n) : Artifact!Width(s) <= Artifact!Width(t)
<1>5. best[0] = <<>> /\ \A n \in 1 .. N : best[n] = Narrower(table, a, best[n - 1], n)
  BY <1>2, <1>4
<1> HIDE DEF Is
<1>6. \A s \in Artifact!Symbols : Artifact!Width(s) \in Nat
  BY DEF Artifact!Symbols, Artifact!Width
<1>7. Right(0)
  BY <1>5
<1>8. ASSUME NEW n \in 0 .. N - 1, Right(n) PROVE Right(n + 1)
  <2> DEFINE s == table[n + 1]
  <2>1. s \in Artifact!Symbols /\ \A t \in Upto(n) : t \in Artifact!Symbols
    BY <1>2
  <2>2. Upto(n + 1) = Upto(n) \cup (IF Artifact!Covers(s, a) THEN {s} ELSE {})
    BY <1>2
  <2>3. best[n + 1] = Narrower(table, a, best[n], n + 1)
    BY <1>2, <1>5
  <2> HIDE DEF Upto
  <2>4. CASE ~ Artifact!Covers(s, a)
    BY <1>8, <2>2, <2>3, <2>4 DEF Narrower
  <2>5. CASE Artifact!Covers(s, a)
    <3>1. Upto(n + 1) = Upto(n) \cup {s}
      BY <2>2, <2>5
    <3>2. CASE best[n] = <<>>
      <4>1. Upto(n) = {}
        BY <1>8, <3>2
      <4>2. best[n + 1] = <<s>>
        BY <2>3, <2>5, <3>2 DEF Narrower
      <4>3. QED
        BY <1>6, <2>1, <3>1, <4>1, <4>2
    <3>3. ASSUME NEW r \in Upto(n), best[n] = <<r>>, \A t \in Upto(n) : Artifact!Width(r) <= Artifact!Width(t)
          PROVE  Right(n + 1)
      <4>1. best[n] # <<>> /\ best[n][1] = r
        BY <3>3
      <4>2. best[n + 1] = IF Artifact!Width(s) <= Artifact!Width(r) THEN <<s>> ELSE <<r>>
        BY <2>3, <2>5, <3>3, <4>1 DEF Narrower
      <4>3. Artifact!Width(s) \in Nat /\ Artifact!Width(r) \in Nat /\ \A t \in Upto(n) : Artifact!Width(t) \in Nat
        BY <1>6, <2>1
      <4>4. QED
        BY <3>1, <3>3, <4>2, <4>3
    <3>4. QED
      BY <1>8, <3>2, <3>3
  <2>6. QED
    BY <2>4, <2>5
<1> DEFINE S == {n \in 0 .. N : Right(n)}
<1> HIDE DEF Right
<1>9. 0 \in S /\ \A n \in 0 .. N - 1 : n \in S => n + 1 \in S
  BY <1>2, <1>7, <1>8
<1>10. \A n \in 0 .. N : n \in S
  <2> HIDE DEF S, N
  <2>1. QED
    BY <1>2, <1>9, Induction
<1>11. Right(N)
  BY <1>2, <1>10
<1>12. Upto(N) = covering
  BY <1>c DEF Artifact!ToSet
<1> HIDE DEF Upto, best
<1> USE DEF Right
<1>13. QED
  <2>1. best[N] = <<>> => covering = {}
    BY <1>11, <1>12
  <2>2. covering = {} => best[N] = <<>>
    BY <1>11, <1>12
  <2>3. best[N] = <<>> \/ \E s \in covering :
          best[N] = <<s>> /\ \A t \in covering : Artifact!Width(s) <= Artifact!Width(t)
    BY <1>11, <1>12
  <2>4. IsNarrowest(table, a, best[N])
    BY <2>1, <2>2, <2>3, Zenon DEF IsNarrowest, covering
  <2>5. QED
    BY <1>1, <2>4

SymbolNames == {"kind", "table", "address", "found", "pc"}
SymbolInv ==
    /\ job = [name \in SymbolNames |-> job[name]]
    /\ job.kind = "symbol"
    /\ job.table \in Seq(Artifact!Symbols)
    /\ job.pc = "done" => job.found = Artifact!Best(job.table, job.address)

LEMMA SymbolStarts ==
    ASSUME NEW table \in Artifact!SeqOf(Artifact!Symbols, 2), NEW a \in Artifact!Addresses,
           job = Artifact!Lookup(table, a)
    PROVE  SymbolInv
<1>1. table \in Seq(Artifact!Symbols)
  <2>1. PICK m \in 0 .. 2 : table \in [1 .. m -> Artifact!Symbols]
    BY DEF Artifact!SeqOf
  <2>2. QED
    BY <2>1
<1>2. /\ job = [name \in SymbolNames |-> job[name]]
      /\ job.kind = "symbol" /\ job.table = table /\ job.pc = "ask"
  BY DEF Artifact!Lookup, SymbolNames
<1>3. QED
  BY <1>1, <1>2 DEF SymbolInv

LEMMA SymbolKeeps ==
    ASSUME SymbolInv, [Artifact!Next]_job PROVE SymbolInv'
<1>1. job.kind = "symbol" /\ job = [name \in SymbolNames |-> job[name]]
  BY DEF SymbolInv
<1>2. CASE UNCHANGED job
  BY <1>2 DEF SymbolInv
<1>3. CASE Artifact!Next
  <2>1. job' = [job EXCEPT !.found = Artifact!Best(job.table, job.address), !.pc = "done"]
    BY <1>1, <1>3 DEF Artifact!Next, Artifact!coarse_location, Artifact!BuildSegments,
       Artifact!WalkFrame, Artifact!Ask, Artifact!ReadWindow, Artifact!Answered,
       Artifact!clear_cache, Artifact!refresh_len, Artifact!FileChanges, Artifact!Rebuild,
       Artifact!open, Artifact!set_syntax, Artifact!disassemble_with_source,
       Artifact!disassemble, Artifact!sections, Artifact!source_line_for_address
  <2>2. /\ job' = [name \in SymbolNames |-> job'[name]]
        /\ job'.kind = job.kind /\ job'.table = job.table /\ job'.address = job.address
        /\ job'.found = Artifact!Best(job.table, job.address)
    BY <1>1, <2>1 DEF SymbolNames
  <2>3. QED
    BY <2>2 DEF SymbolInv
<1>4. QED
  BY <1>2, <1>3

LEMMA SymbolShows == SymbolInv => Artifact!NarrowestIsNamed
<1> SUFFICES ASSUME SymbolInv, job.pc = "done" PROVE Artifact!NarrowestIsNamed
  BY DEF Artifact!NarrowestIsNamed
<1> DEFINE covering == Covering(job.table, job.address)
<1>1. /\ job.found = <<>> <=> covering = {}
      /\ job.found = <<>> \/ \E s \in covering :
           job.found = <<s>> /\ \A t \in covering : Artifact!Width(s) <= Artifact!Width(t)
  <2>1. IsNarrowest(job.table, job.address, job.found)
    BY BestIsNarrowest DEF SymbolInv
  <2>2. QED
    BY <2>1, Zenon DEF IsNarrowest
<1>2. \A s \in Artifact!ToSet(job.found) :
         s \in covering /\ \A t \in covering : Artifact!Width(s) <= Artifact!Width(t)
  <2>1. CASE job.found = <<>>
    BY <2>1 DEF Artifact!ToSet
  <2>2. CASE job.found # <<>>
    <3>1. PICK s \in covering : job.found = <<s>>
            /\ \A t \in covering : Artifact!Width(s) <= Artifact!Width(t)
      BY <1>1, <2>2
    <3>2. Artifact!ToSet(job.found) = {s}
      BY <3>1 DEF Artifact!ToSet
    <3> HIDE DEF covering
    <3>3. QED
      BY <3>1, <3>2
  <2>3. QED
    BY <2>1, <2>2
<1>3. QED
  BY <1>1, <1>2 DEF Artifact!NarrowestIsNamed, Covering

-----------------------------------------------------------------------------
(* The windows of the hex view. *)

\* What a concatenation holds.
IsJoined(S, left, right, t) ==
    /\ t \in Seq(S) /\ Len(t) = Len(left) + Len(right)
    /\ Len(left) \in Nat /\ Len(right) \in Nat
    /\ \A i \in 1 .. Len(left) : t[i] = left[i]
    /\ \A i \in 1 .. Len(right) : t[Len(left) + i] = right[i]

LEMMA Joined ==
    ASSUME NEW S, NEW left \in Seq(S), NEW right \in Seq(S)
    PROVE  IsJoined(S, left, right, left \o right)
<1> DEFINE t == left \o right
<1>1. /\ t \in Seq(S) /\ Len(t) = Len(left) + Len(right)
      /\ Len(left) \in Nat /\ Len(right) \in Nat
  BY ConcatProperties
<1>2. \A i \in 1 .. Len(left) + Len(right) :
          t[i] = IF i <= Len(left) THEN left[i] ELSE right[i - Len(left)]
  BY ConcatProperties, Zenon
<1> HIDE DEF t
<1>3. ASSUME NEW i \in 1 .. Len(left) PROVE t[i] = left[i]
  BY <1>1, <1>2
<1>4. ASSUME NEW i \in 1 .. Len(right) PROVE t[Len(left) + i] = right[i]
  <2>1. Len(left) + i \in 1 .. Len(left) + Len(right) /\ ~(Len(left) + i <= Len(left))
        /\ Len(left) + i - Len(left) = i
    BY <1>1
  <2>2. QED
    BY <1>2, <2>1
<1>5. IsJoined(S, left, right, t)
  BY <1>1, <1>3, <1>4 DEF IsJoined
<1>6. QED
  BY <1>5 DEF t

\* What is between two places of a sequence.
IsCut(S, s, m, n, t) ==
    /\ t \in Seq(S)
    /\ m < n => Len(t) = n - m
    /\ m >= n => t = <<>> /\ Len(t) = 0
    /\ \A i \in 1 .. n - m : t[i] = s[m + i]

LEMMA Cut ==
    ASSUME NEW S, NEW s \in Seq(S), NEW m \in Nat, NEW n \in Nat, n <= Len(s),
           NEW t, t = SubSeq(s, m + 1, n)
    PROVE  IsCut(S, s, m, n, t)
<1>1. m + 1 \in Int /\ n \in Int /\ \A i \in m + 1 .. n : s[i] \in S
  OBVIOUS
<1> DEFINE u == SubSeq(s, m + 1, n)
<1>2. /\ u \in Seq(S) /\ Len(u) = IF m + 1 <= n THEN n - (m + 1) + 1 ELSE 0
      /\ \A i \in 1 .. n - (m + 1) + 1 : u[i] = s[(m + 1) + i - 1]
  BY <1>1, SubSeqProperties
<1>3. u = t
  OBVIOUS
<1> HIDE DEF u
<1>4. /\ t \in Seq(S) /\ Len(t) = IF m + 1 <= n THEN n - (m + 1) + 1 ELSE 0
      /\ \A i \in 1 .. n - (m + 1) + 1 : t[i] = s[(m + 1) + i - 1]
  BY <1>2, <1>3
<1>5. n - (m + 1) + 1 = n - m /\ \A i \in Nat : (m + 1) + i - 1 = m + i
  OBVIOUS
<1>6. ASSUME NEW i \in 1 .. n - m PROVE t[i] = s[m + i]
  <2>1. i \in 1 .. n - (m + 1) + 1 /\ (m + 1) + i - 1 = m + i
    BY <1>5
  <2>2. QED
    BY <1>4, <2>1
<1>7. m < n => Len(t) = n - m
  BY <1>4
<1>8. m >= n => Len(t) = 0
  BY <1>4
<1>9. Len(t) = 0 => t = <<>>
  BY <1>4, EmptySeq
<1>10. QED
  BY <1>4, <1>6, <1>7, <1>8, <1>9 DEF IsCut

\* The element at k comes first, the others stay in their order.
IsFronted(S, s, k, t) ==
    /\ t \in Seq(S) /\ Len(t) = Len(s) /\ t[1] = s[k]
    /\ \A j \in 2 .. k : t[j] = s[j - 1]
    /\ \A j \in k + 1 .. Len(s) : t[j] = s[j]

LEMMA ToTheFront ==
    ASSUME NEW S, NEW s \in Seq(S), NEW k \in 1 .. Len(s),
           NEW t, t = <<s[k]>> \o Artifact!RemoveAt(s, k)
    PROVE  IsFronted(S, s, k, t)
<1> DEFINE left == SubSeq(s, 1, k - 1)
<1> DEFINE right == SubSeq(s, k + 1, Len(s))
<1>n. Len(s) \in Nat /\ k \in Nat /\ 1 <= k /\ k <= Len(s)
  OBVIOUS
<1>1. /\ left \in Seq(S) /\ Len(left) = k - 1 /\ \A i \in 1 .. k - 1 : left[i] = s[i]
      /\ right \in Seq(S) /\ Len(right) = Len(s) - k /\ \A i \in 1 .. Len(s) - k : right[i] = s[k + i]
  <2>1. /\ left = SubSeq(s, 0 + 1, k - 1) /\ k - 1 \in Nat /\ k - 1 <= Len(s)
        /\ 0 \in Nat /\ k - 1 - 0 = k - 1
    BY <1>n
  <2> HIDE DEF left, right
  <2>2. IsCut(S, s, 0, k - 1, left)
    BY <2>1, Cut, Zenon
  <2>3. IsCut(S, s, k, Len(s), right)
    <3>1. Len(s) <= Len(s) /\ k \in Nat /\ Len(s) \in Nat /\ right = SubSeq(s, k + 1, Len(s))
      BY <1>n DEF right
    <3>2. QED
      BY <3>1, Cut, Zenon
  <2>4. QED
    BY <1>n, <2>2, <2>3 DEF IsCut
<1> HIDE DEF left, right
<1>2. t = <<s[k]>> \o (left \o right)
  BY DEF Artifact!RemoveAt, left, right
<1> DEFINE rest == left \o right
<1>3. IsJoined(S, left, right, rest)
  BY <1>1, Joined
<1> HIDE DEF rest
<1> DEFINE one == <<s[k]>>
<1>4. one \in Seq(S) /\ Len(one) = 1 /\ one[1] = s[k] /\ t = one \o rest
  BY <1>2 DEF rest
<1> HIDE DEF one
<1>5. IsJoined(S, one, rest, t)
  <2>1. rest \in Seq(S)
    BY <1>3 DEF IsJoined
  <2>2. QED
    BY <1>4, <2>1, Joined, Zenon
<1>6. t \in Seq(S) /\ Len(t) = Len(s) /\ t[1] = s[k]
  BY <1>n, <1>1, <1>3, <1>4, <1>5 DEF IsJoined
<1>l. /\ Len(left) = k - 1 /\ Len(right) = Len(s) - k
      /\ Len(rest) = Len(s) - 1 /\ Len(one) = 1
  BY <1>n, <1>1, <1>3, <1>4 DEF IsJoined
<1>7. ASSUME NEW j \in 2 .. k PROVE t[j] = s[j - 1]
  <2>1. j - 1 \in 1 .. Len(left) /\ j - 1 \in 1 .. Len(rest) /\ Len(one) + (j - 1) = j
    BY <1>n, <1>l
  <2>2. t[j] = rest[j - 1] /\ rest[j - 1] = left[j - 1]
    BY <1>3, <1>5, <2>1 DEF IsJoined
  <2>3. QED
    BY <1>1, <2>1, <2>2
<1>8. ASSUME NEW j \in k + 1 .. Len(s) PROVE t[j] = s[j]
  <2>1. /\ j - k \in 1 .. Len(right) /\ j - 1 \in 1 .. Len(rest) /\ Len(one) + (j - 1) = j
        /\ Len(left) + (j - k) = j - 1 /\ k + (j - k) = j
    BY <1>n, <1>l
  <2>2. t[j] = rest[j - 1] /\ rest[j - 1] = right[j - k]
    BY <1>3, <1>5, <2>1 DEF IsJoined
  <2>3. QED
    BY <1>1, <2>1, <2>2
<1>9. QED
  BY <1>6, <1>7, <1>8 DEF IsFronted

\* What a window holds of a file: two bytes, or what is left of them.
OfFile(bytes, file, from) ==
    /\ bytes \in Seq(Nat)
    /\ from >= Len(file) => Len(bytes) = 0
    /\ from + 2 <= Len(file) => Len(bytes) = 2
    /\ (from < Len(file) /\ Len(file) < from + 2) => Len(bytes) = Len(file) - from
    /\ \A i \in 1 .. Len(bytes) : bytes[i] = file[from + i]

LEMMA CutIsOfFile ==
    ASSUME NEW file \in Seq(Nat), NEW from \in Nat, NEW last \in Nat, NEW bytes,
           IsCut(Nat, file, from, last, bytes),
           \/ last = Len(file) /\ last <= from + 2
           \/ last = from + 2 /\ last <= Len(file)
    PROVE  OfFile(bytes, file, from)
<1>1. bytes \in Seq(Nat) /\ \A i \in 1 .. last - from : bytes[i] = file[from + i]
  BY DEF IsCut
<1>2. /\ Len(bytes) \in Nat /\ Len(file) \in Nat
      /\ from < last => Len(bytes) = last - from
      /\ from >= last => Len(bytes) = 0
  BY DEF IsCut
<1> DEFINE held == Len(bytes)
<1> DEFINE size == Len(file)
<1>3. /\ held \in Nat /\ size \in Nat /\ from \in Nat /\ last \in Nat
      /\ from < last => held = last - from
      /\ from >= last => held = 0
      /\ \/ last = size /\ last <= from + 2
         \/ last = from + 2 /\ last <= size
  BY <1>2
<1> HIDE DEF held, size
<1>4. /\ from >= size => held = 0
      /\ from + 2 <= size => held = 2
      /\ (from < size /\ size < from + 2) => held = size - from
      /\ \A i \in 1 .. held : i \in 1 .. last - from
  BY ONLY <1>3
<1>5. \A i \in 1 .. held : bytes[i] = file[from + i]
  BY <1>1, <1>4
<1>6. QED
  BY <1>1, <1>4, <1>5 DEF OfFile, held, size

LEMMA ReadIsOfFile ==
    ASSUME NEW file \in Seq(Nat), NEW index \in Nat
    PROVE  OfFile(SubSeq(file, index * 2 + 1, Artifact!Limit((index + 1) * 2, Len(file))),
                  file, index * 2)
<1> DEFINE from == index * 2
<1> DEFINE last == Artifact!Limit((index + 1) * 2, Len(file))
<1> DEFINE bytes == SubSeq(file, from + 1, last)
<1>1. from \in Nat /\ last \in Nat /\ last <= Len(file)
      /\ ((last = Len(file) /\ last <= from + 2) \/ (last = from + 2 /\ last <= Len(file)))
  BY DEF Artifact!Limit
<1>2. bytes = SubSeq(file, from + 1, last)
  OBVIOUS
<1> HIDE DEF last, bytes, from
<1>3. IsCut(Nat, file, from, last, bytes)
  BY <1>1, <1>2, Cut, Zenon
<1>4. OfFile(bytes, file, from)
  BY <1>1, <1>3, CutIsOfFile
<1>5. QED
  BY <1>4 DEF bytes, last, from

\* A window of the cache: the one asked for comes first.
HexWindow == [index : Nat, bytes : Seq(Nat)]
Kept(cache) ==
    /\ cache \in Seq(HexWindow) /\ Len(cache) <= Capacity
    /\ \A i, j \in 1 .. Len(cache) : cache[i].index = cache[j].index => i = j
Faithful(cache, file) ==
    \A i \in 1 .. Len(cache) : OfFile(cache[i].bytes, file, cache[i].index * 2)

\* A cache begins with the window asked for, and is as good as the one before.
Serves(cache, file, t, index) ==
    /\ Kept(t) /\ t # <<>> /\ t[1].index = index
    /\ Faithful(cache, file) => Faithful(t, file)

LEMMA FoundIsKept ==
    ASSUME NEW cache, Kept(cache), NEW file, NEW k \in 1 .. Len(cache),
           NEW t, t = <<cache[k]>> \o Artifact!RemoveAt(cache, k)
    PROVE  Serves(cache, file, t, cache[k].index)
<1>1. cache \in Seq(HexWindow) /\ Len(cache) \in Nat
  BY DEF Kept
<1>2. /\ t \in Seq(HexWindow) /\ Len(t) = Len(cache) /\ t[1] = cache[k]
      /\ \A j \in 2 .. k : t[j] = cache[j - 1]
      /\ \A j \in k + 1 .. Len(cache) : t[j] = cache[j]
  <2>1. IsFronted(HexWindow, cache, k, t)
    BY <1>1, ToTheFront, Zenon
  <2>2. QED
    BY <2>1 DEF IsFronted
<1> DEFINE was(j) == IF j = 1 THEN k ELSE IF j <= k THEN j - 1 ELSE j
<1>3. \A j \in 1 .. Len(t) : was(j) \in 1 .. Len(cache) /\ t[j] = cache[was(j)]
  <2> SUFFICES ASSUME NEW j \in 1 .. Len(t)
               PROVE  was(j) \in 1 .. Len(cache) /\ t[j] = cache[was(j)]
    OBVIOUS
  <2>1. CASE j = 1
    BY <1>1, <1>2, <2>1
  <2>2. CASE j # 1 /\ j <= k
    <3>1. j \in 2 .. k /\ was(j) = j - 1
      BY <2>2, <1>1, <1>2
    <3>2. QED
      BY <1>1, <1>2, <3>1
  <2>3. CASE j > k
    <3>1. j \in k + 1 .. Len(cache) /\ was(j) = j
      BY <2>3, <1>1, <1>2
    <3>2. QED
      BY <1>1, <1>2, <3>1
  <2>4. QED
    BY <1>1, <1>2, <2>1, <2>2, <2>3
<1>4. \A i, j \in 1 .. Len(t) : was(i) = was(j) => i = j
  BY <1>1, <1>2
<1> HIDE DEF was
<1>5. \A i, j \in 1 .. Len(t) : t[i].index = t[j].index => i = j
  <2> SUFFICES ASSUME NEW i \in 1 .. Len(t), NEW j \in 1 .. Len(t), t[i].index = t[j].index
               PROVE  i = j
    OBVIOUS
  <2>1. /\ was(i) \in 1 .. Len(cache) /\ was(j) \in 1 .. Len(cache)
        /\ cache[was(i)].index = cache[was(j)].index
    BY <1>3
  <2>2. was(i) = was(j)
    BY <2>1 DEF Kept
  <2>3. QED
    BY <1>4, <2>2
<1>6. Faithful(cache, file) => Faithful(t, file)
  BY <1>3 DEF Faithful
<1>7. t # <<>>
  BY <1>1, <1>2
<1>8. QED
  BY <1>2, <1>5, <1>6, <1>7 DEF Kept, Serves

LEMMA ReadIsKept ==
    ASSUME NEW cache, Kept(cache), NEW file, NEW read \in HexWindow,
           \A i \in 1 .. Len(cache) : cache[i].index # read.index,
           OfFile(read.bytes, file, read.index * 2),
           NEW t, t = Artifact!trim(<<read>> \o cache)
    PROVE  Serves(cache, file, t, read.index)
<1> DEFINE one == <<read>>
<1> DEFINE all == one \o cache
<1>1. one \in Seq(HexWindow) /\ Len(one) = 1 /\ one[1] = read
  OBVIOUS
<1>2. cache \in Seq(HexWindow) /\ Len(cache) \in Nat /\ Len(cache) <= Capacity /\ Capacity \in Nat
  BY WindowsAreKept DEF Kept
<1> HIDE DEF one
<1>3. IsJoined(HexWindow, one, cache, all)
  BY <1>1, <1>2, Joined
<1>4. t = Artifact!trim(all)
  BY DEF one
<1> HIDE DEF all
<1>5. /\ all \in Seq(HexWindow) /\ Len(all) = Len(cache) + 1 /\ all[1] = read
      /\ \A i \in 1 .. Len(cache) : all[1 + i] = cache[i]
  BY <1>1, <1>2, <1>3 DEF IsJoined
<1>6. \A i \in 2 .. Len(all) : i - 1 \in 1 .. Len(cache) /\ all[i] = cache[i - 1]
  <2> SUFFICES ASSUME NEW i \in 2 .. Len(all)
               PROVE  i - 1 \in 1 .. Len(cache) /\ all[i] = cache[i - 1]
    OBVIOUS
  <2>1. i - 1 \in 1 .. Len(cache) /\ 1 + (i - 1) = i
    BY <1>2, <1>5
  <2>2. QED
    BY <1>5, <2>1
<1>7. /\ t \in Seq(HexWindow) /\ Len(t) \in 1 .. Len(all) /\ Len(t) <= Capacity
      /\ \A i \in 1 .. Len(t) : t[i] = all[i]
  <2>1. CASE Len(all) > Capacity
    <3>1. t = SubSeq(all, 0 + 1, Len(all) - 1)
      BY <1>4, <2>1 DEF Artifact!trim, Artifact!Front
    <3>2. Len(all) - 1 \in Nat /\ Len(all) - 1 <= Len(all) /\ 0 \in Nat
      BY <1>2, <1>5
    <3>3. IsCut(HexWindow, all, 0, Len(all) - 1, t)
      BY <1>5, <3>1, <3>2, Cut, Zenon
    <3>4. Len(all) - 1 = Capacity /\ Capacity > 0
      BY <2>1, <1>2, <1>5, WindowsAreKept
    <3>5. QED
      BY <1>2, <1>5, <3>3, <3>4 DEF IsCut
  <2>2. CASE ~ (Len(all) > Capacity)
    BY <1>2, <1>4, <1>5, <2>2 DEF Artifact!trim
  <2>3. QED
    BY <2>1, <2>2
<1>8. \A i \in 2 .. Len(t) : i - 1 \in 1 .. Len(cache) /\ t[i] = cache[i - 1]
  BY ONLY <1>2, <1>5, <1>6, <1>7
<1>9. t[1] = read /\ Len(t) \in Nat
  BY ONLY <1>2, <1>5, <1>7
<1>10. \A i, j \in 1 .. Len(t) : t[i].index = t[j].index => i = j
  <2>1. \A i, j \in 2 .. Len(t) : t[i].index = t[j].index => i = j
    <3>1. \A i, j \in 1 .. Len(cache) : cache[i].index = cache[j].index => i = j
      BY DEF Kept
    <3>2. ASSUME NEW i \in 2 .. Len(t), NEW j \in 2 .. Len(t), t[i].index = t[j].index
          PROVE  i = j
      <4>1. cache[i - 1].index = cache[j - 1].index
        BY ONLY <1>8, <3>2
      <4>2. i - 1 = j - 1
        BY <1>8, <3>1, <4>1
      <4>3. QED
        BY ONLY <1>9, <4>2, <3>2
    <3>3. QED
      BY <3>2
  <2>2. \A i \in 2 .. Len(t) : t[i].index # read.index
    BY <1>8
  <2>3. QED
    BY <1>9, <2>1, <2>2
<1>11. Faithful(cache, file) => Faithful(t, file)
  BY <1>8, <1>9 DEF Faithful
<1>12. t # <<>>
  BY <1>2, <1>5, <1>7
<1>13. QED
  BY <1>7, <1>9, <1>10, <1>11, <1>12 DEF Kept, Serves

\* What has been read of what was asked, and all there is of it.
ShownSoFar(file, from, got) ==
    /\ got = <<>> \/ from + Len(got) <= Len(file)
    /\ \A i \in 1 .. Len(got) : got[i] = file[from + i]
Shown(file, from, len, got) ==
    IsCut(Nat, file, from, Artifact!Limit(from + len, Len(file)), got)

LEMMA LimitIs ==
    ASSUME NEW a \in Int, NEW b \in Int
    PROVE  \/ Artifact!Limit(a, b) = a /\ a < b
           \/ Artifact!Limit(a, b) = b /\ b <= a
BY DEF Artifact!Limit

\* A window holds a part of what is asked, from where the answer stands.
IsPart(at, end, index, held, bytes) ==
    /\ index \in Nat /\ index * 2 <= at /\ at <= index * 2 + 1
    /\ IsCut(Nat, held, at - index * 2, Artifact!Limit(Len(held), end - index * 2), bytes)

LEMMA PartIsCut ==
    ASSUME NEW at \in Nat, NEW end \in Nat, at < end, NEW held \in Seq(Nat),
           NEW index, index = at \div 2,
           NEW bytes, bytes = SubSeq(held, at - index * 2 + 1,
                                     Artifact!Limit(Len(held), end - index * 2))
    PROVE  IsPart(at, end, index, held, bytes)
<1>1. index \in Nat /\ index * 2 <= at /\ at <= index * 2 + 1
  OBVIOUS
<1> DEFINE m == at - index * 2
<1> DEFINE n == Artifact!Limit(Len(held), end - index * 2)
<1>2. m \in Nat
  BY ONLY <1>1, at \in Nat
<1>3. n \in Nat /\ n <= Len(held)
  <2>1. end - index * 2 \in Nat /\ Len(held) \in Nat
    BY <1>1
  <2>2. QED
    BY <2>1, LimitIs
<1>4. bytes = SubSeq(held, m + 1, n)
  BY Zenon
<1> HIDE DEF m, n
<1>5. IsCut(Nat, held, m, n, bytes)
  BY <1>2, <1>3, <1>4, Cut, Zenon
<1>6. QED
  BY <1>1, <1>5, Zenon DEF IsPart, n, m

\* A read goes on where it stood, and ends with all there is of what was asked.
Continues(file, from, len, got, index, held, bytes, more) ==
    /\ bytes \in Seq(Nat) /\ more \in Seq(Nat) /\ Len(more) <= len
    /\ Len(more) = Len(got) + Len(bytes)
    /\ (OfFile(held, file, index * 2) /\ ShownSoFar(file, from, got)) =>
         IF bytes = <<>> \/ Len(got) + Len(bytes) = len
         THEN Shown(file, from, len, more)
         ELSE ShownSoFar(file, from, more)

LEMMA PartIsShown ==
    ASSUME NEW file \in Seq(Nat), NEW from \in Nat, NEW len \in Nat, NEW got \in Seq(Nat),
           Len(got) < len, NEW index, NEW held \in Seq(Nat), NEW bytes,
           NEW at, at = from + Len(got), NEW end, end = from + len,
           IsPart(at, end, index, held, bytes),
           NEW more, more = got \o bytes
    PROVE  Continues(file, from, len, got, index, held, bytes, more)
<1>p. /\ index \in Nat /\ index * 2 <= from + Len(got) /\ from + Len(got) <= index * 2 + 1
      /\ IsCut(Nat, held, from + Len(got) - index * 2,
               Artifact!Limit(Len(held), from + len - index * 2), bytes)
  <2>1. /\ index \in Nat /\ index * 2 <= at /\ at <= index * 2 + 1
        /\ IsCut(Nat, held, at - index * 2, Artifact!Limit(Len(held), end - index * 2), bytes)
    BY Zenon DEF IsPart
  <2>2. QED
    BY <2>1
<1> DEFINE had == Len(got)
<1> DEFINE size == Len(file)
<1> DEFINE there == Len(held)
<1> DEFINE base == index * 2
<1> DEFINE m == from + had - base
<1> DEFINE n == Artifact!Limit(there, from + len - base)
<1> DEFINE new == Len(bytes)
<1>1. /\ had \in Nat /\ size \in Nat /\ there \in Nat /\ base \in Nat
      /\ had < len /\ base <= from + had /\ from + had <= base + 1
  BY <1>p
<1>2. IsCut(Nat, held, m, n, bytes)
  BY <1>p, Zenon
<1>3. \/ n = there /\ there < from + len - base
      \/ n = from + len - base /\ n <= there
  <2>1. there \in Int /\ from + len - base \in Int
    BY <1>1
  <2> HIDE DEF there, base
  <2>2. QED
    BY <2>1, LimitIs
<1> HIDE DEF n
<1>4. /\ bytes \in Seq(Nat) /\ new \in Nat /\ (m < n => new = n - m) /\ (m >= n => new = 0)
      /\ (new = 0 <=> bytes = <<>>)
      /\ \A i \in 1 .. n - m : bytes[i] = held[m + i]
  BY <1>2 DEF IsCut
<1>5. IsJoined(Nat, got, bytes, more)
  BY <1>4, Joined, Zenon
<1>6. /\ more \in Seq(Nat) /\ Len(more) = had + new
      /\ \A i \in 1 .. had : more[i] = got[i]
      /\ \A i \in 1 .. new : more[had + i] = bytes[i]
  BY <1>5 DEF IsJoined
<1>a. (new = 0 => more = got) /\ (had = 0 <=> got = <<>>)
  BY <1>4, ConcatEmptySeq
<1> HIDE DEF had, size, there, base, new
<1>n. from \in Nat /\ len \in Nat
  OBVIOUS
<1>7. n \in Int /\ m \in Nat /\ m = from + had - base
  BY ONLY <1>1, <1>3, <1>n DEF m
<1> HIDE DEF m
<1>c. new \in Nat /\ (m < n => new = n - m) /\ (m >= n => new = 0)
  BY <1>4
<1>8. had + new <= len
  BY ONLY <1>1, <1>3, <1>7, <1>c, <1>n
<1>9. ASSUME OfFile(held, file, base), ShownSoFar(file, from, got)
      PROVE  IF bytes = <<>> \/ had + new = len
             THEN Shown(file, from, len, more)
             ELSE ShownSoFar(file, from, more)
  <2>1. /\ base >= size => there = 0
        /\ base + 2 <= size => there = 2
        /\ (base < size /\ size < base + 2) => there = size - base
        /\ \A i \in 1 .. there : held[i] = file[base + i]
    BY <1>9 DEF OfFile, size, there
  <2>c. /\ base >= size => there = 0
        /\ base + 2 <= size => there = 2
        /\ (base < size /\ size < base + 2) => there = size - base
    BY <2>1
  <2>2. (had = 0 \/ from + had <= size) /\ \A i \in 1 .. had : got[i] = file[from + i]
    BY <1>9, <1>a DEF ShownSoFar, had, size
  <2>3. \A i \in 1 .. had + new : more[i] = file[from + i]
    <3> SUFFICES ASSUME NEW i \in 1 .. had + new PROVE more[i] = file[from + i]
      OBVIOUS
    <3>1. CASE i <= had
      <4>1. i \in 1 .. had
        BY <1>1, <1>4, <3>1
      <4>2. QED
        BY <1>6, <2>2, <4>1
    <3>2. CASE i > had
      <4>1. /\ i - had \in 1 .. new /\ had + (i - had) = i /\ i - had \in 1 .. n - m
            /\ m + (i - had) \in 1 .. there /\ base + (m + (i - had)) = from + i
        <5>1. i \in 1 .. had + new
          OBVIOUS
        <5>2. QED
          BY ONLY <1>1, <1>3, <1>7, <1>c, <1>n, <3>2, <5>1
      <4>2. more[i] = bytes[i - had] /\ bytes[i - had] = held[m + (i - had)]
            /\ held[m + (i - had)] = file[from + i]
        BY <1>4, <1>6, <2>1, <4>1
      <4>3. QED
        BY <4>2
    <3>3. i <= had \/ i > had
      BY <1>1, <1>c
    <3>4. QED
      BY ONLY <3>1, <3>2, <3>3
  <2>d. had = 0 \/ from + had <= size
    BY <2>2
  <2>4. new = 0 => (from + had >= size /\ (had = 0 \/ from + had = size))
    BY ONLY <1>1, <1>3, <1>7, <1>c, <1>n, <2>c, <2>d
  <2>5. new # 0 => from + had + new <= size
    BY ONLY <1>1, <1>3, <1>7, <1>c, <1>n, <2>c
  <2>6. CASE new = 0
    <3>1. Artifact!Limit(from + len, size) = size
      <4>1. ~ (from + len < size)
        BY ONLY <1>1, <1>n, <2>4, <2>6
      <4>2. QED
        BY <4>1 DEF Artifact!Limit
    <3>2. /\ from < size => had = size - from
          /\ from >= size => had = 0
      BY ONLY <1>1, <1>n, <2>4, <2>6
    <3>3. /\ more = got /\ more \in Seq(Nat) /\ Len(more) = had
          /\ (had = 0 => more = <<>>)
          /\ \A i \in 1 .. had : more[i] = file[from + i]
      BY <1>6, <1>a, <2>2, <2>6 DEF had
    <3>4. \A i \in 1 .. size - from : i \in 1 .. had
      BY ONLY <1>1, <1>n, <3>2
    <3>5. IsCut(Nat, file, from, size, more)
      BY ONLY <3>2, <3>3, <3>4 DEF IsCut
    <3>6. QED
      BY <1>4, <2>6, <3>1, <3>5 DEF Shown, size
  <2>7. CASE new # 0 /\ had + new = len
    <3>1. Artifact!Limit(from + len, size) = from + len
      <4>1. from + len < size \/ from + len = size
        BY ONLY <1>1, <1>c, <1>n, <2>5, <2>7
      <4>2. QED
        BY <4>1 DEF Artifact!Limit
    <3>2. /\ from < from + len /\ had + new = from + len - from
          /\ \A i \in 1 .. from + len - from : i \in 1 .. had + new
      BY ONLY <1>1, <1>c, <1>n, <2>7
    <3>3. ~ (from >= from + len)
      BY ONLY <1>n, <3>2
    <3>4. IsCut(Nat, file, from, from + len, more)
      BY ONLY <1>6, <2>3, <3>2, <3>3 DEF IsCut
    <3>5. QED
      BY <2>7, <3>1, <3>4 DEF Shown, size
  <2>8. CASE new # 0 /\ had + new # len
    <3>1. from + Len(more) <= Len(file)
      <4>1. from + (had + new) <= size
        BY ONLY <1>1, <1>c, <1>n, <2>5, <2>8
      <4>2. QED
        BY <1>6, <4>1 DEF size
    <3>2. ShownSoFar(file, from, more)
      BY <1>6, <2>3, <3>1 DEF ShownSoFar
    <3>3. QED
      BY <1>4, <2>8, <3>2
  <2>9. QED
    BY <2>6, <2>7, <2>8
<1>10. QED
  BY <1>4, <1>6, <1>8, <1>9 DEF Continues, had, new, base

\* Two cuts of a sequence between the same places are one.
LEMMA CutIsOne ==
    ASSUME NEW S, NEW s \in Seq(S), NEW m \in Nat, NEW n \in Nat, n <= Len(s),
           NEW t, IsCut(S, s, m, n, t)
    PROVE  t = SubSeq(s, m + 1, n)
<1> DEFINE u == SubSeq(s, m + 1, n)
<1>1. IsCut(S, s, m, n, u)
  BY Cut, Zenon
<1> HIDE DEF u
<1>2. t \in Seq(S) /\ u \in Seq(S) /\ Len(t) = Len(u)
  BY <1>1 DEF IsCut
<1>3. \A i \in 1 .. Len(t) : t[i] = u[i]
  BY <1>1 DEF IsCut
<1>4. t = u
  BY <1>2, <1>3, SeqEqual
<1>5. QED
  BY <1>4 DEF u

HexNames == {"kind", "file", "changes", "cache", "known", "ask", "got", "moved", "pc"}
HexFields ==
    /\ job = [name \in HexNames |-> job[name]]
    /\ job.kind = "hex"
    /\ job.file \in Seq(Nat)
    /\ job.changes \in Nat
    /\ Kept(job.cache)
    /\ job.got \in Seq(Nat)
    /\ job.moved \in BOOLEAN
    /\ job.pc \in {"idle", "reading", "answered"}
    /\ job.pc # "idle" => job.ask.from \in Nat /\ job.ask.len \in Nat
    /\ job.pc = "reading" => Len(job.got) < job.ask.len
HexInv ==
    /\ HexFields
    /\ ~job.moved =>
        /\ Faithful(job.cache, job.file)
        /\ job.pc = "reading" => ShownSoFar(job.file, job.ask.from, job.got)
        /\ job.pc = "answered" => Shown(job.file, job.ask.from, job.ask.len, job.got)

LEMMA HexStarts ==
    ASSUME NEW size \in 0 .. 3, job = Artifact!Reader(size) PROVE HexInv
<1>1. /\ job.kind = "hex" /\ job.file = [i \in 1 .. size |-> 0] /\ job.changes = 0
      /\ job.cache = <<>> /\ job.got = <<>> /\ job.moved = FALSE /\ job.pc = "idle"
      /\ job = [name \in HexNames |-> job[name]]
  BY DEF Artifact!Reader, HexNames
<1>2. [i \in 1 .. size |-> 0] \in Seq(Nat)
  OBVIOUS
<1>3. Kept(<<>>) /\ \A file : Faithful(<<>>, file)
  BY WindowsAreKept DEF Kept, Faithful
<1>4. /\ job.file \in Seq(Nat) /\ job.changes \in Nat /\ Kept(job.cache) /\ job.got \in Seq(Nat)
      /\ Faithful(job.cache, job.file)
  BY <1>1, <1>2, <1>3
<1>5. HexFields
  BY ONLY <1>1, <1>4 DEF HexFields
<1>6. QED
  BY ONLY <1>1, <1>4, <1>5 DEF HexInv

\* The window a read needs comes first: from the cache, or from the disk.
LEMMA WindowIsKept ==
    ASSUME HexFields, NEW index \in Nat
    PROVE  Serves(job.cache, job.file, Artifact!window(index), index)
<1> DEFINE cache == Artifact!window(index)
<1>k. Kept(job.cache) /\ job.file \in Seq(Nat)
  BY DEF HexFields
<1>1. CASE Artifact!Cached(index) # {}
  <2>1. PICK k \in Artifact!Cached(index) :
            cache = <<job.cache[k]>> \o Artifact!RemoveAt(job.cache, k)
    BY <1>1 DEF Artifact!window
  <2>2. k \in 1 .. Len(job.cache) /\ job.cache[k].index = index
    BY DEF Artifact!Cached
  <2> HIDE DEF cache
  <2>3. Serves(job.cache, job.file, cache, job.cache[k].index)
    BY <1>k, <2>1, <2>2, FoundIsKept, Zenon
  <2>4. QED
    BY <2>2, <2>3 DEF cache
<1>2. CASE Artifact!Cached(index) = {}
  <2> DEFINE read == [index |-> index, bytes |-> Artifact!OnDisk(index)]
  <2>1. OfFile(read.bytes, job.file, index * 2)
    BY <1>k, ReadIsOfFile DEF Artifact!OnDisk, Artifact!WindowSize
  <2>2. read \in HexWindow /\ read.index = index
    BY <2>1 DEF HexWindow, OfFile
  <2>3. \A i \in 1 .. Len(job.cache) : job.cache[i].index # read.index
    BY <1>2, <2>2 DEF Artifact!Cached
  <2>4. cache = Artifact!trim(<<read>> \o job.cache)
    BY <1>2 DEF Artifact!window
  <2>5. OfFile(read.bytes, job.file, read.index * 2)
    BY <2>1, <2>2
  <2> HIDE DEF read, cache
  <2>6. Serves(job.cache, job.file, cache, read.index)
    BY <1>k, <2>2, <2>3, <2>4, <2>5, ReadIsKept, Zenon
  <2>7. QED
    BY <2>2, <2>6 DEF cache
<1>3. QED
  BY <1>1, <1>2

LEMMA HexReads ==
    ASSUME HexInv, Artifact!ReadWindow PROVE HexInv'
<1> DEFINE from == job.ask.from
<1> DEFINE len == job.ask.len
<1> DEFINE at == from + Len(job.got)
<1> DEFINE index == at \div 2
<1> DEFINE cache == Artifact!window(index)
<1> DEFINE held == cache[1].bytes
<1> DEFINE bytes == SubSeq(held, at - index * 2 + 1,
                           Artifact!Limit(Len(held), from + len - index * 2))
<1> DEFINE more == job.got \o bytes
<1>1. /\ job' = [job EXCEPT !.cache = cache, !.got = more,
                    !.pc = IF bytes = <<>> \/ Len(job.got) + Len(bytes) = len
                           THEN "answered" ELSE "reading"]
      /\ job.pc = "reading"
  BY DEF Artifact!ReadWindow, Artifact!WindowSize
<1>2. /\ from \in Nat /\ len \in Nat /\ job.got \in Seq(Nat) /\ Len(job.got) < len
      /\ job.file \in Seq(Nat) /\ HexFields /\ Kept(job.cache)
  BY <1>1 DEF HexInv, HexFields
<1> HIDE DEF from, len
<1>3. /\ at \in Nat /\ from + len \in Nat /\ at < from + len
  BY <1>2
<1>d. at = from + Len(job.got)
  OBVIOUS
<1> HIDE DEF at
<1>i. index \in Nat
  BY <1>3
<1>4. Serves(job.cache, job.file, cache, index)
  BY <1>2, <1>i, WindowIsKept
<1>h. held = cache[1].bytes
  OBVIOUS
<1> HIDE DEF cache, held
<1>5. Kept(cache) /\ held \in Seq(Nat) /\ (Faithful(job.cache, job.file) => OfFile(held, job.file, index * 2))
  <2>1. Kept(cache) /\ cache # <<>> /\ cache[1].index = index
    BY <1>4 DEF Serves
  <2>2. 1 \in 1 .. Len(cache) /\ cache[1] \in HexWindow
    BY <2>1 DEF Kept
  <2>3. held \in Seq(Nat)
    BY <1>h, <2>2 DEF HexWindow
  <2>4. Faithful(job.cache, job.file) => Faithful(cache, job.file)
    BY <1>4 DEF Serves
  <2>5. Faithful(cache, job.file) => OfFile(cache[1].bytes, job.file, cache[1].index * 2)
    BY <2>2 DEF Faithful
  <2>6. QED
    BY <1>h, <2>1, <2>3, <2>4, <2>5
<1>e. index = at \div 2
      /\ bytes = SubSeq(held, at - index * 2 + 1, Artifact!Limit(Len(held), from + len - index * 2))
      /\ more = job.got \o bytes
  OBVIOUS
<1> HIDE DEF index, bytes, more
<1> DEFINE last == from + len
<1>l. last \in Nat /\ at < last /\ last = from + len
  BY <1>3
<1>b. bytes = SubSeq(held, at - index * 2 + 1, Artifact!Limit(Len(held), last - index * 2))
  <2>1. from + len - index * 2 = last - index * 2
    <3>1. index \in Nat
      BY <1>i DEF index
    <3>2. QED
      BY <1>2, <3>1
  <2> HIDE DEF last
  <2>2. QED
    BY <1>e, <2>1
<1> HIDE DEF last
<1>6. IsPart(at, last, index, held, bytes)
  BY <1>3, <1>5, <1>b, <1>e, <1>l, PartIsCut, Zenon
<1>c. Continues(job.file, from, len, job.got, index, held, bytes, more)
  BY <1>2, <1>5, <1>6, <1>d, <1>e, <1>l, PartIsShown, Zenon
<1>7. /\ bytes \in Seq(Nat) /\ more \in Seq(Nat) /\ Len(more) <= len
      /\ Len(more) = Len(job.got) + Len(bytes)
      /\ (OfFile(held, job.file, index * 2) /\ ShownSoFar(job.file, from, job.got)) =>
           IF bytes = <<>> \/ Len(job.got) + Len(bytes) = len
           THEN Shown(job.file, from, len, more)
           ELSE ShownSoFar(job.file, from, more)
  BY <1>c, Zenon DEF Continues
<1> DEFINE end == bytes = <<>> \/ Len(job.got) + Len(bytes) = len
<1>8. /\ job' = [name \in HexNames |-> job'[name]]
      /\ job'.kind = job.kind /\ job'.file = job.file /\ job'.changes = job.changes
      /\ job'.moved = job.moved /\ job'.ask = job.ask /\ job'.cache = cache /\ job'.got = more
      /\ job'.pc = IF end THEN "answered" ELSE "reading"
  BY <1>1, <1>2 DEF HexFields, HexNames
<1>9. end \in BOOLEAN
  OBVIOUS
<1>10. ~end => Len(more) < len
  <2>1. ~end => Len(more) # len
    BY <1>7
  <2>2. Len(more) \in Nat /\ Len(more) <= len /\ len \in Nat
    BY <1>2, <1>7
  <2>3. QED
    BY <2>1, <2>2
<1> HIDE DEF end
<1>11. HexFields'
  <2>1. /\ job.kind = "hex" /\ job.changes \in Nat /\ job.moved \in BOOLEAN
        /\ job.ask.from \in Nat /\ job.ask.len \in Nat
    BY <1>2, <1>1 DEF HexFields
  <2>2. job'.pc \in {"idle", "reading", "answered"} /\ (job'.pc = "reading" => ~end)
    BY <1>8
  <2>3. job'.pc = "reading" => Len(job'.got) < job'.ask.len
    BY <1>8, <1>10, <2>2 DEF len
  <2>4. QED
    BY ONLY <1>2, <1>5, <1>7, <1>8, <2>1, <2>2, <2>3 DEF HexFields
<1>12. ASSUME ~job'.moved
       PROVE  /\ Faithful(job'.cache, job'.file)
              /\ job'.pc = "reading" => ShownSoFar(job'.file, job'.ask.from, job'.got)
              /\ job'.pc = "answered" => Shown(job'.file, job'.ask.from, job'.ask.len, job'.got)
  <2>1. Faithful(job.cache, job.file) /\ ShownSoFar(job.file, from, job.got)
    BY <1>1, <1>8, <1>12 DEF HexInv, from
  <2>2. Faithful(cache, job.file) /\ OfFile(held, job.file, index * 2)
    BY <1>4, <1>5, <2>1 DEF Serves
  <2>3. IF end THEN Shown(job.file, from, len, more) ELSE ShownSoFar(job.file, from, more)
    BY <1>7, <2>1, <2>2 DEF end
  <2>4. CASE end
    BY <1>8, <2>2, <2>3, <2>4 DEF from, len
  <2>5. CASE ~end
    BY <1>8, <2>2, <2>3, <2>5 DEF from, len
  <2>6. QED
    BY <1>9, <2>4, <2>5
<1>13. QED
  BY <1>11, <1>12 DEF HexInv

\* The steps that keep the cache.
LEMMA HexStays ==
    ASSUME HexInv, Artifact!Ask \/ Artifact!Answered \/ Artifact!clear_cache \/ Artifact!refresh_len
    PROVE  HexInv'
<1>1. HexFields
  BY DEF HexInv
<1>2. CASE Artifact!Ask
  <2>1. PICK from \in 0 .. Top - 1, len \in 1 .. 3 :
          job' = [job EXCEPT !.ask = [from |-> from, len |-> len], !.got = <<>>, !.pc = "reading"]
    BY <1>2 DEF Artifact!Ask
  <2>2. from \in Nat /\ len \in Nat /\ 0 < len /\ <<>> \in Seq(Nat) /\ Len(<<>>) = 0
    BY AddressesAreBounded
  <2>3. /\ job' = [name \in HexNames |-> job'[name]]
        /\ job'.kind = job.kind /\ job'.file = job.file /\ job'.changes = job.changes
        /\ job'.moved = job.moved /\ job'.cache = job.cache
        /\ job'.ask.from = from /\ job'.ask.len = len /\ job'.got = <<>> /\ job'.pc = "reading"
    BY <1>1, <2>1 DEF HexFields, HexNames
  <2>4. HexFields'
    BY <1>1, <2>2, <2>3 DEF HexFields
  <2>5. ShownSoFar(job'.file, from, <<>>)
    BY <2>2 DEF ShownSoFar
  <2>6. QED
    BY <2>3, <2>4, <2>5 DEF HexInv
<1>3. CASE Artifact!Answered
  <2>1. /\ job' = [name \in HexNames |-> job'[name]]
        /\ job'.kind = job.kind /\ job'.file = job.file /\ job'.changes = job.changes
        /\ job'.moved = job.moved /\ job'.cache = job.cache
        /\ job'.got = <<>> /\ job'.pc = "idle"
    BY <1>1, <1>3 DEF Artifact!Answered, HexFields, HexNames
  <2>2. <<>> \in Seq(Nat)
    OBVIOUS
  <2>3. HexFields'
    BY <1>1, <2>1, <2>2 DEF HexFields
  <2>4. QED
    BY <2>1, <2>3 DEF HexInv
<1>4. CASE Artifact!clear_cache
  <2>1. /\ job' = [name \in HexNames |-> job'[name]]
        /\ job'.kind = job.kind /\ job'.file = job.file /\ job'.changes = job.changes
        /\ job'.moved = FALSE /\ job'.cache = <<>> /\ job'.got = job.got /\ job'.pc = "idle"
    BY <1>1, <1>4 DEF Artifact!clear_cache, HexFields, HexNames
  <2>2. Kept(<<>>) /\ \A file : Faithful(<<>>, file)
    BY WindowsAreKept DEF Kept, Faithful
  <2>3. HexFields'
    BY <1>1, <2>1, <2>2 DEF HexFields
  <2>4. QED
    BY <2>1, <2>2, <2>3 DEF HexInv
<1>5. CASE Artifact!refresh_len
  <2>1. /\ job' = [name \in HexNames |-> job'[name]]
        /\ job'.kind = job.kind /\ job'.file = job.file /\ job'.changes = job.changes
        /\ job'.moved = job.moved /\ job'.cache = job.cache /\ job'.got = job.got
        /\ job'.pc = "idle"
    BY <1>1, <1>5 DEF Artifact!refresh_len, HexFields, HexNames
  <2>2. HexFields'
    BY <1>1, <2>1 DEF HexFields
  <2>3. QED
    BY <2>1, <2>2 DEF HexInv
<1>6. QED
  BY <1>2, <1>3, <1>4, <1>5

\* The file changes: what is cached or read may be of before.
LEMMA FileMoves ==
    ASSUME HexInv, Artifact!FileChanges PROVE HexInv'
<1>1. HexFields
  BY DEF HexInv
<1>2. PICK file \in {Append(job.file, job.changes + 1)}
                    \cup {Artifact!Front(job.file) : k \in 1 .. Artifact!Limit(1, Len(job.file))}
                    \cup {[job.file EXCEPT ![k] = job.changes + 1] : k \in DOMAIN job.file} :
        job' = [job EXCEPT !.file = file, !.changes = @ + 1, !.moved = TRUE]
  BY DEF Artifact!FileChanges
<1>3. job.file \in Seq(Nat) /\ job.changes \in Nat
  BY <1>1 DEF HexFields
<1>4. file \in Seq(Nat)
  <2>1. CASE file = Append(job.file, job.changes + 1)
    BY <1>3, <2>1
  <2>2. ASSUME NEW k \in 1 .. Artifact!Limit(1, Len(job.file)), file = Artifact!Front(job.file)
        PROVE  file \in Seq(Nat)
    <3>1. /\ file = SubSeq(job.file, 0 + 1, Len(job.file) - 1)
          /\ Len(job.file) - 1 \in Nat /\ Len(job.file) - 1 <= Len(job.file) /\ 0 \in Nat
      <4>1. 1 <= Len(job.file)
        BY <1>3, <2>2 DEF Artifact!Limit
      <4>2. QED
        BY <1>3, <2>2, <4>1 DEF Artifact!Front
    <3>2. IsCut(Nat, job.file, 0, Len(job.file) - 1, file)
      BY <1>3, <3>1, Cut, Zenon
    <3>3. QED
      BY <3>2 DEF IsCut
  <2>3. ASSUME NEW k \in DOMAIN job.file, file = [job.file EXCEPT ![k] = job.changes + 1]
        PROVE  file \in Seq(Nat)
    BY <1>3, <2>3
  <2>4. QED
    BY <2>1, <2>2, <2>3
<1>5. /\ job' = [name \in HexNames |-> job'[name]]
      /\ job'.kind = job.kind /\ job'.file = file /\ job'.changes = job.changes + 1
      /\ job'.moved = TRUE /\ job'.cache = job.cache /\ job'.got = job.got /\ job'.pc = job.pc
      /\ job'.ask = job.ask
  BY <1>1, <1>2 DEF HexFields, HexNames
<1>6. HexFields'
  <2>1. job'.changes \in Nat /\ job'.moved \in BOOLEAN
    <3>1. job.changes + 1 \in Nat /\ TRUE \in BOOLEAN
      BY <1>3
    <3>2. QED
      BY ONLY <1>5, <3>1
  <2>2. QED
    BY ONLY <1>1, <1>4, <1>5, <2>1 DEF HexFields
<1>7. QED
  BY <1>5, <1>6 DEF HexInv

LEMMA HexKeeps ==
    ASSUME HexInv, [Artifact!Next]_job PROVE HexInv'
<1>1. job.kind = "hex"
  BY DEF HexInv, HexFields
<1>2. CASE UNCHANGED job
  BY <1>2 DEF HexInv, HexFields
<1>3. CASE Artifact!Next
  <2>1. \/ Artifact!Ask \/ Artifact!Answered \/ Artifact!clear_cache \/ Artifact!refresh_len
        \/ Artifact!ReadWindow \/ Artifact!FileChanges
    BY <1>1, <1>3 DEF Artifact!Next, Artifact!BuildSegments, Artifact!WalkFrame,
       Artifact!coarse_location, Artifact!Rebuild, Artifact!open, Artifact!set_syntax,
       Artifact!disassemble_with_source, Artifact!disassemble, Artifact!sections,
       Artifact!source_line_for_address
  <2>2. QED
    BY <2>1, HexStays, HexReads, FileMoves
<1>4. QED
  BY <1>2, <1>3

LEMMA HexShows == HexInv => Artifact!HexIsTheFile
<1> SUFFICES ASSUME HexInv PROVE Artifact!HexIsTheFile
  OBVIOUS
<1>1. HexFields /\ Kept(job.cache)
  BY DEF HexInv, HexFields
<1>2. Artifact!IsInjective([k \in 1 .. Len(job.cache) |-> job.cache[k].index])
  BY <1>1 DEF Kept, Artifact!IsInjective
<1>3. ASSUME job.pc = "answered", ~job.moved
      PROVE  job.got = SubSeq(job.file, job.ask.from + 1,
                              Artifact!Limit(job.ask.from + job.ask.len, Len(job.file)))
  <2> DEFINE from == job.ask.from
  <2> DEFINE last == Artifact!Limit(from + job.ask.len, Len(job.file))
  <2>1. from \in Nat /\ job.ask.len \in Nat /\ job.file \in Seq(Nat)
    BY <1>1, <1>3 DEF HexFields
  <2>2. last \in Nat /\ last <= Len(job.file)
    <3>1. from + job.ask.len \in Nat /\ Len(job.file) \in Nat
      BY <2>1
    <3>2. QED
      BY <3>1, LimitIs
  <2>3. IsCut(Nat, job.file, from, last, job.got)
    BY <1>3 DEF HexInv, Shown
  <2> HIDE DEF from, last
  <2>4. job.got = SubSeq(job.file, from + 1, last)
    BY <2>1, <2>2, <2>3, CutIsOne, Zenon
  <2>5. QED
    BY <2>4 DEF from, last
<1>4. QED
  BY <1>1, <1>2, <1>3 DEF Artifact!HexIsTheFile, Kept

-----------------------------------------------------------------------------
(* The parts of a build that is read. *)

\* Each part is of no build before the one that is open.
FromOpened(build) == build \in Nat /\ job.opened <= build
ArtifactNames ==
    {"kind", "disk", "opened", "header", "lines", "tables", "rows", "answer"}
BuildInv ==
    /\ job = [name \in ArtifactNames |-> job[name]]
    /\ job.kind = "artifact"
    /\ job.opened \in Nat
    /\ FromOpened(job.disk) /\ FromOpened(job.header)
    /\ job.lines = 0 \/ FromOpened(job.lines)
    /\ job.tables = 0 \/ FromOpened(job.tables)
    /\ job.rows = 0 \/ FromOpened(job.rows)
    /\ \A build \in job.answer : FromOpened(build)

LEMMA BuildStarts == ASSUME job = Artifact!Opened(1) PROVE BuildInv
<1>1. /\ job.kind = "artifact" /\ job.disk = 1 /\ job.opened = 1 /\ job.header = 1
      /\ job.lines = 0 /\ job.tables = 0 /\ job.rows = 0 /\ job.answer = {}
      /\ job = [name \in ArtifactNames |-> job[name]]
  BY DEF Artifact!Opened, ArtifactNames
<1>2. QED
  BY ONLY <1>1 DEF BuildInv, FromOpened

LEMMA BuildKeeps ==
    ASSUME BuildInv, [Artifact!Next]_job PROVE BuildInv'
<1>1. job.kind = "artifact" /\ job = [name \in ArtifactNames |-> job[name]]
  BY DEF BuildInv
<1>2. CASE UNCHANGED job
  BY <1>2 DEF BuildInv, FromOpened
<1>l. \A part : part = 0 \/ FromOpened(part) => FromOpened(Artifact!load(part))
  BY DEF BuildInv, Artifact!load
<1>3. CASE Artifact!Rebuild
  <2>1. job' = [job EXCEPT !.disk = @ + 1]
    BY <1>3 DEF Artifact!Rebuild
  <2>2. /\ job' = [name \in ArtifactNames |-> job'[name]]
        /\ job'.kind = job.kind /\ job'.disk = job.disk + 1 /\ job'.opened = job.opened
        /\ job'.header = job.header /\ job'.lines = job.lines /\ job'.tables = job.tables
        /\ job'.rows = job.rows /\ job'.answer = job.answer
    BY <1>1, <2>1 DEF ArtifactNames
  <2>3. job.disk + 1 \in Nat /\ job.opened <= job.disk + 1
    BY DEF BuildInv, FromOpened
  <2>4. QED
    BY <2>2, <2>3 DEF BuildInv, FromOpened
<1>4. CASE Artifact!open
  <2>1. /\ job' = [name \in ArtifactNames |-> job'[name]]
        /\ job'.kind = job.kind /\ job'.disk = job.disk /\ job'.opened = job.disk
        /\ job'.header = job.disk /\ job'.lines = 0 /\ job'.tables = 0
        /\ job'.rows = 0 /\ job'.answer = {}
    BY <1>1, <1>4 DEF ArtifactNames, Artifact!open, Artifact!read_header, Artifact!ForgetLines
  <2>2. QED
    BY <2>1 DEF BuildInv, FromOpened
<1>5. CASE Artifact!set_syntax
  <2>1. /\ job' = [name \in ArtifactNames |-> job'[name]]
        /\ job'.kind = job.kind /\ job'.disk = job.disk /\ job'.opened = job.opened
        /\ job'.header = job.header /\ job'.lines = job.lines /\ job'.tables = 0
        /\ job'.rows = 0 /\ job'.answer = {}
    BY <1>1, <1>5 DEF ArtifactNames, Artifact!set_syntax
  <2>2. QED
    BY <2>1 DEF BuildInv, FromOpened
<1>6. CASE Artifact!disassemble_with_source
  <2>1. FromOpened(Artifact!load(job.tables)) /\ FromOpened(Artifact!load(job.rows)) /\ FromOpened(job.disk)
    BY <1>l DEF BuildInv
  <2>2. /\ job' = [name \in ArtifactNames |-> job'[name]]
        /\ job'.kind = job.kind /\ job'.disk = job.disk /\ job'.opened = job.opened
        /\ job'.header = job.header /\ job'.lines = job.lines
        /\ job'.tables = Artifact!load(job.tables) /\ job'.rows = Artifact!load(job.rows)
        /\ job'.answer = {Artifact!load(job.tables), job.disk, Artifact!load(job.rows)}
    BY <1>1, <1>6 DEF ArtifactNames, Artifact!disassemble_with_source, Artifact!disassembler_mut,
       Artifact!decode
  <2>3. \A build \in job'.answer : FromOpened(build)
    BY ONLY <2>1, <2>2
  <2>4. QED
    BY ONLY BuildInv, <2>1, <2>2, <2>3 DEF BuildInv, FromOpened
<1>7. CASE \/ Artifact!disassemble \/ Artifact!sections
  <2>1. /\ job' = [name \in ArtifactNames |-> job'[name]]
        /\ job'.kind = job.kind /\ job'.disk = job.disk /\ job'.opened = job.opened
        /\ job'.header = job.header /\ job'.lines = job.lines /\ job'.tables = job.tables
        /\ job'.rows = job.rows /\ job'.answer = {job.disk}
    BY <1>1, <1>7 DEF ArtifactNames, Artifact!disassemble, Artifact!sections,
       Artifact!read_symbols, Artifact!decode, Artifact!read_sections
  <2>2. QED
    BY <2>1 DEF BuildInv, FromOpened
<1>8. CASE Artifact!source_line_for_address
  <2>1. FromOpened(Artifact!load(job.lines))
    BY <1>l DEF BuildInv
  <2>2. /\ job' = [name \in ArtifactNames |-> job'[name]]
        /\ job'.kind = job.kind /\ job'.disk = job.disk /\ job'.opened = job.opened
        /\ job'.header = job.header /\ job'.lines = Artifact!load(job.lines)
        /\ job'.tables = job.tables /\ job'.rows = job.rows
        /\ job'.answer = {Artifact!load(job.lines)}
    BY <1>1, <1>8 DEF ArtifactNames, Artifact!source_line_for_address
  <2>3. QED
    BY ONLY BuildInv, <2>1, <2>2 DEF BuildInv, FromOpened
<1>9. CASE Artifact!Next
  <2>1. \/ Artifact!Rebuild \/ Artifact!open \/ Artifact!set_syntax
        \/ Artifact!disassemble_with_source \/ Artifact!disassemble \/ Artifact!sections
        \/ Artifact!source_line_for_address
    BY <1>1, <1>9 DEF Artifact!Next, Artifact!BuildSegments, Artifact!WalkFrame,
       Artifact!coarse_location, Artifact!Ask, Artifact!ReadWindow, Artifact!Answered,
       Artifact!clear_cache, Artifact!refresh_len, Artifact!FileChanges
  <2>2. QED
    BY <2>1, <1>3, <1>4, <1>5, <1>6, <1>7, <1>8
<1>10. QED
  BY <1>2, <1>9

LEMMA BuildForgets == BuildInv => Artifact!ReopenForgets
BY DEF BuildInv, FromOpened, Artifact!ReopenForgets

-----------------------------------------------------------------------------
(* The tables of the lines. *)

\* The addresses of a set, one after another.
Ascends(s, set) ==
    /\ s \in [1 .. Cardinality(set) -> set]
    /\ \A i, j \in DOMAIN s : i < j => s[i] < s[j]

LEMMA OrderIsThere ==
    ASSUME NEW n \in Nat, NEW set \in SUBSET (0 .. n - 1)
    PROVE  \E s : Ascends(s, set)
<1> DEFINE S == {m \in 0 .. n : \A part \in SUBSET (0 .. m - 1) : \E s : Ascends(s, part)}
<1>1. 0 \in S
  <2> SUFFICES ASSUME NEW part \in SUBSET (0 .. 0 - 1) PROVE \E s : Ascends(s, part)
    OBVIOUS
  <2>1. part = {} /\ Cardinality({}) = 0
    BY FS_EmptySet
  <2>2. Ascends(<<>>, {})
    BY <2>1 DEF Ascends
  <2>3. QED
    BY <2>1, <2>2
<1>2. ASSUME NEW m \in 0 .. n - 1, m \in S PROVE m + 1 \in S
  <2> SUFFICES ASSUME NEW part \in SUBSET (0 .. (m + 1) - 1) PROVE \E s : Ascends(s, part)
    OBVIOUS
  <2>1. CASE m \notin part
    <3>1. part \in SUBSET (0 .. m - 1)
      BY <2>1
    <3>2. QED
      BY <1>2, <3>1
  <2>2. CASE m \in part
    <3> DEFINE rest == part \ {m}
    <3>1. rest \in SUBSET (0 .. m - 1)
      OBVIOUS
    <3>2. PICK s : Ascends(s, rest)
      BY <1>2, <3>1
    <3> DEFINE k == Cardinality(rest)
    <3>3. IsFiniteSet(rest) /\ k \in Nat /\ m \notin rest /\ part = rest \cup {m}
      <4>1. 0 \in Int /\ m - 1 \in Int
        OBVIOUS
      <4>2. IsFiniteSet(0 .. m - 1)
        BY <4>1, FS_Interval
      <4>3. IsFiniteSet(rest)
        BY <3>1, <4>2, FS_Subset
      <4>4. k \in Nat
        BY <4>3, FS_CardinalityType
      <4>5. QED
        BY <2>2, <4>3, <4>4
    <3>r. \A x \in rest : x < m /\ x \in part
      BY <3>1
    <3> HIDE DEF rest
    <3>4. Cardinality(part) = k + 1
      BY <3>3, FS_AddElement
    <3> HIDE DEF k
    <3> DEFINE t == [i \in 1 .. k + 1 |-> IF i = k + 1 THEN m ELSE s[i]]
    <3>5. s \in [1 .. k -> rest] /\ \A i, j \in 1 .. k : i < j => s[i] < s[j]
      BY <3>2 DEF Ascends, k
    <3>6. t \in [1 .. k + 1 -> part]
      BY <2>2, <3>3, <3>5, <3>r
    <3>7. ASSUME NEW i \in 1 .. k + 1, NEW j \in 1 .. k + 1, i < j PROVE t[i] < t[j]
      <4>1. i \in 1 .. k /\ t[i] = s[i]
        BY <3>3, <3>7
      <4>2. CASE j = k + 1
        <5>1. t[j] = m /\ s[i] \in rest
          BY <3>5, <4>1, <4>2
        <5>2. QED
          BY <3>r, <4>1, <5>1
      <4>3. CASE j # k + 1
        <5>1. j \in 1 .. k /\ t[j] = s[j]
          BY <3>3, <4>3
        <5>2. QED
          BY <3>5, <3>7, <4>1, <5>1
      <4>4. QED
        BY <4>2, <4>3
    <3> HIDE DEF t
    <3>8. Ascends(t, part)
      BY <3>4, <3>6, <3>7 DEF Ascends
    <3>9. QED
      BY <3>8
  <2>3. QED
    BY <2>1, <2>2
<1> HIDE DEF S
<1>3. \A k \in 0 .. n - 1 : k \in S => k + 1 \in S
  BY <1>2
<1>4. n \in S
  BY <1>1, <1>3, Induction
<1>5. QED
  BY <1>4 DEF S

\* It holds every one of them.
IsFull(s, set) ==
    /\ Cardinality(set) \in Nat
    /\ \A x \in set : \E i \in 1 .. Cardinality(set) : s[i] = x

LEMMA OrderIsFull ==
    ASSUME NEW n \in Nat, NEW set \in SUBSET (0 .. n - 1), NEW s, Ascends(s, set)
    PROVE  IsFull(s, set)
<1> DEFINE k == Cardinality(set)
<1>1. IsFiniteSet(set) /\ k \in Nat
  <2>1. 0 \in Int /\ n - 1 \in Int
    OBVIOUS
  <2>2. IsFiniteSet(0 .. n - 1)
    BY <2>1, FS_Interval
  <2>3. IsFiniteSet(set)
    BY <2>2, FS_Subset
  <2>4. QED
    BY <2>3, FS_CardinalityType
<1>2. IsFiniteSet(1 .. k) /\ Cardinality(1 .. k) = k
  <2>1. 1 \in Int /\ k \in Int /\ ~ (1 > k + 1)
    BY <1>1
  <2> HIDE DEF k
  <2>2. IsFiniteSet(1 .. k) /\ Cardinality(1 .. k) = IF 1 > k THEN 0 ELSE k - 1 + 1
    BY <2>1, FS_Interval
  <2>3. QED
    BY <1>1, <2>2
<1> HIDE DEF k
<1>3. s \in [1 .. k -> set] /\ \A i, j \in 1 .. k : i < j => s[i] < s[j]
  BY DEF Ascends, k
<1>n. \A i \in 1 .. k : s[i] \in Nat
  <2>1. set \subseteq Nat
    OBVIOUS
  <2>2. QED
    BY ONLY <1>3, <2>1
<1>4. ASSUME NEW i \in 1 .. k, NEW j \in 1 .. k, s[i] = s[j] PROVE i = j
  <2>1. ~ (i < j) /\ ~ (j < i)
    BY <1>3, <1>4, <1>n
  <2>2. QED
    BY <1>1, <2>1
<1>5. s \in Injection(1 .. k, set)
  BY <1>3, <1>4 DEF Injection, IsInjective
<1>6. s \in Surjection(1 .. k, set)
  BY <1>1, <1>2, <1>5, FS_Injection DEF k
<1>7. QED
  BY <1>1, <1>6 DEF Surjection, IsFull, k

\* The rows of a table begin at the addresses of s; a row ends where the next begins.
IsAscending(s) == s \in Seq(Nat) /\ \A i, j \in 1 .. Len(s) : i < j => s[i] < s[j]
EndsAt(s, i) == IF i < Len(s) THEN s[i + 1] ELSE s[i] + 1
InRow(s, j, a) == s[j] <= a /\ a < EndsAt(s, j)
InSegment(segment, a) == segment.start <= a /\ a < segment.end
SegmentOf(line, s) == [start : Nat, end : Nat, line : {line[s[i]] : i \in 1 .. Len(s)}]

Continued(line, s, segments, i) ==
    /\ segments # <<>>
    /\ segments[Len(segments)].end = s[i] /\ segments[Len(segments)].line = line[s[i]]
Coalesce(line, s, segments, i) ==
    IF Artifact!GoesOn(segments, s[i], line[s[i]])
    THEN [segments EXCEPT ![Len(segments)].end = EndsAt(s, i)]
    ELSE Append(segments, [start |-> s[i], end |-> EndsAt(s, i), line |-> line[s[i]]])

\* What the segments of the first k rows are.
IsSegments(line, s, k, segments) ==
    /\ segments \in Seq(SegmentOf(line, s))
    /\ \A i \in 1 .. Len(segments) : segments[i].start < segments[i].end
    /\ \A i \in 1 .. Len(segments) - 1 : segments[i].end <= segments[i + 1].start
    /\ k = 0 => segments = <<>>
    /\ k > 0 => segments # <<>> /\ segments[Len(segments)].end = EndsAt(s, k)
    /\ \A i \in 1 .. Len(segments) : \A a \in Nat : InSegment(segments[i], a) =>
         \E j \in 1 .. k : InRow(s, j, a) /\ segments[i].line = line[s[j]]
    /\ \A j \in 1 .. k : \A a \in Nat : InRow(s, j, a) =>
         \E i \in 1 .. Len(segments) :
            InSegment(segments[i], a) /\ segments[i].line = line[s[j]]

LEMMA RowEnds ==
    ASSUME NEW s, IsAscending(s), NEW k \in 1 .. Len(s)
    PROVE  s[k] \in Nat /\ EndsAt(s, k) \in Nat /\ s[k] < EndsAt(s, k)
           /\ (k > 1 => EndsAt(s, k - 1) = s[k])
<1>1. CASE k < Len(s)
  BY <1>1 DEF IsAscending, EndsAt
<1>2. CASE k = Len(s)
  BY <1>2 DEF IsAscending, EndsAt
<1>3. QED
  BY <1>1, <1>2 DEF IsAscending

\* A row that goes on with the line of the one before widens its segment.
LEMMA SegmentWidens ==
    ASSUME NEW line, NEW s, IsAscending(s), NEW k \in 1 .. Len(s), NEW segments,
           IsSegments(line, s, k - 1, segments), Continued(line, s, segments, k)
    PROVE  IsSegments(line, s, k, [segments EXCEPT ![Len(segments)].end = EndsAt(s, k)])
<1> DEFINE n == Len(segments)
<1> DEFINE t == [segments EXCEPT ![n].end = EndsAt(s, k)]
<1> DEFINE Seg == SegmentOf(line, s)
<1>1. /\ segments \in Seq(Seg) /\ n \in Nat \ {0} /\ segments[n].end = s[k]
      /\ segments[n].line = line[s[k]] /\ segments[n].start < segments[n].end
  BY DEF IsSegments, Continued
<1>2. s[k] \in Nat /\ EndsAt(s, k) \in Nat /\ s[k] < EndsAt(s, k)
  BY RowEnds
<1>3. \A segment \in Seg : segment.start \in Nat /\ segment.end \in Nat
  BY DEF SegmentOf
<1>4. /\ t \in Seq(Seg) /\ Len(t) = n
      /\ \A i \in 1 .. n - 1 : t[i] = segments[i]
      /\ t[n].start = segments[n].start /\ t[n].end = EndsAt(s, k) /\ t[n].line = segments[n].line
  <2>1. segments[n] \in Seg
    BY <1>1
  <2>2. [segments[n] EXCEPT !.end = EndsAt(s, k)] \in Seg
    BY <1>2, <2>1 DEF SegmentOf
  <2>3. t = [segments EXCEPT ![n] = [segments[n] EXCEPT !.end = EndsAt(s, k)]]
    BY Zenon
  <2>4. segments[n] = [start |-> segments[n].start, end |-> segments[n].end,
                       line |-> segments[n].line]
    BY <2>1 DEF SegmentOf
  <2> HIDE DEF t, Seg, n
  <2>5. t \in Seq(Seg) /\ Len(t) = Len(segments) /\ t[n] = [segments[n] EXCEPT !.end = EndsAt(s, k)]
        /\ \A i \in 1 .. n - 1 : t[i] = segments[i]
    BY <1>1, <2>2, <2>3 DEF n
  <2>6. QED
    BY <2>4, <2>5 DEF n
<1> HIDE DEF t, Seg
<1>5. \A i \in 1 .. n : segments[i] \in Seg
  BY <1>1
<1> HIDE DEF n
<1>6. \A i \in 1 .. n : t[i].start < t[i].end
  <2>1. \A i \in 1 .. n - 1 : t[i].start < t[i].end
    BY <1>1, <1>4 DEF IsSegments, n
  <2>2. t[n].start < t[n].end
    BY <1>1, <1>2, <1>3, <1>4, <1>5
  <2>3. QED
    BY <1>1, <2>1, <2>2
<1>7. \A i \in 1 .. n - 1 : t[i].end <= t[i + 1].start
  <2>1. \A i \in 1 .. n - 1 : segments[i].end <= segments[i + 1].start
    BY DEF IsSegments, n
  <2>2. ASSUME NEW i \in 1 .. n - 1
        PROVE  t[i + 1].start = segments[i + 1].start /\ t[i].end = segments[i].end
    <3>1. t[i] = segments[i]
      BY <1>4
    <3>2. CASE i + 1 = n
      <4>1. t[i + 1].start = segments[n].start
        BY <1>4, <3>2
      <4>2. QED
        BY <3>1, <3>2, <4>1
    <3>3. CASE i + 1 # n
      <4>1. i + 1 \in 1 .. n - 1
        BY <1>1, <3>3
      <4>2. QED
        BY <1>4, <3>1, <4>1
    <3>4. QED
      BY <3>2, <3>3
  <2>3. QED
    BY <2>1, <2>2
<1>8. ASSUME NEW i \in 1 .. n, NEW a \in Nat, InSegment(t[i], a)
      PROVE  \E j \in 1 .. k : InRow(s, j, a) /\ t[i].line = line[s[j]]
  <2>1. CASE InSegment(segments[i], a)
    <3>1. PICK j \in 1 .. k - 1 : InRow(s, j, a) /\ segments[i].line = line[s[j]]
      BY <2>1 DEF IsSegments, n
    <3>2. t[i].line = segments[i].line
      <4>1. CASE i = n
        BY ONLY <1>4, <4>1
      <4>2. CASE i # n
        <5>1. i \in 1 .. n - 1
          BY <1>1, <4>2
        <5>2. QED
          BY ONLY <1>4, <5>1
      <4>3. QED
        BY <4>1, <4>2
    <3>3. QED
      BY <3>1, <3>2
  <2>2. CASE ~ InSegment(segments[i], a)
    <3>1. i = n
      BY <1>1, <1>4, <1>8, <2>2
    <3>2. InRow(s, k, a)
      BY <1>1, <1>2, <1>4, <1>8, <2>2, <3>1 DEF InSegment, InRow
    <3>3. QED
      BY <1>1, <1>4, <3>1, <3>2
  <2>3. QED
    BY <2>1, <2>2
<1>9. ASSUME NEW j \in 1 .. k, NEW a \in Nat, InRow(s, j, a)
      PROVE  \E i \in 1 .. n : InSegment(t[i], a) /\ t[i].line = line[s[j]]
  <2>1. CASE j = k
    <3>1. InSegment(t[n], a)
      BY <1>1, <1>2, <1>3, <1>4, <1>5, <1>9, <2>1 DEF InSegment, InRow
    <3>2. QED
      BY <1>1, <1>4, <2>1, <3>1
  <2>2. CASE j # k
    <3>1. j \in 1 .. k - 1
      BY <2>2
    <3>2. PICK i \in 1 .. n : InSegment(segments[i], a) /\ segments[i].line = line[s[j]]
      BY <1>9, <3>1 DEF IsSegments, n
    <3>3. InSegment(t[i], a) /\ t[i].line = segments[i].line
      <4>1. CASE i = n
        BY <1>1, <1>2, <1>3, <1>4, <1>5, <3>2, <4>1 DEF InSegment
      <4>2. CASE i # n
        BY <1>1, <1>4, <3>2, <4>2
      <4>3. QED
        BY <4>1, <4>2
    <3>4. QED
      BY <3>2, <3>3
  <2>3. QED
    BY <2>1, <2>2
<1>10. IsSegments(line, s, k, t)
  <2>1. Len(t) = n /\ t # <<>> /\ t \in Seq(SegmentOf(line, s)) /\ k > 0 /\ t[Len(t)].end = EndsAt(s, k)
        /\ k # 0
    BY <1>1, <1>4 DEF Seg
  <2>2. QED
    BY ONLY <2>1, <1>6, <1>7, <1>8, <1>9 DEF IsSegments
<1>11. QED
  BY <1>10 DEF t, n

\* Another line begins a segment of its own.
LEMMA SegmentBegins ==
    ASSUME NEW line, NEW s, IsAscending(s), NEW k \in 1 .. Len(s), NEW segments,
           IsSegments(line, s, k - 1, segments)
    PROVE  IsSegments(line, s, k,
                Append(segments, [start |-> s[k], end |-> EndsAt(s, k), line |-> line[s[k]]]))
<1> DEFINE new == [start |-> s[k], end |-> EndsAt(s, k), line |-> line[s[k]]]
<1> DEFINE n == Len(segments)
<1> DEFINE t == Append(segments, new)
<1> DEFINE Seg == SegmentOf(line, s)
<1>1. segments \in Seq(Seg) /\ n \in Nat
  BY DEF IsSegments
<1>2. /\ s[k] \in Nat /\ EndsAt(s, k) \in Nat /\ s[k] < EndsAt(s, k)
      /\ (k > 1 => EndsAt(s, k - 1) = s[k])
  BY RowEnds
<1>3. new \in Seg /\ new.start = s[k] /\ new.end = EndsAt(s, k) /\ new.line = line[s[k]]
  BY <1>2 DEF SegmentOf
<1> HIDE DEF new, Seg
<1>4. /\ t \in Seq(Seg) /\ Len(t) = n + 1 /\ t[n + 1] = new
      /\ \A i \in 1 .. n : t[i] = segments[i]
  BY <1>1, <1>3
<1> HIDE DEF t
<1>5. \A i \in 1 .. n + 1 : t[i].start < t[i].end
  <2>1. \A i \in 1 .. n : t[i].start < t[i].end
    BY <1>1, <1>4 DEF IsSegments
  <2>2. t[n + 1].start < t[n + 1].end
    BY <1>2, <1>3, <1>4
  <2> HIDE DEF n
  <2>3. QED
    BY <1>1, <2>1, <2>2
<1>6. \A i \in 1 .. n : t[i].end <= t[i + 1].start
  <2>1. \A i \in 1 .. n - 1 : t[i].end <= t[i + 1].start
    BY <1>1, <1>4 DEF IsSegments
  <2>2. n > 0 => t[n].end <= t[n + 1].start
    <3>1. n > 0 => k - 1 > 0
      BY <1>1 DEF IsSegments
    <3>2. k - 1 > 0 => segments[n].end = EndsAt(s, k - 1)
      BY DEF IsSegments
    <3> HIDE DEF n
    <3>3. QED
      BY <1>1, <1>2, <1>3, <1>4, <3>1, <3>2
  <2> HIDE DEF n
  <2>3. QED
    BY <1>1, <2>1, <2>2
<1>7. ASSUME NEW i \in 1 .. n + 1, NEW a \in Nat, InSegment(t[i], a)
      PROVE  \E j \in 1 .. k : InRow(s, j, a) /\ t[i].line = line[s[j]]
  <2>1. CASE i = n + 1
    BY <1>3, <1>4, <1>7, <2>1 DEF InSegment, InRow
  <2>2. CASE i # n + 1
    <3>1. i \in 1 .. n /\ t[i] = segments[i]
      BY <1>1, <1>4, <2>2
    <3>2. PICK j \in 1 .. k - 1 : InRow(s, j, a) /\ segments[i].line = line[s[j]]
      BY <1>7, <3>1 DEF IsSegments
    <3>3. QED
      BY <3>1, <3>2
  <2>3. QED
    BY <2>1, <2>2
<1>8. ASSUME NEW j \in 1 .. k, NEW a \in Nat, InRow(s, j, a)
      PROVE  \E i \in 1 .. n + 1 : InSegment(t[i], a) /\ t[i].line = line[s[j]]
  <2>1. CASE j = k
    <3>1. InSegment(t[n + 1], a) /\ t[n + 1].line = line[s[j]] /\ n + 1 \in 1 .. n + 1
      BY <1>1, <1>3, <1>4, <1>8, <2>1 DEF InSegment, InRow
    <3>2. QED
      BY <3>1
  <2>2. CASE j # k
    <3>1. j \in 1 .. k - 1
      BY <2>2
    <3>2. PICK i \in 1 .. n : InSegment(segments[i], a) /\ segments[i].line = line[s[j]]
      BY <1>8, <3>1 DEF IsSegments
    <3>3. i \in 1 .. n + 1 /\ t[i] = segments[i]
      BY <1>1, <1>4
    <3>4. QED
      BY <3>2, <3>3
  <2>3. QED
    BY <2>1, <2>2
<1>9. IsSegments(line, s, k, t)
  <2>1. /\ Len(t) = n + 1 /\ Len(t) - 1 = n /\ t # <<>> /\ t \in Seq(SegmentOf(line, s)) /\ k > 0
        /\ t[Len(t)].end = EndsAt(s, k) /\ k # 0
    BY <1>1, <1>3, <1>4 DEF Seg
  <2> HIDE DEF n
  <2>2. QED
    BY ONLY <2>1, <1>5, <1>6, <1>7, <1>8 DEF IsSegments
<1>10. QED
  BY <1>9 DEF t, new

LEMMA CoalesceGrows ==
    ASSUME NEW line, NEW s, IsAscending(s), NEW k \in 1 .. Len(s), NEW segments,
           IsSegments(line, s, k - 1, segments)
    PROVE  IsSegments(line, s, k, Coalesce(line, s, segments, k))
<1>1. CASE Artifact!GoesOn(segments, s[k], line[s[k]])
  <2>1. Continued(line, s, segments, k)
    BY <1>1 DEF Continued, Artifact!GoesOn, Artifact!Touches, Artifact!Last
  <2>2. IsSegments(line, s, k, [segments EXCEPT ![Len(segments)].end = EndsAt(s, k)])
    BY <2>1, SegmentWidens
  <2>3. QED
    BY <1>1, <2>2, Zenon DEF Coalesce
<1>2. CASE ~ Artifact!GoesOn(segments, s[k], line[s[k]])
  <2>1. IsSegments(line, s, k,
            Append(segments, [start |-> s[k], end |-> EndsAt(s, k), line |-> line[s[k]]]))
    BY SegmentBegins
  <2>2. QED
    BY <1>2, <2>1, Zenon DEF Coalesce
<1>3. QED
  BY <1>1, <1>2

LEMMA CoalesceType ==
    ASSUME NEW line, NEW s, IsAscending(s), NEW k \in 1 .. Len(s),
           NEW segments \in Seq(SegmentOf(line, s))
    PROVE  Coalesce(line, s, segments, k) \in Seq(SegmentOf(line, s))
<1> DEFINE n == Len(segments)
<1> DEFINE Seg == SegmentOf(line, s)
<1>1. s[k] \in Nat /\ EndsAt(s, k) \in Nat
  BY RowEnds
<1>2. [start |-> s[k], end |-> EndsAt(s, k), line |-> line[s[k]]] \in Seg
  BY <1>1 DEF SegmentOf
<1>3. ASSUME segments # <<>> PROVE [segments EXCEPT ![n].end = EndsAt(s, k)] \in Seq(Seg)
  <2>1. segments[n] \in Seg /\ n \in 1 .. n
    BY <1>3
  <2>2. [segments[n] EXCEPT !.end = EndsAt(s, k)] \in Seg
    BY <1>1, <2>1 DEF SegmentOf
  <2> HIDE DEF Seg
  <2>3. [segments EXCEPT ![n] = [segments[n] EXCEPT !.end = EndsAt(s, k)]] \in Seq(Seg)
    BY <2>1, <2>2 DEF Seg
  <2>4. QED
    BY <2>3, Zenon
<1>4. Artifact!GoesOn(segments, s[k], line[s[k]]) => segments # <<>>
  BY DEF Artifact!GoesOn, Artifact!Touches
<1>5. QED
  BY <1>2, <1>3, <1>4 DEF Coalesce

\* The fold over the rows gives the segments of all of them.
LEMMA SegmentsAre ==
    ASSUME IsAscending(Artifact!Starts)
    PROVE  IsSegments(job.line, Artifact!Starts, Len(Artifact!Starts), Artifact!build_segments)
<1> DEFINE line == job.line
<1> DEFINE s == Artifact!Starts
<1> DEFINE N == Len(s)
<1> DEFINE T == Seq(SegmentOf(line, s))
<1> DEFINE Is(f) == f = [n \in 0 .. N |-> IF n = 0 THEN <<>> ELSE Coalesce(line, s, f[n - 1], n)]
<1> DEFINE upto == CHOOSE f : Is(f)
<1>1. Artifact!build_segments = upto[N]
  BY Zenon DEF Artifact!build_segments, Artifact!coalesce, Artifact!NextStart, Coalesce, EndsAt
<1>2. IsAscending(s)
  OBVIOUS
<1> HIDE DEF line, s
<1>3. N \in Nat
  BY <1>2 DEF IsAscending
<1>4. \E f : Is(f)
  <2> DEFINE step == [n \in 1 .. N |-> [x \in T |-> Coalesce(line, s, x, n)]]
  <2>1. \A n \in 1 .. N : \A x \in T : Coalesce(line, s, x, n) \in T
    BY <1>2, CoalesceType
  <2>2. step \in [1 .. N -> [T -> T]] /\ <<>> \in T
    BY <2>1
  <2>3. \A n \in 1 .. N : \A x \in T : step[n][x] = Coalesce(line, s, x, n)
    OBVIOUS
  <2> HIDE DEF T, N, step
  <2>4. PICK f : Follows(f, N, T, <<>>, step)
    BY <1>3, <2>2, Recursion
  <2>5. f \in [0 .. N -> T] /\ f[0] = <<>> /\ \A n \in 1 .. N : f[n - 1] \in T
    BY <1>3, <2>4 DEF Follows
  <2>6. \A n \in 1 .. N : f[n] = Coalesce(line, s, f[n - 1], n)
    BY <2>3, <2>4, <2>5 DEF Follows
  <2>7. Is(f)
    BY <1>3, <2>5, <2>6
  <2> HIDE DEF Is
  <2>8. QED
    BY <2>7
<1> HIDE DEF Is
<1>5. Is(upto)
  BY <1>4
<1> HIDE DEF upto
<1>6. upto[0] = <<>> /\ \A n \in 1 .. N : upto[n] = Coalesce(line, s, upto[n - 1], n)
  BY <1>3, <1>5 DEF Is
<1> DEFINE S == {n \in 0 .. N : IsSegments(line, s, n, upto[n])}
<1>7. 0 \in S
  <2>1. IsSegments(line, s, 0, <<>>)
    BY DEF IsSegments
  <2>2. QED
    BY <1>3, <1>6, <2>1
<1>8. ASSUME NEW n \in 0 .. N - 1, n \in S PROVE n + 1 \in S
  <2>1. n + 1 \in 1 .. N /\ (n + 1) - 1 = n /\ n + 1 \in 0 .. N
    BY <1>3
  <2>2. upto[n + 1] = Coalesce(line, s, upto[n], n + 1)
    BY <1>6, <2>1
  <2>3. IsSegments(line, s, (n + 1) - 1, upto[n])
    BY <1>8, <2>1
  <2> HIDE DEF N
  <2>4. IsSegments(line, s, n + 1, Coalesce(line, s, upto[n], n + 1))
    BY <1>2, <2>1, <2>3, CoalesceGrows DEF N
  <2>5. QED
    BY <2>1, <2>2, <2>4
<1> HIDE DEF S, N
<1>9. \A n \in 0 .. N - 1 : n \in S => n + 1 \in S
  BY <1>8
<1>10. N \in S
  BY <1>3, <1>7, <1>9, Induction
<1>11. QED
  BY <1>1, <1>10 DEF S, N, line, s

\* A row ends where its line does, or where another begins.
EndsRow(line, begins, a, e) ==
    /\ \A x \in a .. e - 1 : line[x] = line[a] /\ (x > a => x \notin begins)
    /\ e = Top \/ e \in begins \/ line[e] = Artifact!Hole

LEMMA EndIsThere ==
    ASSUME NEW line, NEW begins \in SUBSET Artifact!Addresses,
           Artifact!IsProgram(line, begins), NEW a \in begins
    PROVE  \E e \in a + 1 .. Top : EndsRow(line, begins, a, e)
<1>1. a \in Nat /\ a < Top /\ Top \in Nat
  BY AddressesAreBounded DEF Artifact!Addresses
<1> DEFINE Stop == {e \in 1 .. Top : e > a /\ (e = Top \/ e \in begins \/ line[e] = Artifact!Hole)}
<1>2. Stop \in SUBSET (1 .. Top) /\ Top \in Stop
  BY <1>1
<1>3. PICK e \in Stop : \A x \in Stop : e <= x
  <2> HIDE DEF Stop
  <2>1. Stop # {}
    BY <1>2
  <2>2. QED
    BY <1>1, <1>2, <2>1, LeastIsThere
<1>4. e \in a + 1 .. Top /\ (e = Top \/ e \in begins \/ line[e] = Artifact!Hole)
  BY <1>1
<1>5. \A x \in a + 1 .. e - 1 : x \notin begins /\ line[x] # Artifact!Hole
  <2> SUFFICES ASSUME NEW x \in a + 1 .. e - 1 PROVE x \notin begins /\ line[x] # Artifact!Hole
    OBVIOUS
  <2>1. x \in 1 .. Top /\ x > a /\ ~ (e <= x)
    BY <1>1, <1>4
  <2>2. x \notin Stop
    BY <1>3, <2>1
  <2>3. QED
    BY <2>1, <2>2
<1> HIDE DEF Stop
<1>6. \A x \in a + 1 .. e - 1 : line[x] = line[x - 1]
  <2> SUFFICES ASSUME NEW x \in a + 1 .. e - 1 PROVE line[x] = line[x - 1]
    OBVIOUS
  <2>1. x \in 0 .. Top - 1 /\ x # 0
    BY <1>1, <1>4
  <2>2. (line[x] # Artifact!Hole /\ (x = 0 \/ line[x - 1] # line[x])) => x \in begins
    BY <2>1 DEF Artifact!IsProgram, Artifact!Addresses
  <2>3. QED
    BY <1>5, <2>1, <2>2
<1> DEFINE n == e - 1 - a
<1> DEFINE S == {k \in 0 .. n : line[a + k] = line[a]}
<1>7. 0 \in S /\ n \in Nat
  BY <1>1, <1>4
<1>8. ASSUME NEW k \in 0 .. n - 1, k \in S PROVE k + 1 \in S
  <2>1. a + (k + 1) \in a + 1 .. e - 1 /\ (a + (k + 1)) - 1 = a + k /\ k + 1 \in 0 .. n
    BY <1>1, <1>4
  <2>2. line[a + (k + 1)] = line[a + k]
    BY <1>6, <2>1
  <2>3. line[a + k] = line[a]
    BY <1>8
  <2>4. QED
    BY <2>1, <2>2, <2>3
<1> HIDE DEF S
<1>9. \A k \in 0 .. n - 1 : k \in S => k + 1 \in S
  BY <1>8
<1> HIDE DEF n
<1>10. \A k \in 0 .. n : k \in S
  BY <1>7, <1>9, Induction
<1>11. ASSUME NEW x \in a .. e - 1 PROVE line[x] = line[a] /\ (x > a => x \notin begins)
  <2>1. x - a \in 0 .. n /\ a + (x - a) = x
    BY <1>1, <1>4 DEF n
  <2>2. line[x] = line[a]
    BY <1>10, <2>1 DEF S
  <2>3. x > a => x \notin begins
    BY <1>1, <1>4, <1>5
  <2>4. QED
    BY <2>2, <2>3
<1>12. EndsRow(line, begins, a, e)
  BY <1>4, <1>11 DEF EndsRow
<1>13. QED
  BY <1>4, <1>12

\* No row begins inside another.
LEMMA EndIsNext ==
    ASSUME job.begins \in SUBSET Artifact!Addresses,
           Artifact!IsProgram(job.line, job.begins), NEW a \in job.begins
    PROVE  /\ Artifact!EndOf(a) \in a + 1 .. Top
           /\ \A x \in a + 1 .. Artifact!EndOf(a) - 1 : x \notin job.begins
<1>1. \E e \in a + 1 .. Top : EndsRow(job.line, job.begins, a, e)
  BY EndIsThere
<1>2. Artifact!EndOf(a) = CHOOSE e \in a + 1 .. Top : EndsRow(job.line, job.begins, a, e)
  BY Zenon DEF Artifact!EndOf, EndsRow
<1>3. Artifact!EndOf(a) \in a + 1 .. Top /\ EndsRow(job.line, job.begins, a, Artifact!EndOf(a))
  BY <1>1, <1>2
<1>4. a \in Nat /\ Top \in Nat
  BY AddressesAreBounded DEF Artifact!Addresses
<1>5. QED
  BY <1>3, <1>4 DEF EndsRow

LineNames == {"kind", "line", "begins", "segments", "pc"}
LinesInv ==
    /\ job = [name \in LineNames |-> job[name]]
    /\ job.kind = "lines" /\ job.pc \in {"built", "done"}
    /\ job.begins \in SUBSET Artifact!Addresses
    /\ Artifact!IsProgram(job.line, job.begins)
    /\ job.pc = "done" =>
         \E s : Ascends(s, job.begins) /\ IsSegments(job.line, s, Len(s), job.segments)

Enumerates(s, begins) ==
    /\ IsAscending(s)
    /\ \A j \in 1 .. Len(s) : s[j] \in begins
    /\ \A b \in begins : \E j \in 1 .. Len(s) : s[j] = b

LEMMA AscendsIs ==
    ASSUME NEW begins \in SUBSET Artifact!Addresses, NEW s, Ascends(s, begins)
    PROVE  Enumerates(s, begins)
<1>1. begins \in SUBSET (0 .. Top - 1) /\ begins \subseteq Nat
  BY AddressesAreBounded DEF Artifact!Addresses
<1>2. IsFull(s, begins)
  <2>1. begins \in SUBSET (0 .. Top - 1) /\ Top \in Nat
    BY <1>1, AddressesAreBounded
  <2>2. QED
    BY <2>1, OrderIsFull, Zenon
<1> DEFINE n == Cardinality(begins)
<1>3. n \in Nat /\ \A x \in begins : \E i \in 1 .. n : s[i] = x
  BY <1>2, Zenon DEF IsFull
<1>4. s \in [1 .. n -> begins] /\ \A i, j \in DOMAIN s : i < j => s[i] < s[j]
  BY Zenon DEF Ascends
<1> HIDE DEF n
<1>5. DOMAIN s = 1 .. n /\ s \in [1 .. n -> Nat]
  BY ONLY <1>1, <1>4
<1>6. s \in Seq(Nat) /\ Len(s) = n
  BY ONLY <1>3, <1>5
<1>7. \A i, j \in 1 .. n : i < j => s[i] < s[j]
  BY ONLY <1>4, <1>5
<1>8. IsAscending(s)
  BY ONLY <1>6, <1>7 DEF IsAscending
<1>9. \A j \in 1 .. n : s[j] \in begins
  BY ONLY <1>4
<1>10. QED
  BY ONLY <1>3, <1>6, <1>8, <1>9 DEF Enumerates

LEMMA LinesStart ==
    ASSUME NEW line \in [Artifact!Addresses -> SourceLines \cup {Artifact!Hole}],
           NEW begins \in SUBSET Artifact!Addresses,
           Artifact!IsProgram(line, begins), job = Artifact!Program(line, begins)
    PROVE  LinesInv
<1>1. /\ job = [name \in LineNames |-> job[name]]
      /\ job.kind = "lines" /\ job.pc = "built" /\ job.begins = begins /\ job.line = line
  BY DEF Artifact!Program, LineNames
<1>2. QED
  BY <1>1 DEF LinesInv

LEMMA LinesKeep ==
    ASSUME LinesInv, [Artifact!Next]_job PROVE LinesInv'
<1>1. job.kind = "lines" /\ job = [name \in LineNames |-> job[name]]
  BY DEF LinesInv
<1>2. CASE UNCHANGED job
  BY <1>2 DEF LinesInv
<1>3. CASE Artifact!Next
  <2>1. job' = [job EXCEPT !.segments = Artifact!build_segments, !.pc = "done"]
    BY <1>1, <1>3 DEF Artifact!Next, Artifact!BuildSegments, Artifact!coarse_location,
       Artifact!WalkFrame, Artifact!Ask, Artifact!ReadWindow, Artifact!Answered,
       Artifact!clear_cache, Artifact!refresh_len, Artifact!FileChanges, Artifact!Rebuild,
       Artifact!open, Artifact!set_syntax, Artifact!disassemble_with_source,
       Artifact!disassemble, Artifact!sections, Artifact!source_line_for_address
  <2>2. /\ job' = [name \in LineNames |-> job'[name]]
        /\ job'.kind = job.kind /\ job'.line = job.line /\ job'.begins = job.begins
        /\ job'.segments = Artifact!build_segments /\ job'.pc = "done"
    BY <1>1, <2>1 DEF LineNames
  <2> DEFINE s == Artifact!Starts
  <2>b. job.begins \in SUBSET Artifact!Addresses
    BY DEF LinesInv
  <2>3. Ascends(s, job.begins)
    <3> DEFINE n == Cardinality(job.begins)
    <3> DEFINE Order(t) == \A i, j \in DOMAIN t : i < j => t[i] < t[j]
    <3>1. s = CHOOSE t \in [1 .. n -> job.begins] : Order(t)
      <4>1. Artifact!Cardinality(job.begins) = n
        BY Zenon DEF Artifact!Cardinality, Cardinality
      <4> HIDE DEF n
      <4>2. QED
        BY <4>1, Zenon DEF Artifact!Starts
    <3>2. PICK t : Ascends(t, job.begins)
      <4>1. job.begins \in SUBSET (0 .. Top - 1) /\ Top \in Nat
        BY <2>b, AddressesAreBounded DEF Artifact!Addresses
      <4>2. QED
        BY <4>1, OrderIsThere, Zenon
    <3>3. t \in [1 .. n -> job.begins] /\ Order(t)
      BY <3>2, Zenon DEF Ascends
    <3> HIDE DEF s, n, Order
    <3>4. s \in [1 .. n -> job.begins] /\ Order(s)
      BY <3>1, <3>3, Zenon
    <3>5. QED
      BY <3>4, Zenon DEF Ascends, n, Order
  <2>4. IsAscending(s)
    <3>1. Enumerates(s, job.begins)
      BY <2>b, <2>3, AscendsIs, Zenon
    <3>2. QED
      BY <3>1, Zenon DEF Enumerates
  <2>5. IsSegments(job.line, s, Len(s), Artifact!build_segments)
    BY <2>4, SegmentsAre
  <2> HIDE DEF s
  <2>6. Ascends(s, job'.begins) /\ IsSegments(job'.line, s, Len(s), job'.segments)
    BY <2>2, <2>3, <2>5
  <2>7. QED
    BY <2>2, <2>6 DEF LinesInv
<1>4. QED
  BY <1>2, <1>3

LEMMA LinesShow == LinesInv => Artifact!LineTablesAgree
<1> SUFFICES ASSUME LinesInv, job.pc = "done" PROVE Artifact!LineTablesAgree
  BY DEF Artifact!LineTablesAgree
<1>1. PICK s : Ascends(s, job.begins) /\ IsSegments(job.line, s, Len(s), job.segments)
  BY DEF LinesInv
<1>2. /\ IsAscending(s)
      /\ \A j \in 1 .. Len(s) : s[j] \in job.begins
      /\ \A b \in job.begins : \E j \in 1 .. Len(s) : s[j] = b
  <2>1. job.begins \in SUBSET Artifact!Addresses
    BY DEF LinesInv
  <2>2. Enumerates(s, job.begins)
    BY <1>1, <2>1, AscendsIs, Zenon
  <2>3. QED
    BY <2>2, Zenon DEF Enumerates
<1>3. \A i \in 1 .. Len(job.segments) - 1 : job.segments[i].end <= job.segments[i + 1].start
  BY <1>1 DEF IsSegments
<1>4. ASSUME NEW a \in Artifact!Addresses, Artifact!row_for(a) # {},
             Artifact!Following(a) # {} \/ a \in job.begins
      PROVE  Artifact!line_range_for_address(a) = Artifact!row_for(a)
  <2>1. PICK b \in job.begins : b <= a /\ a < Artifact!EndOf(b)
    BY <1>4 DEF Artifact!row_for
  <2>2. job.begins \subseteq Nat /\ a \in Nat /\ Top \in Nat
    BY AddressesAreBounded DEF LinesInv, Artifact!Addresses
  <2>3. \A x \in job.begins : x <= a =>
          /\ Artifact!EndOf(x) \in Nat
          /\ \A y \in job.begins : y > x => y >= Artifact!EndOf(x)
    <3> SUFFICES ASSUME NEW x \in job.begins, x <= a
                 PROVE  /\ Artifact!EndOf(x) \in Nat
                        /\ \A y \in job.begins : y > x => y >= Artifact!EndOf(x)
      OBVIOUS
    <3>1. /\ Artifact!EndOf(x) \in x + 1 .. Top
          /\ \A y \in x + 1 .. Artifact!EndOf(x) - 1 : y \notin job.begins
      BY EndIsNext DEF LinesInv
    <3>2. QED
      BY <2>2, <3>1
  \* b is the last row that begins at or before a.
  <2>4. \A x \in job.begins : x <= a => x <= b
    BY <2>1, <2>2, <2>3
  <2>5. Artifact!row_for(a) = {job.line[b]}
    <3>1. \A x \in job.begins : (x <= a /\ a < Artifact!EndOf(x)) => x = b
      BY <2>1, <2>2, <2>3, <2>4
    <3>2. {x \in job.begins : x <= a /\ a < Artifact!EndOf(x)} = {b}
      BY <2>1, <3>1
    <3>3. QED
      BY <3>2 DEF Artifact!row_for
  <2>6. PICK j \in 1 .. Len(s) : s[j] = b
    BY <1>2
  <2>7. Len(s) \in Nat /\ \A i, k \in 1 .. Len(s) : i < k => s[i] < s[k]
    <3>1. IsAscending(s)
      BY <1>2
    <3>2. QED
      BY ONLY <3>1 DEF IsAscending
  <2>8. InRow(s, j, a)
    <3>1. CASE j < Len(s)
      <4>1. j + 1 \in 1 .. Len(s)
        BY <2>7, <3>1
      <4>2. s[j + 1] \in job.begins /\ s[j] < s[j + 1]
        BY <1>2, <2>7, <4>1
      <4>3. ~ (s[j + 1] <= a)
        BY <2>2, <2>4, <2>6, <4>2
      <4>4. QED
        BY <2>1, <2>2, <2>6, <3>1, <4>2, <4>3 DEF InRow, EndsAt
    <3>2. CASE ~ (j < Len(s))
      <4>1. j = Len(s)
        BY <2>7, <3>2
      <4>2. \A c \in job.begins : c <= b
        <5> SUFFICES ASSUME NEW c \in job.begins PROVE c <= b
          OBVIOUS
        <5>1. PICK i \in 1 .. Len(s) : s[i] = c
          BY <1>2
        <5>2. i = j \/ i < j
          BY <2>7, <4>1
        <5>3. QED
          BY <2>2, <2>6, <2>7, <5>1, <5>2
      <4>3. Artifact!Following(a) = {}
        BY <2>1, <2>2, <4>2 DEF Artifact!Following
      <4>4. a = b
        BY <1>4, <2>1, <2>2, <4>2, <4>3
      <4>5. QED
        BY <2>2, <2>6, <3>2, <4>4 DEF InRow, EndsAt
    <3>3. QED
      BY <3>1, <3>2
  <2>9. \A i \in 1 .. Len(s) : InRow(s, i, a) => i = j
    <3> SUFFICES ASSUME NEW i \in 1 .. Len(s), InRow(s, i, a) PROVE i = j
      OBVIOUS
    <3>1. s[i] \in job.begins /\ s[i] <= a /\ s[i] <= s[j]
      BY <1>2, <2>4, <2>6 DEF InRow
    <3>2. ~ (j < i)
      BY <2>2, <2>6, <2>7, <3>1
    <3>3. ~ (i < j)
      <4> SUFFICES ASSUME i < j PROVE FALSE
        OBVIOUS
      <4>1. i < Len(s) /\ i + 1 \in 1 .. Len(s) /\ (i + 1 = j \/ i + 1 < j)
        BY <2>7
      <4>2. s[i + 1] \in Nat /\ s[i + 1] <= s[j] /\ s[j] \in Nat
        <5>1. s[i + 1] \in job.begins /\ s[j] \in job.begins
          BY ONLY <1>2, <4>1, j \in 1 .. Len(s)
        <5>2. s[i + 1] \in Nat /\ s[j] \in Nat
          BY ONLY <2>2, <5>1
        <5>3. i + 1 = j => s[i + 1] <= s[j]
          BY <5>2
        <5>4. i + 1 < j => s[i + 1] < s[j]
          BY ONLY <2>7, <4>1, j \in 1 .. Len(s)
        <5>5. QED
          BY <4>1, <5>2, <5>3, <5>4
      <4>3. a < s[i + 1]
        BY <4>1 DEF InRow, EndsAt
      <4>4. QED
        BY <2>1, <2>2, <2>6, <4>2, <4>3
    <3>4. QED
      BY <2>7, <3>2, <3>3
  <2>10. \A i \in 1 .. Len(job.segments) :
            InSegment(job.segments[i], a) => job.segments[i].line = job.line[b]
    <3> SUFFICES ASSUME NEW i \in 1 .. Len(job.segments), InSegment(job.segments[i], a)
                 PROVE  job.segments[i].line = job.line[b]
      OBVIOUS
    <3>1. PICK k \in 1 .. Len(s) : InRow(s, k, a) /\ job.segments[i].line = job.line[s[k]]
      BY <1>1, <2>2 DEF IsSegments
    <3>2. QED
      BY <2>6, <2>9, <3>1
  <2>11. \E i \in 1 .. Len(job.segments) :
            InSegment(job.segments[i], a) /\ job.segments[i].line = job.line[b]
    BY <1>1, <2>2, <2>6, <2>8 DEF IsSegments
  <2>12. Artifact!line_range_for_address(a) = {job.line[b]}
    BY <2>10, <2>11 DEF Artifact!line_range_for_address, InSegment
  <2>13. QED
    BY <2>5, <2>12
<1>5. QED
  BY <1>3, <1>4 DEF Artifact!LineTablesAgree

-----------------------------------------------------------------------------
(* All the views of an artifact. *)

ViewsInv ==
    /\ HasKind
    /\ job.kind = "lines" => LinesInv
    /\ job.kind = "frames" => FramesInv
    /\ job.kind = "symbol" => SymbolInv
    /\ job.kind = "hex" => HexInv
    /\ job.kind = "artifact" => BuildInv

LEMMA ViewsStart ==
    ASSUME HasKind, Artifact!Init
    PROVE  ViewsInv
<1>1. ASSUME NEW line \in [Artifact!Addresses -> SourceLines \cup {Artifact!Hole}],
             NEW begins \in SUBSET Artifact!Addresses,
             Artifact!IsProgram(line, begins), job = Artifact!Program(line, begins)
      PROVE  ViewsInv
  <2>1. job.kind = "lines" /\ LinesInv
    BY <1>1, LinesStart DEF Artifact!Program
  <2>2. QED
    BY <2>1 DEF ViewsInv
<1>2. ASSUME NEW readable \in SUBSET (Artifact!Addresses \ {0}),
             NEW stack \in [readable -> Artifact!Frames], NEW rbp \in {0, 1, 2},
             job = Artifact!Walk(stack, rbp)
      PROVE  ViewsInv
  <2>1. job.kind = "frames"
    BY <1>2 DEF Artifact!Walk
  <2>2. FramesInv
    BY <1>2, FramesStart
  <2>3. QED
    BY <2>1, <2>2 DEF ViewsInv
<1>3. ASSUME NEW table \in Artifact!SeqOf(Artifact!Symbols, 2), NEW a \in Artifact!Addresses,
             job = Artifact!Lookup(table, a)
      PROVE  ViewsInv
  <2>1. job.kind = "symbol"
    BY <1>3 DEF Artifact!Lookup
  <2>2. SymbolInv
    BY <1>3, SymbolStarts
  <2>3. QED
    BY <2>1, <2>2 DEF ViewsInv
<1>4. ASSUME NEW size \in 0 .. 3, job = Artifact!Reader(size) PROVE ViewsInv
  <2>1. job.kind = "hex"
    BY <1>4 DEF Artifact!Reader
  <2>2. HexInv
    BY <1>4, HexStarts
  <2>3. QED
    BY <2>1, <2>2 DEF ViewsInv
<1>5. ASSUME job = Artifact!Opened(1) PROVE ViewsInv
  <2>1. job.kind = "artifact"
    BY <1>5 DEF Artifact!Opened
  <2>2. BuildInv
    BY <1>5, BuildStarts
  <2>3. QED
    BY <2>1, <2>2 DEF ViewsInv
<1>6. QED
  BY <1>1, <1>2, <1>3, <1>4, <1>5 DEF Artifact!Init

LEMMA ViewsKeep ==
    ASSUME ViewsInv, [Artifact!Next]_job, HasKind', job'.kind = job.kind
    PROVE  ViewsInv'
<1>1. job.kind = "lines" => LinesInv'
  BY LinesKeep DEF ViewsInv
<1>2. job.kind = "frames" => FramesInv'
  <2>1. CASE UNCHANGED job
    BY <2>1 DEF ViewsInv, FramesInv, IsStack
  <2>2. CASE Artifact!Next
    BY <2>2, FramesKeep DEF ViewsInv
  <2>3. QED
    BY <2>1, <2>2
<1>3. job.kind = "symbol" => SymbolInv'
  BY SymbolKeeps DEF ViewsInv
<1>4. job.kind = "hex" => HexInv'
  BY HexKeeps DEF ViewsInv
<1>5. job.kind = "artifact" => BuildInv'
  BY BuildKeeps DEF ViewsInv
<1>6. QED
  BY <1>1, <1>2, <1>3, <1>4, <1>5 DEF ViewsInv

LEMMA ViewsShow == ViewsInv => Artifact!ArtifactIsShown
<1> SUFFICES ASSUME ViewsInv PROVE Artifact!ArtifactIsShown
  OBVIOUS
<1>1. Artifact!LineTablesAgree
  <2>1. CASE job.kind = "lines"
    BY <2>1, LinesShow DEF ViewsInv
  <2>2. QED
    BY <2>1 DEF Artifact!LineTablesAgree
<1>2. Artifact!WalkIsTheStack
  <2>1. CASE job.kind = "frames"
    BY <2>1, FramesShow DEF ViewsInv
  <2>2. QED
    BY <2>1 DEF Artifact!WalkIsTheStack
<1>3. Artifact!NarrowestIsNamed
  <2>1. CASE job.kind = "symbol"
    BY <2>1, SymbolShows DEF ViewsInv
  <2>2. QED
    BY <2>1 DEF Artifact!NarrowestIsNamed
<1>4. Artifact!HexIsTheFile
  <2>1. CASE job.kind = "hex"
    BY <2>1, HexShows DEF ViewsInv
  <2>2. QED
    BY <2>1 DEF Artifact!HexIsTheFile
<1>5. Artifact!ReopenForgets
  <2>1. CASE job.kind = "artifact"
    BY <2>1, BuildForgets DEF ViewsInv
  <2>2. QED
    BY <2>1 DEF Artifact!ReopenForgets
<1>6. QED
  BY <1>1, <1>2, <1>3, <1>4, <1>5 DEF Artifact!ArtifactIsShown

-----------------------------------------------------------------------------
(* The walk of the page tables. *)

\* The low bits of an address are of the page, the others of the entry.
IsOffset(physical, to, va, low) ==
    /\ physical \in 0 .. 127
    /\ \A n \in 0 .. 6 :
         (physical \div 2^n) % 2 = IF n < low THEN (va \div 2^n) % 2 ELSE (to \div 2^n) % 2

LEMMA LeafBits ==
    ASSUME NEW to \in 0 .. 127, NEW va \in 0 .. 127, NEW low \in {0, 1, 2},
           NEW physical, physical = (to - (to % 2^low)) + (va % 2^low)
    PROVE  IsOffset(physical, to, va, low)
<1> USE DEF IsOffset
<1>p. /\ 2^0 = 1 /\ 2^1 = 2 /\ 2^2 = 4 /\ 2^3 = 8
      /\ 2^4 = 16 /\ 2^5 = 32 /\ 2^6 = 64
  OBVIOUS
<1>0. CASE low = 0
  <2>1. physical = to
    BY <1>0, <1>p
  <2>2. QED
    BY <2>1, <1>0
<1>1. CASE low = 1
  <2>1. PICK h \in 0 .. 63, b \in 0 .. 1 : to = 2 * h + b
    <3>1. to = 2 * (to \div 2) + (to % 2) /\ to \div 2 \in 0 .. 63 /\ to % 2 \in 0 .. 1
      OBVIOUS
    <3>2. QED
      BY <3>1
  <2>2. PICK g \in 0 .. 63, c \in 0 .. 1 : va = 2 * g + c
    <3>1. va = 2 * (va \div 2) + (va % 2) /\ va \div 2 \in 0 .. 63 /\ va % 2 \in 0 .. 1
      OBVIOUS
    <3>2. QED
      BY <3>1
  <2>3. physical = 2 * h + c /\ to % 2 = b /\ va % 2 = c
    BY <1>1, <1>p, <2>1, <2>2
  <2>4. ASSUME NEW n \in 0 .. 6
        PROVE  (physical \div 2^n) % 2 = IF n < 1 THEN (va \div 2^n) % 2 ELSE (to \div 2^n) % 2
    <3>1. CASE n = 0
      BY ONLY <3>1, <2>1, <2>2, <2>3, <1>p
    <3>2. CASE n = 1
      BY ONLY <3>2, <2>1, <2>3, <1>p
    <3>3. CASE n = 2
      BY ONLY <3>3, <2>1, <2>3, <1>p
    <3>4. CASE n = 3
      BY ONLY <3>4, <2>1, <2>3, <1>p
    <3>5. CASE n = 4
      BY ONLY <3>5, <2>1, <2>3, <1>p
    <3>6. CASE n = 5
      BY ONLY <3>6, <2>1, <2>3, <1>p
    <3>7. CASE n = 6
      BY ONLY <3>7, <2>1, <2>3, <1>p
    <3>8. QED
      BY ONLY <2>4, <3>1, <3>2, <3>3, <3>4, <3>5, <3>6, <3>7
  <2>5. QED
    BY <1>1, <2>3, <2>4
<1>2. CASE low = 2
  <2>1. PICK h \in 0 .. 31, b \in 0 .. 3 : to = 4 * h + b
    <3>1. to = 4 * (to \div 4) + (to % 4) /\ to \div 4 \in 0 .. 31 /\ to % 4 \in 0 .. 3
      OBVIOUS
    <3>2. QED
      BY <3>1
  <2>2. PICK g \in 0 .. 31, c \in 0 .. 3 : va = 4 * g + c
    <3>1. va = 4 * (va \div 4) + (va % 4) /\ va \div 4 \in 0 .. 31 /\ va % 4 \in 0 .. 3
      OBVIOUS
    <3>2. QED
      BY <3>1
  <2>3. physical = 4 * h + c /\ to % 4 = b /\ va % 4 = c
    BY <1>2, <1>p, <2>1, <2>2
  <2>4. ASSUME NEW n \in 0 .. 6
        PROVE  (physical \div 2^n) % 2 = IF n < 2 THEN (va \div 2^n) % 2 ELSE (to \div 2^n) % 2
    <3>1. CASE n = 0
      BY ONLY <3>1, <2>1, <2>2, <2>3, <1>p
    <3>2. CASE n = 1
      BY ONLY <3>2, <2>1, <2>2, <2>3, <1>p
    <3>3. CASE n = 2
      BY ONLY <3>3, <2>1, <2>3, <1>p
    <3>4. CASE n = 3
      BY ONLY <3>4, <2>1, <2>3, <1>p
    <3>5. CASE n = 4
      BY ONLY <3>5, <2>1, <2>3, <1>p
    <3>6. CASE n = 5
      BY ONLY <3>6, <2>1, <2>3, <1>p
    <3>7. CASE n = 6
      BY ONLY <3>7, <2>1, <2>3, <1>p
    <3>8. QED
      BY ONLY <2>4, <3>1, <3>2, <3>3, <3>4, <3>5, <3>6, <3>7
  <2>5. QED
    BY <1>2, <2>3, <2>4
<1>3. QED
  BY <1>0, <1>1, <1>2

\* The levels of a walk, from the root; only the last is that of pages.
Depth(la57) == IF la57 THEN 5 ELSE 4
LEMMA LevelsAre ==
    ASSUME NEW la57 \in BOOLEAN
    PROVE  /\ \A i, j \in 1 .. Depth(la57) : Pages!Levels(la57)[i] = Pages!Levels(la57)[j] => i = j
           /\ \A i \in 1 .. Depth(la57) : /\ Pages!Levels(la57)[i] \in DOMAIN Pages!Level
                                          /\ Pages!Levels(la57)[i] = "Pt" <=> i = Depth(la57)
<1>1. CASE la57
  <2> DEFINE L == Pages!Levels(la57)
  <2>1. L = <<"Pml5">> \o <<"Pml4", "Pdpt", "Pd", "Pt">>
    BY <1>1 DEF Pages!Levels
  <2>2. L[1] = "Pml5" /\ L[2] = "Pml4" /\ L[3] = "Pdpt" /\ L[4] = "Pd" /\ L[5] = "Pt"
    BY <2>1
  <2> HIDE DEF L
  <2>3. \A i \in 1 .. 5 : i = 1 \/ i = 2 \/ i = 3 \/ i = 4 \/ i = 5
    OBVIOUS
  <2>4. \A i, j \in 1 .. 5 : L[i] = L[j] => i = j
    <3>1. ASSUME NEW i \in 1 .. 5, NEW j \in 1 .. 5, L[i] = L[j] PROVE i = j
      BY <2>2, <2>3, <3>1
    <3>2. QED
      BY <3>1
  <2>5. \A i \in 1 .. 5 : L[i] = "Pt" <=> i = 5
    BY <2>2, <2>3
  <2>6. \A i \in 1 .. 5 : L[i] \in DOMAIN Pages!Level
    BY <2>2, <2>3 DEF Pages!Level
  <2>7. QED
    BY <1>1, <2>4, <2>5, <2>6 DEF Depth, L
<1>2. CASE ~la57
  <2>1. Pages!Levels(la57) = <<"Pml4", "Pdpt", "Pd", "Pt">>
    BY <1>2 DEF Pages!Levels
  <2>2. \A i \in 1 .. 4 : i = 1 \/ i = 2 \/ i = 3 \/ i = 4
    OBVIOUS
  <2>3. QED
    BY <1>2, <2>1, <2>2 DEF Depth, Pages!Level
<1>3. QED
  BY <1>1, <1>2


\* An entry that leads to another table.
Leads(entry) == entry.p /\ ~entry.ps
WalkNames == {"kind", "regs", "va", "running", "pass", "pc", "result", "at", "physical",
              "table", "visited", "path", "hole"}
Tabled == {0, RamFrames} \cup {entry.to : entry \in Entries}
Refused == {"PagingDisabled", "EferMissing", "NotLongMode", "NonCanonical"}

WalkFields ==
    /\ job = [name \in WalkNames |-> job[name]]
    /\ job.kind = "walk"
    /\ job.regs.la57 \in BOOLEAN
    /\ job.va \in VirtualAddresses
    /\ job.pass \in {1, 2}
    /\ job.pc \in {"table", "read", "look", "hole", "done"}
    /\ job.regs.cr3 \in Tabled /\ job.table \in Tabled /\ job.visited \in Seq(Tabled)
    /\ job.path \in Seq(Entries) /\ job.hole \in Seq(Entries)

\* No table is looked at twice, and none outside of memory.
VisitedOnce ==
    /\ \A i, j \in 1 .. Len(job.visited) : job.visited[i] = job.visited[j] => i = j
    /\ \A i \in 1 .. Len(job.visited) : job.visited[i] < RamFrames

\* A path as it is when its last entry has been read at level n.
IsHole(la57, path, level) ==
    /\ path # <<>> /\ Len(path) <= Depth(la57)
    /\ \A i \in 1 .. Len(path) - 1 : Leads(path[i])
    /\ ~path[Len(path)].p
    /\ level = Pages!Levels(la57)[Len(path)]

FirstReading ==
    /\ job.pc \in {"table", "read"} =>
         /\ job.result = "none"
         /\ Len(job.path) < Depth(job.regs.la57)
         /\ \A i \in 1 .. Len(job.path) : Leads(job.path[i])
    /\ job.pc = "look" =>
         /\ job.result = "none"
         /\ job.path # <<>> /\ Len(job.path) <= Depth(job.regs.la57)
         /\ \A i \in 1 .. Len(job.path) - 1 : Leads(job.path[i])
    /\ job.pc = "hole" => job.result = "NotPresent" /\ IsHole(job.regs.la57, job.path, job.at)

SecondReading ==
    /\ job.pc \in {"table", "read"} => Len(job.path) < Len(job.hole)
    /\ job.pc = "look" => job.path # <<>> /\ Len(job.path) <= Len(job.hole)
    /\ job.pc # "hole"
    /\ job.pc # "done" =>
         /\ job.result = "NotPresent" /\ IsHole(job.regs.la57, job.hole, job.at)
         /\ ~job.running => \A i \in 1 .. Len(job.path) : job.path[i] = job.hole[i]

WalkEnds ==
    job.pc = "done" =>
        /\ job.result \in Refused => job.path = <<>>
        /\ job.result = "ok" =>
             /\ job.path # <<>>
             /\ Pages!IsTranslation(job.physical) /\ Pages!IsRam(job.physical)
             /\ \A i \in 1 .. Len(job.path) - 1 : Leads(job.path[i])
             /\ job.path[Len(job.path)].p \/ job.path[Len(job.path)].ps
        /\ job.result = "Explained" =>
             /\ job.hole # <<>> /\ ~job.hole[Len(job.hole)].p
             /\ \A i \in 1 .. Len(job.hole) - 1 : Leads(job.hole[i])
             /\ ~job.running => job.path = SubSeq(job.hole, 1, Len(job.hole) - 1)

WalkInv ==
    /\ WalkFields /\ VisitedOnce
    /\ job.pass = 1 => FirstReading
    /\ job.pass = 2 => SecondReading
    /\ WalkEnds

LEMMA WalkStarts == Pages!Init => WalkInv
<1> SUFFICES ASSUME Pages!Init PROVE WalkInv
  OBVIOUS
<1>1. PICK regs \in [pg : BOOLEAN, efer : BOOLEAN, lma : BOOLEAN, la57 : BOOLEAN, cr3 : {0, RamFrames}],
           va \in VirtualAddresses, running \in BOOLEAN :
        job = [kind |-> "walk", regs |-> regs, va |-> va, running |-> running, pass |-> 1,
               pc |-> IF Pages!Refusal(regs, va) = "none" THEN "table" ELSE "done",
               result |-> Pages!Refusal(regs, va), at |-> "none", physical |-> 0,
               table |-> regs.cr3, visited |-> <<>>, path |-> <<>>, hole |-> <<>>]
  BY Zenon DEF Pages!Init
<1> DEFINE refusal == Pages!Refusal(regs, va)
<1>2. refusal \in Refused \cup {"none"}
  BY DEF Pages!Refusal, Refused
<1> HIDE DEF refusal
<1>3. /\ job.kind = "walk" /\ job.regs = regs /\ job.va = va /\ job.pass = 1
      /\ job.pc = (IF refusal = "none" THEN "table" ELSE "done") /\ job.result = refusal
      /\ job.table = regs.cr3 /\ job.visited = <<>> /\ job.path = <<>> /\ job.hole = <<>>
      /\ job = [name \in WalkNames |-> job[name]]
  BY <1>1 DEF refusal, WalkNames
<1>4. WalkFields
  BY <1>3 DEF WalkFields, Tabled
<1>5. VisitedOnce
  BY <1>3 DEF VisitedOnce
<1>6. FirstReading
  BY <1>2, <1>3 DEF FirstReading, Refused, Depth
<1>7. WalkEnds
  BY <1>2, <1>3 DEF WalkEnds, Refused
<1>8. QED
  BY <1>3, <1>4, <1>5, <1>6, <1>7 DEF WalkInv

\* What all steps but the last leave alone.
Keeps ==
    /\ job' = [name \in WalkNames |-> job'[name]]
    /\ job'.kind = job.kind /\ job'.regs = job.regs /\ job'.va = job.va
    /\ job'.running = job.running

\* A walk that ends without an answer.
LEMMA WalkFails ==
    ASSUME WalkInv, job.pc # "done", NEW result,
           result \notin Refused \cup {"ok", "Explained"}, Pages!End(result)
    PROVE  WalkInv'
<1>1. /\ Keeps /\ job'.pass = job.pass /\ job'.pc = "done" /\ job'.result = result
      /\ job'.table = job.table /\ job'.visited = job.visited
      /\ job'.path = job.path /\ job'.hole = job.hole
  BY DEF WalkInv, WalkFields, WalkNames, Keeps, Pages!End
<1>2. WalkFields'
  BY <1>1 DEF WalkInv, WalkFields, Keeps, Tabled
<1>3. VisitedOnce'
  BY <1>1 DEF WalkInv, VisitedOnce
<1>4. WalkEnds'
  BY <1>1 DEF WalkEnds
<1>5. FirstReading'
  BY <1>1 DEF FirstReading
<1>6. SecondReading'
  BY <1>1 DEF SecondReading
<1>7. QED
  BY <1>2, <1>3, <1>4, <1>5, <1>6 DEF WalkInv

LEMMA TableKeeps == WalkInv /\ Pages!Table => WalkInv'
<1> SUFFICES ASSUME WalkInv, Pages!Table PROVE WalkInv'
  OBVIOUS
<1>1. CASE ~Pages!IsRam(job.table)
  <2>1. Pages!End("TableNotInRam") /\ job.pc = "table"
    BY <1>1 DEF Pages!Table
  <2>2. "TableNotInRam" \notin Refused \cup {"ok", "Explained"}
    BY DEF Refused
  <2>3. QED
    BY <2>1, <2>2, WalkFails
<1>2. CASE Pages!IsRam(job.table) /\ job.table \in Pages!ToSet(job.visited)
  <2>1. Pages!End("Cycle") /\ job.pc = "table"
    BY <1>2 DEF Pages!Table
  <2>2. "Cycle" \notin Refused \cup {"ok", "Explained"}
    BY DEF Refused
  <2>3. QED
    BY <2>1, <2>2, WalkFails
<1>3. CASE Pages!IsRam(job.table) /\ job.table \notin Pages!ToSet(job.visited)
  <2>1. job' = [job EXCEPT !.pc = "read", !.visited = Append(@, job.table)] /\ job.pc = "table"
    BY <1>3 DEF Pages!Table
  <2>2. /\ Keeps /\ job'.pass = job.pass /\ job'.pc = "read" /\ job'.result = job.result
        /\ job'.table = job.table /\ job'.visited = Append(job.visited, job.table)
        /\ job'.path = job.path /\ job'.hole = job.hole /\ job'.at = job.at
    BY <2>1 DEF WalkInv, WalkFields, WalkNames, Keeps
  <2>3. WalkFields'
    BY <2>2 DEF WalkInv, WalkFields, Keeps, Tabled
  <2>4. VisitedOnce'
    <3>1. job.visited \in Seq(Tabled)
      BY DEF WalkInv, WalkFields
    <3>2. \A i \in 1 .. Len(job.visited) : job.visited[i] # job.table
      BY <1>3, <3>1 DEF Pages!ToSet
    <3>3. job.table < RamFrames
      BY <1>3 DEF Pages!IsRam
    <3>4. Len(job'.visited) = Len(job.visited) + 1
          /\ job'.visited[Len(job.visited) + 1] = job.table
          /\ \A i \in 1 .. Len(job.visited) : job'.visited[i] = job.visited[i]
      BY <2>2, <3>1
    <3>5. Len(job.visited) \in Nat
      BY <3>1
    <3>6. VisitedOnce
      BY DEF WalkInv
    <3> DEFINE n == Len(job.visited)
    <3> DEFINE v == job.visited
    <3> DEFINE w == job'.visited
    <3>7. \A i \in 1 .. n + 1 : w[i] < RamFrames
      <4>1. ASSUME NEW i \in 1 .. n + 1 PROVE w[i] < RamFrames
        <5>1. CASE i = n + 1
          BY <3>3, <3>4, <5>1
        <5>2. CASE i \in 1 .. n
          BY <3>4, <3>6, <5>2 DEF VisitedOnce
        <5>3. QED
          BY <3>5, <5>1, <5>2
      <4>2. QED
        BY <4>1
    <3>8. \A i, j \in 1 .. n + 1 : w[i] = w[j] => i = j
      <4>1. ASSUME NEW i \in 1 .. n + 1, NEW j \in 1 .. n + 1, w[i] = w[j] PROVE i = j
        <5>1. \A k \in 1 .. n : w[k] = v[k] /\ v[k] # w[n + 1]
          BY <3>2, <3>4
        <5>2. \A k, l \in 1 .. n : v[k] = v[l] => k = l
          BY <3>6 DEF VisitedOnce
        <5> HIDE DEF n, v, w
        <5>3. n \in Nat
          BY <3>5 DEF n
        <5>4. QED
          BY ONLY <4>1, <5>1, <5>2, <5>3
      <4>2. QED
        BY <4>1
    <3>9. QED
      BY <3>4, <3>7, <3>8 DEF VisitedOnce
  <2>5. job.pass = 1 => FirstReading'
    BY <2>1, <2>2 DEF WalkInv, FirstReading, Keeps, Leads
  <2>6. job.pass = 2 => SecondReading'
    BY <2>1, <2>2 DEF WalkInv, SecondReading, Keeps, IsHole, Leads
  <2>7. WalkEnds'
    BY <2>2 DEF WalkEnds
  <2>8. QED
    BY <2>2, <2>3, <2>4, <2>5, <2>6, <2>7 DEF WalkInv
<1>4. QED
  BY <1>1, <1>2, <1>3


LEMMA ReadKeeps == WalkInv /\ Pages!Read => WalkInv'
<1> SUFFICES ASSUME WalkInv, Pages!Read PROVE WalkInv'
  OBVIOUS
<1>1. PICK entry \in Entries :
        /\ Pages!Again(entry)
        /\ job' = [job EXCEPT !.pc = "look", !.path = Append(@, entry)]
  BY DEF Pages!Read
<1>2. job.pc = "read"
  BY DEF Pages!Read
<1>3. /\ Keeps /\ job'.pass = job.pass /\ job'.pc = "look" /\ job'.result = job.result
      /\ job'.table = job.table /\ job'.visited = job.visited
      /\ job'.path = Append(job.path, entry) /\ job'.hole = job.hole /\ job'.at = job.at
  BY <1>1 DEF WalkInv, WalkFields, WalkNames, Keeps
<1>4. job.path \in Seq(Entries)
  BY DEF WalkInv, WalkFields
<1>5. /\ job'.path \in Seq(Entries) /\ job'.path # <<>>
      /\ Len(job'.path) = Len(job.path) + 1 /\ job'.path[Len(job.path) + 1] = entry
      /\ \A i \in 1 .. Len(job.path) : job'.path[i] = job.path[i]
      /\ Len(job.path) \in Nat
  BY <1>3, <1>4
<1>6. WalkFields'
  BY <1>3, <1>5 DEF WalkInv, WalkFields, Keeps, Tabled
<1>7. VisitedOnce'
  BY <1>3 DEF WalkInv, VisitedOnce
<1>8. job.pass = 1 => FirstReading'
  <2>1. SUFFICES ASSUME job.pass = 1 PROVE FirstReading'
    OBVIOUS
  <2>2. /\ job.result = "none" /\ Len(job.path) < Depth(job.regs.la57)
        /\ \A i \in 1 .. Len(job.path) : Leads(job.path[i])
    BY <1>2, <2>1 DEF WalkInv, FirstReading
  <2>3. Depth(job.regs.la57) \in Nat
    BY DEF Depth
  <2>4. \A i \in 1 .. Len(job'.path) - 1 : Leads(job'.path[i])
    BY <1>5, <2>2
  <2>5. Len(job'.path) <= Depth(job'.regs.la57)
    BY <1>3, <1>5, <2>2, <2>3 DEF Keeps
  <2>6. QED
    BY <1>3, <1>5, <2>2, <2>4, <2>5 DEF FirstReading
<1>9. job.pass = 2 => SecondReading'
  <2>1. SUFFICES ASSUME job.pass = 2 PROVE SecondReading'
    OBVIOUS
  <2>2. /\ Len(job.path) < Len(job.hole) /\ job.result = "NotPresent" /\ IsHole(job.regs.la57, job.hole, job.at)
        /\ ~job.running => \A i \in 1 .. Len(job.path) : job.path[i] = job.hole[i]
    BY <1>2, <2>1 DEF WalkInv, SecondReading
  <2>3. ~job.running => entry = job.hole[Len(job.path) + 1]
    BY <1>1, <2>1 DEF Pages!Again
  <2>4. ~job.running => \A i \in 1 .. Len(job'.path) : job'.path[i] = job.hole[i]
    <3>1. ASSUME ~job.running, NEW i \in 1 .. Len(job.path) + 1 PROVE job'.path[i] = job.hole[i]
      <4>1. CASE i = Len(job.path) + 1
        BY <1>5, <2>3, <3>1, <4>1
      <4>2. CASE i \in 1 .. Len(job.path)
        BY <1>5, <2>2, <3>1, <4>2
      <4>3. QED
        BY <1>5, <4>1, <4>2
    <3>2. QED
      BY <1>5, <3>1
  <2>5. Len(job.hole) \in Nat
    BY DEF WalkInv, WalkFields
  <2>6. Len(job'.path) <= Len(job'.hole)
    BY <1>3, <1>5, <2>2, <2>5
  <2>7. IsHole(job.regs.la57, job.hole, job.at)'
    BY <1>3, <2>2 DEF IsHole, Keeps
  <2>8. QED
    BY <1>3, <1>5, <2>2, <2>4, <2>6, <2>7 DEF SecondReading, Keeps
<1>10. WalkEnds'
  BY <1>3 DEF WalkEnds
<1>11. QED
  BY <1>3, <1>6, <1>7, <1>8, <1>9, <1>10 DEF WalkInv

LEMMA ReadFailsKeeps == WalkInv /\ Pages!ReadFails => WalkInv'
<1> SUFFICES ASSUME WalkInv, Pages!ReadFails PROVE WalkInv'
  OBVIOUS
<1>1. Pages!End("Memory") /\ job.pc = "read"
  BY DEF Pages!ReadFails
<1>2. "Memory" \notin Refused \cup {"ok", "Explained"}
  BY DEF Refused
<1>3. QED
  BY <1>1, <1>2, WalkFails

LEMMA ExplainKeeps == WalkInv /\ Pages!Explain => WalkInv'
<1> SUFFICES ASSUME WalkInv, Pages!Explain PROVE WalkInv'
  OBVIOUS
<1>1. /\ job.pc = "hole"
      /\ job' = [job EXCEPT !.pc = "table", !.pass = 2, !.table = job.regs.cr3,
                            !.visited = <<>>, !.hole = job.path, !.path = <<>>]
  BY DEF Pages!Explain
<1>2. /\ Keeps /\ job'.pass = 2 /\ job'.pc = "table" /\ job'.result = job.result
      /\ job'.table = job.regs.cr3 /\ job'.visited = <<>>
      /\ job'.path = <<>> /\ job'.hole = job.path /\ job'.at = job.at
  BY <1>1 DEF WalkInv, WalkFields, WalkNames, Keeps
<1>3. job.path \in Seq(Entries) /\ job.regs.cr3 \in Tabled
  BY DEF WalkInv, WalkFields
<1>4. job.pass = 1 /\ job.result = "NotPresent" /\ IsHole(job.regs.la57, job.path, job.at)
  BY <1>1 DEF WalkInv, WalkFields, FirstReading, SecondReading
<1>5. WalkFields'
  BY <1>2, <1>3 DEF WalkInv, WalkFields, Keeps, Tabled
<1>6. VisitedOnce'
  BY <1>2 DEF VisitedOnce
<1>7. SecondReading'
  <2>1. IsHole(job.regs.la57, job.hole, job.at)'
    BY <1>2, <1>4 DEF IsHole, Keeps
  <2>2. 0 < Len(job.path)
    BY <1>3, <1>4 DEF IsHole
  <2>3. QED
    BY <1>2, <1>4, <2>1, <2>2 DEF SecondReading, Keeps
<1>8. WalkEnds'
  BY <1>2 DEF WalkEnds
<1>9. QED
  BY <1>2, <1>5, <1>6, <1>7, <1>8 DEF WalkInv

LEMMA RetraceKeeps == WalkInv /\ Pages!Retrace => WalkInv'
<1> SUFFICES ASSUME WalkInv, Pages!Retrace PROVE WalkInv'
  OBVIOUS
<1>1. job.pc = "look" /\ job.pass = 2
  BY DEF Pages!Retrace
<1> DEFINE n == Len(job.path)
<1> DEFINE m == Len(job.hole)
<1> DEFINE L == Pages!Levels(job.regs.la57)
<1>2. /\ job.path \in Seq(Entries) /\ job.hole \in Seq(Entries) /\ job.regs.la57 \in BOOLEAN
      /\ n \in Nat /\ m \in Nat
  BY DEF WalkInv, WalkFields
<1>3. /\ job.path # <<>> /\ n <= m /\ job.result = "NotPresent"
      /\ ~job.running => \A i \in 1 .. n : job.path[i] = job.hole[i]
  BY <1>1 DEF WalkInv, SecondReading
<1>4. IsHole(job.regs.la57, job.hole, job.at)
  BY <1>1 DEF WalkInv, SecondReading
<1>5. n \in 1 .. Depth(job.regs.la57) /\ m \in 1 .. Depth(job.regs.la57) /\ job.at = L[m]
  BY <1>2, <1>3, <1>4 DEF IsHole, Depth
<1>6. Pages!here = L[n]
  BY DEF Pages!here
<1>7. Pages!here = job.at <=> n = m
  BY <1>2, <1>5, <1>6, LevelsAre
<1>8. CASE n = m
  <2>1. job' = [job EXCEPT !.pc = "done", !.result = "Explained", !.path = Pages!Front(@)]
    BY <1>7, <1>8 DEF Pages!Retrace
  <2>2. /\ Keeps /\ job'.pass = job.pass /\ job'.pc = "done" /\ job'.result = "Explained"
        /\ job'.table = job.table /\ job'.visited = job.visited
        /\ job'.path = SubSeq(job.path, 1, n - 1) /\ job'.hole = job.hole
    BY <2>1 DEF WalkInv, WalkFields, WalkNames, Keeps, Pages!Front
  <2>3. job'.path \in Seq(Entries)
    BY <1>2, <1>5, <2>2
  <2>4. WalkFields'
    BY <1>1, <2>2, <2>3 DEF WalkInv, WalkFields, Keeps, Tabled
  <2>5. VisitedOnce'
    BY <2>2 DEF WalkInv, VisitedOnce
  <2>6. SecondReading'
    BY <2>2 DEF SecondReading
  <2>7. ~job.running => SubSeq(job.path, 1, n - 1) = SubSeq(job.hole, 1, m - 1)
    <3>1. SUFFICES ASSUME ~job.running PROVE SubSeq(job.path, 1, n - 1) = SubSeq(job.hole, 1, m - 1)
      OBVIOUS
    <3>2. job.path = job.hole
      BY <1>2, <1>3, <1>8, <3>1
    <3>3. QED
      BY <3>2
  <2>8. WalkEnds'
    BY <1>4, <2>2, <2>7 DEF WalkEnds, Refused, Keeps, IsHole
  <2>9. QED
    BY <1>1, <2>2, <2>4, <2>5, <2>6, <2>8 DEF WalkInv
<1>9. CASE n # m
  <2>1. job' = [job EXCEPT !.pc = "table", !.table = Pages!last.to]
    BY <1>7, <1>9 DEF Pages!Retrace
  <2>2. /\ Keeps /\ job'.pass = job.pass /\ job'.pc = "table" /\ job'.result = job.result
        /\ job'.table = Pages!last.to /\ job'.visited = job.visited
        /\ job'.path = job.path /\ job'.hole = job.hole /\ job'.at = job.at
    BY <2>1 DEF WalkInv, WalkFields, WalkNames, Keeps
  <2>3. Pages!last \in Entries
    BY <1>2, <1>3 DEF Pages!last, Pages!Last
  <2>4. WalkFields'
    BY <1>1, <2>2, <2>3 DEF WalkInv, WalkFields, Keeps, Tabled
  <2>5. VisitedOnce'
    BY <2>2 DEF WalkInv, VisitedOnce
  <2>6. SecondReading'
    <3>1. IsHole(job.regs.la57, job.hole, job.at)'
      BY <1>4, <2>2 DEF IsHole, Keeps
    <3>2. QED
      BY <1>2, <1>3, <1>9, <2>2, <3>1 DEF SecondReading, Keeps
  <2>7. WalkEnds'
    BY <2>2 DEF WalkEnds
  <2>8. QED
    BY <1>1, <2>2, <2>4, <2>5, <2>6, <2>7 DEF WalkInv
<1>10. QED
  BY <1>8, <1>9


\* What a leaf translates to, bit by bit.
LEMMA LeafIs ==
    ASSUME NEW entry \in Entries, NEW va \in VirtualAddresses, NEW level,
           \/ entry.ps /\ Pages!huge_page_allowed(level)
           \/ ~entry.ps /\ level = "Pt",
           NEW physical, physical = Pages!LeafBase(level, entry) + Pages!Offset(level, va)
    PROVE  /\ physical \in Pages!Words
           /\ \A n \in 0 .. Pages!WordBits - 1 :
                Pages!Bit(physical, n) = IF n < Pages!Level[level] /\ entry.ps
                                         THEN Pages!Bit(va, n) ELSE Pages!Bit(entry.to, n)
<1> DEFINE low == Pages!Level[level]
<1>1. low \in {0, 1, 2} /\ (entry.ps \/ low = 0)
  BY DEF Pages!Level, Pages!huge_page_allowed
<1>2. Pages!Words = 0 .. 127 /\ Pages!WordBits - 1 = 6
  <2>1. 2^7 = 128
    OBVIOUS
  <2>2. QED
    BY <2>1 DEF Pages!Words, Pages!WordBits
<1>3. entry.to \in 0 .. 127 /\ va \in 0 .. 127
  BY <1>2, EntriesAreWords, AddressesAreWords
<1>4. physical = (entry.to - (entry.to % 2^low)) + (va % 2^low)
  <2>1. CASE entry.ps
    BY <2>1 DEF Pages!LeafBase, Pages!Offset
  <2>2. CASE ~entry.ps
    <3>1. low = 0 /\ 2^0 = 1
      BY <1>1, <2>2
    <3>2. QED
      BY <2>2, <3>1 DEF Pages!LeafBase, Pages!Offset
  <2>3. QED
    BY <2>1, <2>2
<1> HIDE DEF low
<1>5. IsOffset(physical, entry.to, va, low)
  BY ONLY <1>1, <1>3, <1>4, LeafBits
<1>6. ASSUME NEW n \in 0 .. Pages!WordBits - 1
      PROVE  Pages!Bit(physical, n) = IF n < low /\ entry.ps
                                      THEN Pages!Bit(va, n) ELSE Pages!Bit(entry.to, n)
  <2>1. n \in 0 .. 6
    BY <1>2
  <2>2. Pages!Bit(physical, n) = IF n < low THEN Pages!Bit(va, n) ELSE Pages!Bit(entry.to, n)
    BY <1>5, <2>1, Zenon DEF Pages!Bit, IsOffset
  <2>3. entry.ps \/ ~(n < low)
    BY <1>1, <2>1
  <2>4. QED
    BY <2>2, <2>3, Zenon
<1>7. QED
  BY <1>2, <1>5, <1>6 DEF low, IsOffset

LEMMA LookKeeps == WalkInv /\ Pages!Look => WalkInv'
<1> SUFFICES ASSUME WalkInv, Pages!Look PROVE WalkInv'
  OBVIOUS
<1>1. job.pc = "look" /\ job.pass = 1
  BY DEF Pages!Look
<1> DEFINE n == Len(job.path)
<1> DEFINE entry == Pages!last
<1> DEFINE level == Pages!here
<1>2. /\ job.path \in Seq(Entries) /\ job.regs.la57 \in BOOLEAN /\ n \in Nat
      /\ job.va \in VirtualAddresses
  BY DEF WalkInv, WalkFields
<1>3. /\ job.path # <<>> /\ n <= Depth(job.regs.la57) /\ job.result = "none"
      /\ \A i \in 1 .. n - 1 : Leads(job.path[i])
  BY <1>1 DEF WalkInv, FirstReading
<1>4. n \in 1 .. Depth(job.regs.la57) /\ entry = job.path[n] /\ entry \in Entries
  BY <1>2, <1>3 DEF Depth, Pages!last, Pages!Last
<1>5. level = Pages!Levels(job.regs.la57)[n] /\ (level = "Pt" <=> n = Depth(job.regs.la57))
  BY <1>2, <1>4, LevelsAre DEF Pages!here
<1>6. job' = CASE entry.ps /\ ~Pages!huge_page_allowed(level) ->
                    [job EXCEPT !.pc = "done", !.result = "ReservedPageSizeBit", !.at = level]
               [] entry.ps /\ Pages!huge_page_allowed(level) -> Pages!LeafOf(entry)
               [] ~entry.ps /\ ~entry.p ->
                    [job EXCEPT !.pc = "hole", !.result = "NotPresent", !.at = level]
               [] ~entry.ps /\ entry.p /\ level = "Pt" -> Pages!LeafOf(entry)
               [] OTHER -> [job EXCEPT !.pc = "table", !.table = entry.to]
  BY Zenon DEF Pages!Look
<1> HIDE DEF entry, level
<1>a. CASE entry.ps /\ ~Pages!huge_page_allowed(level)
  <2>1. job' = [job EXCEPT !.pc = "done", !.result = "ReservedPageSizeBit", !.at = level]
    BY ONLY <1>6, <1>a
  <2>2. Pages!End("ReservedPageSizeBit") \/ job'.pc = "done"
    BY <2>1 DEF WalkInv, WalkFields, WalkNames
  <2>3. /\ Keeps /\ job'.pass = job.pass /\ job'.pc = "done" /\ job'.result = "ReservedPageSizeBit"
        /\ job'.table = job.table /\ job'.visited = job.visited
        /\ job'.path = job.path /\ job'.hole = job.hole
    BY <2>1 DEF WalkInv, WalkFields, WalkNames, Keeps
  <2>4. WalkFields'
    BY <2>3 DEF WalkInv, WalkFields, Keeps, Tabled
  <2>5. VisitedOnce'
    BY <2>3 DEF WalkInv, VisitedOnce
  <2>6. WalkEnds' /\ FirstReading'
    BY <2>3 DEF WalkEnds, FirstReading, Refused
  <2>7. QED
    BY <1>1, <2>3, <2>4, <2>5, <2>6 DEF WalkInv
<1>b. ASSUME \/ entry.ps /\ Pages!huge_page_allowed(level)
             \/ ~entry.ps /\ entry.p /\ level = "Pt"
      PROVE  WalkInv'
  <2> DEFINE physical == Pages!LeafBase(level, entry) + Pages!Offset(level, job.va)
  <2> DEFINE result == IF Pages!IsRam(physical) THEN "ok" ELSE "LeafOutOfRange"
  <2>1. job' = Pages!LeafOf(entry)
    BY ONLY <1>6, <1>b
  <2>2. job' = [job EXCEPT !.pc = "done", !.at = level, !.physical = physical, !.result = result]
    BY <2>1, Zenon DEF Pages!LeafOf, level
  <2>3. /\ physical \in Pages!Words
        /\ \A k \in 0 .. Pages!WordBits - 1 :
             Pages!Bit(physical, k) = IF k < Pages!Level[level] /\ entry.ps
                                      THEN Pages!Bit(job.va, k) ELSE Pages!Bit(entry.to, k)
    BY <1>2, <1>4, <1>b, LeafIs
  <2> HIDE DEF physical
  <2>4. result = "ok" => Pages!IsRam(physical)
    OBVIOUS
  <2>5. result \notin Refused \cup {"Explained"}
    BY DEF Refused
  <2> HIDE DEF result
  <2>6. /\ Keeps /\ job'.pass = job.pass /\ job'.pc = "done" /\ job'.result = result
        /\ job'.table = job.table /\ job'.visited = job.visited
        /\ job'.path = job.path /\ job'.hole = job.hole
        /\ job'.physical = physical /\ job'.at = level
    BY <2>2 DEF WalkInv, WalkFields, WalkNames, Keeps
  <2>7. WalkFields'
    BY <2>6 DEF WalkInv, WalkFields, Keeps, Tabled
  <2>8. VisitedOnce'
    BY <2>6 DEF WalkInv, VisitedOnce
  <2>9. FirstReading'
    BY <2>6 DEF FirstReading
  <2>10. Pages!IsTranslation(job.physical)'
    <3>1. Pages!last' = entry
      BY <1>4, <2>6 DEF Pages!last, Pages!Last
    <3>2. job'.va = job.va
      BY <2>6 DEF Keeps
    <3>3. QED
      BY <2>3, <2>6, <3>1, <3>2 DEF Pages!IsTranslation, Pages!Words, Pages!WordBits, Pages!Bit
  <2>11. (entry.p \/ entry.ps) /\ (result = "ok" => Pages!IsRam(job.physical)')
    BY <1>b, <2>4, <2>6 DEF Pages!IsRam
  <2>12. WalkEnds'
    BY <1>3, <1>4, <2>5, <2>6, <2>10, <2>11 DEF WalkEnds
  <2>13. QED
    BY <1>1, <2>6, <2>7, <2>8, <2>9, <2>12 DEF WalkInv
<1>c. CASE ~entry.ps /\ ~entry.p
  <2>1. job' = [job EXCEPT !.pc = "hole", !.result = "NotPresent", !.at = level]
    BY ONLY <1>6, <1>c
  <2>2. /\ Keeps /\ job'.pass = job.pass /\ job'.pc = "hole" /\ job'.result = "NotPresent"
        /\ job'.table = job.table /\ job'.visited = job.visited
        /\ job'.path = job.path /\ job'.hole = job.hole /\ job'.at = level
    BY <2>1 DEF WalkInv, WalkFields, WalkNames, Keeps
  <2>3. WalkFields'
    BY <2>2 DEF WalkInv, WalkFields, Keeps, Tabled
  <2>4. VisitedOnce'
    BY <2>2 DEF WalkInv, VisitedOnce
  <2>5. IsHole(job.regs.la57, job.path, level)
    BY <1>3, <1>4, <1>5, <1>c DEF IsHole
  <2>6. FirstReading'
    BY <2>2, <2>5 DEF FirstReading, Keeps
  <2>7. WalkEnds'
    BY <2>2 DEF WalkEnds
  <2>8. QED
    BY <1>1, <2>2, <2>3, <2>4, <2>6, <2>7 DEF WalkInv
<1>d. CASE ~entry.ps /\ entry.p /\ level # "Pt"
  <2>1. job' = [job EXCEPT !.pc = "table", !.table = entry.to]
    BY ONLY <1>6, <1>d
  <2>2. /\ Keeps /\ job'.pass = job.pass /\ job'.pc = "table" /\ job'.result = job.result
        /\ job'.table = entry.to /\ job'.visited = job.visited
        /\ job'.path = job.path /\ job'.hole = job.hole
    BY <2>1 DEF WalkInv, WalkFields, WalkNames, Keeps
  <2>3. WalkFields'
    BY <1>4, <2>2 DEF WalkInv, WalkFields, Keeps, Tabled
  <2>4. VisitedOnce'
    BY <2>2 DEF WalkInv, VisitedOnce
  <2>5. n < Depth(job.regs.la57)
    BY <1>2, <1>3, <1>5, <1>d DEF Depth
  <2>6. \A i \in 1 .. n : Leads(job.path[i])
    <3>1. Leads(job.path[n])
      BY <1>4, <1>d DEF Leads
    <3>2. QED
      BY <1>2, <1>3, <3>1
  <2>7. FirstReading'
    BY <1>3, <2>2, <2>5, <2>6 DEF FirstReading, Keeps
  <2>8. WalkEnds'
    BY <2>2 DEF WalkEnds
  <2>9. QED
    BY <1>1, <2>2, <2>3, <2>4, <2>7, <2>8 DEF WalkInv
<1>9. QED
  BY <1>a, <1>b, <1>c, <1>d

LEMMA WalkKeeps == WalkInv /\ [Pages!Next]_job => WalkInv'
<1> SUFFICES ASSUME WalkInv, [Pages!Next]_job PROVE WalkInv'
  OBVIOUS
<1>1. CASE UNCHANGED job
  BY <1>1 DEF WalkInv, WalkFields, VisitedOnce, FirstReading, SecondReading, WalkEnds, IsHole,
     Pages!IsTranslation, Pages!IsRam, Pages!last, Pages!Last
<1>2. QED
  BY <1>1, TableKeeps, ReadKeeps, ReadFailsKeeps, LookKeeps, ExplainKeeps, RetraceKeeps
  DEF Pages!Next

LEMMA WalkShows == WalkInv => Pages!WalkIsTranslation /\ Pages!HoleIsExplained
<1> SUFFICES ASSUME WalkInv PROVE Pages!WalkIsTranslation /\ Pages!HoleIsExplained
  OBVIOUS
<1>1. /\ job.path \in Seq(Entries) /\ job.hole \in Seq(Entries) /\ job.visited \in Seq(Tabled)
      /\ WalkEnds /\ VisitedOnce
  BY DEF WalkInv, WalkFields
<1>2. ASSUME NEW s \in Seq(Entries), s # <<>>
      PROVE  /\ Pages!Last(s) = s[Len(s)] /\ Len(Pages!Front(s)) = Len(s) - 1
             /\ DOMAIN Pages!Front(s) = 1 .. Len(s) - 1
             /\ \A i \in 1 .. Len(s) - 1 : Pages!Front(s)[i] = s[i]
  <2>1. Len(s) - 1 \in Nat /\ Len(s) - 1 <= Len(s) /\ Pages!Front(s) = SubSeq(s, 0 + 1, Len(s) - 1)
    BY <1>2 DEF Pages!Front
  <2>2. IsCut(Entries, s, 0, Len(s) - 1, Pages!Front(s))
    BY <2>1, Cut, Zenon
  <2> DEFINE t == Pages!Front(s)
  <2>3. /\ t \in Seq(Entries)
        /\ 0 < Len(s) - 1 => Len(t) = (Len(s) - 1) - 0
        /\ 0 >= Len(s) - 1 => Len(t) = 0
        /\ \A i \in 1 .. (Len(s) - 1) - 0 : t[i] = s[0 + i]
    BY <2>2 DEF IsCut
  <2> HIDE DEF t
  <2>4. Len(s) \in Nat \ {0}
    BY <1>2, EmptySeq
  <2>5. Len(t) = Len(s) - 1
    BY <2>3, <2>4
  <2>6. DOMAIN t = 1 .. Len(s) - 1
    BY <2>3, <2>5
  <2>7. \A i \in 1 .. Len(s) - 1 : t[i] = s[i]
    BY <2>3, <2>4
  <2>8. Pages!Last(s) = s[Len(s)]
    BY DEF Pages!Last
  <2>9. QED
    BY <2>5, <2>6, <2>7, <2>8 DEF t
<1>3. Pages!IsInjective(job.visited) /\ \A i \in DOMAIN job.visited : Pages!IsRam(job.visited[i])
  BY <1>1 DEF VisitedOnce, Pages!IsInjective, Pages!IsRam
<1>4. Pages!WalkIsTranslation
  <2>1. ASSUME Pages!Done("ok")
        PROVE  /\ Pages!IsTranslation(job.physical) /\ Pages!IsRam(job.physical)
               /\ \A i \in DOMAIN Pages!Front(job.path) : job.path[i].p /\ ~job.path[i].ps
               /\ Pages!last.p \/ Pages!last.ps
    <3>1. /\ job.path # <<>>
          /\ Pages!IsTranslation(job.physical) /\ Pages!IsRam(job.physical)
          /\ \A i \in 1 .. Len(job.path) - 1 : Leads(job.path[i])
          /\ job.path[Len(job.path)].p \/ job.path[Len(job.path)].ps
      BY <1>1, <2>1 DEF WalkEnds, Pages!Done
    <3>2. QED
      BY <1>1, <1>2, <3>1 DEF Leads, Pages!last
  <2>2. ASSUME NEW why \in Refused, Pages!Done(why) PROVE job.path = <<>>
    BY <1>1, <2>2 DEF WalkEnds, Pages!Done
  <2>3. QED
    BY <1>3, <2>1, <2>2 DEF Pages!WalkIsTranslation, Refused
<1>5. Pages!HoleIsExplained
  <2>1. SUFFICES ASSUME Pages!Done("Explained"), ~job.running
                 PROVE  /\ job.path = Pages!Front(job.hole) /\ ~Pages!Last(job.hole).p
                        /\ \A i \in DOMAIN job.path : job.path[i].p /\ ~job.path[i].ps
    BY DEF Pages!HoleIsExplained
  <2>2. /\ job.hole # <<>> /\ ~job.hole[Len(job.hole)].p
        /\ \A i \in 1 .. Len(job.hole) - 1 : Leads(job.hole[i])
        /\ job.path = Pages!Front(job.hole)
    BY <1>1, <2>1 DEF WalkEnds, Pages!Done, Pages!Front
  <2>3. /\ Pages!Last(job.hole) = job.hole[Len(job.hole)]
        /\ DOMAIN job.path = 1 .. Len(job.hole) - 1
        /\ \A i \in 1 .. Len(job.hole) - 1 : job.path[i] = job.hole[i]
    BY <1>1, <1>2, <2>2
  <2>4. QED
    BY <2>2, <2>3 DEF Leads
<1>6. QED
  BY <1>4, <1>5
-----------------------------------------------------------------------------
(* The descriptor tables. *)

\* A descriptor that takes the next slot too; and where descriptors start.
Wide(slot) == ~slot.s /\ Tables!is_16_bytes(slot.type)
Layout(contents) ==
    CHOOSE start :
      start = [i \in 0 .. Len(contents) |->
                 \/ i = 0
                 \/ /\ i > 0
                    /\ ~(start[i - 1] /\ ~contents[i].s /\ Tables!is_16_bytes(contents[i].type))]
IsLayout(contents, start) ==
    /\ start \in [0 .. Len(contents) -> BOOLEAN]
    /\ start[0]
    /\ \A i \in 1 .. Len(contents) : start[i] <=> ~(start[i - 1] /\ Wide(contents[i]))

LEMMA LayoutIsThere ==
    ASSUME NEW contents \in Seq(Slots)
    PROVE  IsLayout(contents, Layout(contents))
<1> DEFINE n == Len(contents)
<1> DEFINE Is(f) == f = [i \in 0 .. n |->
                           \/ i = 0
                           \/ /\ i > 0
                              /\ ~(f[i - 1] /\ ~contents[i].s /\ Tables!is_16_bytes(contents[i].type))]
<1> DEFINE start == CHOOSE f : Is(f)
<1>1. Layout(contents) = start
  BY Zenon DEF Layout
<1>n. n \in Nat
  OBVIOUS
<1>2. \E f : Is(f)
  <2> DEFINE step == [i \in 1 .. n |-> [b \in BOOLEAN |-> ~(b /\ Wide(contents[i]))]]
  <2>1. step \in [1 .. n -> [BOOLEAN -> BOOLEAN]]
    OBVIOUS
  <2>2. \A i \in 1 .. n : \A b \in BOOLEAN : step[i][b] <=> ~(b /\ Wide(contents[i]))
    OBVIOUS
  <2> HIDE DEF step, n
  <2>3. PICK f : Follows(f, n, BOOLEAN, TRUE, step)
    BY <1>n, <2>1, Recursion
  <2>4. f \in [0 .. n -> BOOLEAN] /\ f[0] = TRUE /\ \A i \in 1 .. n : f[i - 1] \in BOOLEAN /\ f[i] = step[i][f[i - 1]]
    BY <1>n, <2>3 DEF Follows
  <2>5. \A i \in 1 .. n : f[i] <=> ~(f[i - 1] /\ Wide(contents[i]))
    BY <2>2, <2>4
  <2>6. \A i \in 0 .. n : f[i] \in BOOLEAN /\ (f[i] <=> (i = 0 \/ (i > 0 /\ ~(f[i - 1] /\ Wide(contents[i])))))
    BY <1>n, <2>4, <2>5
  <2>7. Is(f)
    BY <2>4, <2>6 DEF Wide
  <2> HIDE DEF Is
  <2>8. QED
    BY <2>7
<1> HIDE DEF Is
<1>3. Is(start)
  BY <1>2
<1> HIDE DEF start
<1>4. IsLayout(contents, start)
  BY <1>3, <1>n DEF Is, IsLayout, Wide
<1>5. QED
  BY <1>1, <1>4

LEMMA StartsAre ==
    Tables!Starts = {i \in 0 .. Len(job.contents) - 1 : Layout(job.contents)[i]}
BY Zenon DEF Tables!Starts, Layout

TableNames == {"kind", "contents", "readable", "index", "entries", "state"}
TableFields ==
    /\ job = [name \in TableNames |-> job[name]]
    /\ job.index \in 0 .. Len(job.contents) /\ job.readable \in 0 .. Len(job.contents)
    /\ job.state = "done" => job.index = Len(job.contents)
    /\ Len(job.entries) = job.index

GdtEntry == [is : {"null", "segment", "system", "high"}, slot : Nat, type : Nat]
GdtInv ==
    /\ TableFields
    /\ job.contents \in Seq(Slots) /\ job.entries \in Seq(GdtEntry)
    /\ \A i \in 1 .. job.index :
         /\ job.entries[i].slot = i - 1
         /\ job.entries[i].is = "high" <=> ~Layout(job.contents)[i - 1]
    /\ job.state = "reading" /\ job.index < Len(job.contents) => Layout(job.contents)[job.index]

IdtGate == [vector : Nat, p : {gate.p : gate \in Gates}, dpl : {gate.dpl : gate \in Gates}]
IdtInv ==
    /\ TableFields
    /\ job.contents \in Seq(Gates) /\ job.entries \in Seq(IdtGate)
    /\ \A i \in 1 .. job.index :
         /\ job.entries[i].vector = (IF i - 1 <= MaxVector THEN i - 1 ELSE MaxVector)
         /\ job.entries[i].p = job.contents[i].p /\ job.entries[i].dpl = job.contents[i].dpl

FieldsInv ==
    /\ job.base \in 0 .. 15 /\ job.limit \in 0 .. 7 /\ job.g \in BOOLEAN

TablesInv ==
    /\ job.kind = "gdt" => GdtInv
    /\ job.kind = "idt" => IdtInv
    /\ job.kind = "fields" => FieldsInv

LEMMA TableBegins ==
    ASSUME NEW kind \in {"gdt", "idt"}, NEW S, NEW m \in Nat, NEW contents \in [1 .. m -> S],
           NEW readable \in 0 .. Len(contents), job = Tables!Table(kind, contents, readable)
    PROVE  /\ TableFields /\ job.kind = kind /\ job.index = 0 /\ job.entries = <<>>
           /\ job.contents \in Seq(S) /\ job.contents = contents
<1>1. /\ job = [name \in TableNames |-> job[name]]
      /\ job.kind = kind /\ job.index = 0 /\ job.entries = <<>> /\ job.state = "reading"
      /\ job.contents = contents /\ job.readable = readable
  BY DEF Tables!Table, TableNames
<1>2. contents \in Seq(S) /\ Len(contents) = m
  OBVIOUS
<1>3. QED
  BY <1>1, <1>2 DEF TableFields

LEMMA TablesBegin == Tables!Init => TablesInv
<1> SUFFICES ASSUME Tables!Init PROVE TablesInv
  OBVIOUS
<1>1. CASE \E contents \in Tables!SeqOf(Slots, MaxSlots) : \E readable \in 0 .. Len(contents) :
             job = Tables!Table("gdt", contents, readable)
  <2>1. PICK contents \in Tables!SeqOf(Slots, MaxSlots) :
            \E readable \in 0 .. Len(contents) : job = Tables!Table("gdt", contents, readable)
    BY <1>1
  <2>2. PICK m \in 0 .. MaxSlots : contents \in [1 .. m -> Slots]
    BY <2>1 DEF Tables!SeqOf
  <2>3. /\ TableFields /\ job.kind = "gdt" /\ job.index = 0 /\ job.entries = <<>>
        /\ job.contents \in Seq(Slots)
    <3>1. PICK readable \in 0 .. Len(contents) : job = Tables!Table("gdt", contents, readable)
      BY <2>1
    <3>2. m \in Nat /\ "gdt" \in {"gdt", "idt"}
      BY <2>2
    <3>3. QED
      BY <2>2, <3>1, <3>2, TableBegins
  <2>4. IsLayout(job.contents, Layout(job.contents))
    BY <2>3, LayoutIsThere
  <2>5. GdtInv
    BY <2>3, <2>4 DEF GdtInv, IsLayout
  <2>6. QED
    BY <2>3, <2>5 DEF TablesInv
<1>2. CASE \E contents \in Tables!SeqOf(Gates, MaxGates) : \E readable \in 0 .. Len(contents) :
             job = Tables!Table("idt", contents, readable)
  <2>1. PICK contents \in Tables!SeqOf(Gates, MaxGates) :
            \E readable \in 0 .. Len(contents) : job = Tables!Table("idt", contents, readable)
    BY <1>2
  <2>2. PICK m \in 0 .. MaxGates : contents \in [1 .. m -> Gates]
    BY <2>1 DEF Tables!SeqOf
  <2>3. /\ TableFields /\ job.kind = "idt" /\ job.index = 0 /\ job.entries = <<>>
        /\ job.contents \in Seq(Gates)
    <3>1. PICK readable \in 0 .. Len(contents) : job = Tables!Table("idt", contents, readable)
      BY <2>1
    <3>2. m \in Nat /\ "idt" \in {"gdt", "idt"}
      BY <2>2
    <3>3. QED
      BY <2>2, <3>1, <3>2, TableBegins
  <2>4. IdtInv
    BY <2>3 DEF IdtInv
  <2>5. QED
    BY <2>3, <2>4 DEF TablesInv
<1>3. CASE Tables!Fields
  BY <1>3 DEF Tables!Fields, TablesInv, FieldsInv
<1>4. QED
  BY <1>1, <1>2, <1>3 DEF Tables!Init

\* The fields are put together by arithmetic alone.
LEMMA FieldsShow == FieldsInv => Tables!FieldsAreJoined
<1> SUFFICES ASSUME FieldsInv PROVE Tables!FieldsAreJoined
  OBVIOUS
<1> DEFINE w == Tables!Word(job.base, job.limit, job.g)
<1>1. job.base \in 0 .. 15 /\ job.limit \in 0 .. 7 /\ job.g \in BOOLEAN
  BY DEF FieldsInv
<1>2. /\ w.base_low = job.base % 4 /\ w.base_mid = (job.base \div 4) % 2 /\ w.base_high = job.base \div 8
      /\ w.limit_low = job.limit % 4 /\ w.limit_high = job.limit \div 4 /\ w.g = job.g
  BY DEF Tables!Word
<1> HIDE DEF w
<1>3. Tables!Base(w) = job.base
  BY <1>1, <1>2 DEF Tables!Base
<1>4. Tables!SystemBase(w, <<>>) = job.base
  BY <1>1, <1>3 DEF Tables!SystemBase
<1>5. Tables!Limit(w) = IF job.g THEN job.limit * 2 + 1 ELSE job.limit
  BY <1>1, <1>2 DEF Tables!Limit
<1>6. /\ Tables!Limit(w) + 1 = (job.limit + 1) * (IF job.g THEN 2 ELSE 1)
      /\ ~Tables!has_io_bitmap(Tables!Limit(w) + 1, Tables!Limit(w))
  BY <1>1, <1>5 DEF Tables!has_io_bitmap
<1>7. QED
  BY <1>3, <1>4, <1>6 DEF Tables!FieldsAreJoined, w

\* What a step that takes slots leaves alone.
LEMMA SlotsTaken ==
    ASSUME TableFields, job.kind \in {"gdt", "idt"}, NEW S, job.entries \in Seq(S),
           NEW entries \in Seq(S), job.index + Len(entries) <= Len(job.contents), Tables!TakeSlots(entries),
           job.state = "reading"
    PROVE  /\ TableFields' /\ job'.kind = job.kind /\ job'.contents = job.contents
           /\ job'.state = "reading" /\ job'.index = job.index + Len(entries)
           /\ job'.entries = job.entries \o entries /\ job'.entries \in Seq(S)
           /\ \A i \in 1 .. job.index : job'.entries[i] = job.entries[i]
           /\ \A i \in 1 .. Len(entries) : job'.entries[job.index + i] = entries[i]
<1>1. /\ job' = [name \in TableNames |-> job'[name]]
      /\ job'.kind = job.kind /\ job'.contents = job.contents /\ job'.state = job.state
      /\ job'.index = job.index + Len(entries) /\ job'.entries = job.entries \o entries
      /\ job'.readable = job.readable
  BY DEF TableFields, TableNames, Tables!TakeSlots
<1>2. job.index \in Nat /\ Len(job.entries) = job.index /\ Len(job.contents) = Len(job.contents)
  BY DEF TableFields
<1>3. /\ job.entries \o entries \in Seq(S)
      /\ Len(job.entries \o entries) = job.index + Len(entries)
      /\ \A i \in 1 .. job.index : (job.entries \o entries)[i] = job.entries[i]
      /\ \A i \in 1 .. Len(entries) : (job.entries \o entries)[job.index + i] = entries[i]
  BY <1>2
<1>4. job'.index \in 0 .. Len(job'.contents)
  BY <1>1, <1>2 DEF TableFields
<1>5. TableFields'
  BY <1>1, <1>3, <1>4 DEF TableFields
<1>6. QED
  BY <1>1, <1>3, <1>5

LEMMA TableEnds ==
    ASSUME TableFields, NEW state, Tables!Ends(state), state = "done" => job.index = Len(job.contents)
    PROVE  /\ TableFields' /\ job'.kind = job.kind /\ job'.contents = job.contents
           /\ job'.state = state /\ job'.index = job.index /\ job'.entries = job.entries
<1>1. /\ job' = [name \in TableNames |-> job'[name]]
      /\ job'.kind = job.kind /\ job'.contents = job.contents /\ job'.state = state
      /\ job'.index = job.index /\ job'.entries = job.entries /\ job'.readable = job.readable
  BY DEF TableFields, TableNames, Tables!Ends
<1>2. QED
  BY <1>1 DEF TableFields

LEMMA GdtEnds ==
    ASSUME GdtInv, NEW state, Tables!Ends(state), state \in {"done", "memory"},
           state = "done" => job.index = Len(job.contents)
    PROVE  GdtInv'
<1>1. /\ TableFields' /\ job'.kind = job.kind /\ job'.contents = job.contents
      /\ job'.state = state /\ job'.index = job.index /\ job'.entries = job.entries
  BY TableEnds DEF GdtInv
<1>2. QED
  BY <1>1 DEF GdtInv

\* One slot more, that starts a descriptor.
LEMMA OneIsTaken ==
    ASSUME GdtInv, job.kind = "gdt", job.state = "reading", job.index < Len(job.contents),
           NEW entry \in GdtEntry, entry.slot = job.index, entry.is # "high",
           ~Wide(job.contents[job.index + 1]) \/ job.index + 1 = Len(job.contents),
           Tables!TakeSlots(<<entry>>)
    PROVE  GdtInv'
<1> DEFINE start == Layout(job.contents)
<1>1. /\ TableFields /\ job.contents \in Seq(Slots) /\ job.entries \in Seq(GdtEntry)
      /\ \A i \in 1 .. job.index : /\ job.entries[i].slot = i - 1
                                   /\ job.entries[i].is = "high" <=> ~start[i - 1]
      /\ start[job.index]
  BY DEF GdtInv
<1>2. /\ <<entry>> \in Seq(GdtEntry) /\ Len(<<entry>>) = 1 /\ <<entry>>[1] = entry
      /\ job.index \in Nat /\ Len(job.contents) \in Nat
  BY <1>1 DEF TableFields
<1>3. /\ TableFields' /\ job'.contents = job.contents
      /\ job'.state = "reading" /\ job'.index = job.index + 1
      /\ job'.entries \in Seq(GdtEntry)
      /\ \A i \in 1 .. job.index : job'.entries[i] = job.entries[i]
      /\ job'.entries[job.index + 1] = entry
  <2>1. job.index + Len(<<entry>>) <= Len(job.contents)
    BY <1>2
  <2> DEFINE entries == <<entry>>
  <2>2. Tables!TakeSlots(entries) /\ entries \in Seq(GdtEntry) /\ job.index + Len(entries) <= Len(job.contents)
    BY <1>2, <2>1
  <2>3. Len(entries) = 1 /\ entries[1] = entry
    BY <1>2
  <2> HIDE DEF entries
  <2>4. /\ TableFields' /\ job'.contents = job.contents
        /\ job'.state = "reading" /\ job'.index = job.index + Len(entries)
        /\ job'.entries \in Seq(GdtEntry)
        /\ \A i \in 1 .. job.index : job'.entries[i] = job.entries[i]
        /\ \A i \in 1 .. Len(entries) : job'.entries[job.index + i] = entries[i]
    BY <1>1, <2>2, SlotsTaken
  <2>5. QED
    BY <2>3, <2>4
<1>4. IsLayout(job.contents, start)
  BY <1>1, LayoutIsThere
<1>5. start[job.index + 1] \/ job.index + 1 = Len(job.contents)
  BY <1>1, <1>2, <1>4 DEF IsLayout
<1> HIDE DEF start
<1>6. ASSUME NEW i \in 1 .. job.index + 1
      PROVE  job'.entries[i].slot = i - 1 /\ (job'.entries[i].is = "high" <=> ~start[i - 1])
  <2>1. CASE i = job.index + 1
    BY <1>1, <1>2, <1>3, <2>1
  <2>2. CASE i # job.index + 1
    <3>1. i \in 1 .. job.index
      BY <1>2, <2>2
    <3>2. QED
      BY <1>1, <1>3, <3>1
  <2>3. QED
    BY <2>1, <2>2
<1>7. QED
  BY <1>1, <1>2, <1>3, <1>5, <1>6 DEF GdtInv, start

\* A descriptor and its upper half.
LEMMA TwoAreTaken ==
    ASSUME GdtInv, job.kind = "gdt", job.state = "reading", job.index + 1 < Len(job.contents),
           NEW low \in GdtEntry, low.slot = job.index, low.is # "high",
           NEW high \in GdtEntry, high.slot = job.index + 1, high.is = "high",
           Wide(job.contents[job.index + 1]),
           Tables!TakeSlots(<<low, high>>)
    PROVE  GdtInv'
<1> DEFINE start == Layout(job.contents)
<1>1. /\ TableFields /\ job.contents \in Seq(Slots) /\ job.entries \in Seq(GdtEntry)
      /\ \A i \in 1 .. job.index : /\ job.entries[i].slot = i - 1
                                   /\ job.entries[i].is = "high" <=> ~start[i - 1]
  BY DEF GdtInv
<1>2. /\ job.index \in Nat /\ Len(job.contents) \in Nat
  BY <1>1 DEF TableFields
<1>s. start[job.index]
  BY <1>2 DEF GdtInv
<1>3. /\ TableFields' /\ job'.contents = job.contents
      /\ job'.state = "reading" /\ job'.index = job.index + 2
      /\ job'.entries \in Seq(GdtEntry)
      /\ \A i \in 1 .. job.index : job'.entries[i] = job.entries[i]
      /\ job'.entries[job.index + 1] = low /\ job'.entries[job.index + 2] = high
  <2> DEFINE entries == <<low, high>>
  <2>2. Tables!TakeSlots(entries) /\ entries \in Seq(GdtEntry) /\ job.index + Len(entries) <= Len(job.contents)
    BY <1>2
  <2>3. Len(entries) = 2 /\ entries[1] = low /\ entries[2] = high
    BY <1>2
  <2> HIDE DEF entries
  <2>4. /\ TableFields' /\ job'.contents = job.contents
        /\ job'.state = "reading" /\ job'.index = job.index + Len(entries)
        /\ job'.entries \in Seq(GdtEntry)
        /\ \A i \in 1 .. job.index : job'.entries[i] = job.entries[i]
        /\ \A i \in 1 .. Len(entries) : job'.entries[job.index + i] = entries[i]
    BY <1>1, <2>2, SlotsTaken
  <2>5. QED
    BY <2>3, <2>4
<1>4. IsLayout(job.contents, start)
  BY <1>1, LayoutIsThere
<1> HIDE DEF start
<1>5. ~start[job.index + 1]
  BY <1>s, <1>2, <1>4 DEF IsLayout
<1>6. start[job.index + 2]
  BY <1>5, <1>2, <1>4 DEF IsLayout
<1>7. ASSUME NEW i \in 1 .. job.index + 2
      PROVE  job'.entries[i].slot = i - 1 /\ (job'.entries[i].is = "high" <=> ~start[i - 1])
  <2>1. CASE i = job.index + 1
    BY <1>s, <1>2, <1>3, <2>1
  <2>2. CASE i = job.index + 2
    BY <1>5, <1>2, <1>3, <2>2
  <2>3. CASE i \in 1 .. job.index
    BY <1>1, <1>3, <2>3
  <2>4. QED
    BY <1>2, <2>1, <2>2, <2>3
<1>8. QED
  BY <1>1, <1>2, <1>3, <1>6, <1>7 DEF GdtInv, start

LEMMA SlotIs ==
    ASSUME NEW slot \in Slots
    PROVE  /\ slot.type \in Nat /\ slot.s \in BOOLEAN
           /\ slot.zero => slot.type = 0 /\ ~slot.s
<1>1. slot \in [s : BOOLEAN, type : Tables!Types, zero : BOOLEAN]
  BY SlotsAreWords
<1>2. slot.type \in Nat /\ slot.s \in BOOLEAN
  BY <1>1 DEF Tables!Types
<1>3. slot.zero => ~slot.s /\ slot.type = 0
  BY SlotsAreWords
<1>4. QED
  BY <1>2, <1>3

LEMMA GdtKeeps ==
    ASSUME HasKind, job.kind = "gdt", GdtInv, Tables!Next
    PROVE  GdtInv'
<1>1. /\ job.index \in Nat /\ Len(job.contents) \in Nat /\ job.contents \in Seq(Slots)
  BY DEF GdtInv, TableFields
<1>2. CASE Tables!End
  BY <1>2, GdtEnds DEF Tables!End
<1>3. CASE Tables!Unreadable
  BY <1>3, GdtEnds DEF Tables!Unreadable
<1>4. CASE Tables!Readable("gdt")
  <2> DEFINE slot == job.contents[job.index + 1]
  <2>0. job.index < Len(job.contents)
    BY <1>1, <1>4 DEF Tables!Readable, GdtInv, TableFields
  <2>1. job.state = "reading" /\ Tables!Here = slot /\ slot \in Slots
    BY <1>1, <1>4, <2>0 DEF Tables!Readable, Tables!Reading, Tables!Here
  <2> HIDE DEF slot
  <2>2. /\ slot.type \in Nat /\ slot.s \in BOOLEAN
        /\ slot.zero => slot.type = 0 /\ ~slot.s
    BY <2>1, SlotIs
  <2>3. CASE Tables!ReadNull
    <3> DEFINE entry == Tables!Entry("null", 0, 0)
    <3>1. Tables!TakeSlots(<<entry>>) /\ job.index = 0 /\ slot.zero
      BY <2>1, <2>3 DEF Tables!ReadNull
    <3>2. entry \in GdtEntry /\ entry.slot = job.index /\ entry.is # "high"
      BY <3>1 DEF Tables!Entry, GdtEntry
    <3>3. ~Wide(slot)
      BY <2>2, <3>1 DEF Wide, Tables!is_16_bytes
    <3> HIDE DEF entry
    <3>4. QED
      BY <2>0, <2>1, <3>1, <3>2, <3>3, OneIsTaken DEF slot
  <2>4. CASE Tables!ReadSegment
    <3> DEFINE entry == Tables!Entry("segment", job.index, slot.type)
    <3>1. Tables!TakeSlots(<<entry>>) /\ slot.s
      BY <2>1, <2>4 DEF Tables!ReadSegment
    <3>2. entry \in GdtEntry /\ entry.slot = job.index /\ entry.is # "high"
      BY <1>1, <2>2 DEF Tables!Entry, GdtEntry
    <3>3. ~Wide(slot)
      BY <3>1 DEF Wide
    <3> HIDE DEF entry
    <3>4. QED
      BY <2>0, <2>1, <3>1, <3>2, <3>3, OneIsTaken DEF slot
  <2>5. CASE Tables!ReadSystem
    <3> DEFINE low == Tables!Entry("system", job.index, slot.type)
    <3> DEFINE high == Tables!Entry("high", job.index + 1, job.index)
    <3>1. /\ low \in GdtEntry /\ low.slot = job.index /\ low.is # "high"
          /\ high \in GdtEntry /\ high.slot = job.index + 1 /\ high.is = "high"
      BY <1>1, <2>2 DEF Tables!Entry, GdtEntry
    <3>2. /\ ~slot.s
          /\ \/ ~Tables!TakesTwo(slot.type) /\ Tables!TakeSlots(<<low>>)
             \/ Tables!Ends("memory")
             \/ Tables!TakesTwo(slot.type) /\ Tables!TakeSlots(<<low, high>>)
      BY <2>1, <2>5 DEF Tables!ReadSystem
    <3>3. Tables!TakesTwo(slot.type) <=> Wide(slot) /\ job.index + 1 < Len(job.contents)
      BY <3>2 DEF Tables!TakesTwo, Wide
    <3> HIDE DEF low, high
    <3>4. CASE ~Tables!TakesTwo(slot.type) /\ Tables!TakeSlots(<<low>>)
      <4>1. ~Wide(slot) \/ job.index + 1 = Len(job.contents)
        BY <1>1, <2>0, <3>3, <3>4
      <4>2. QED
        BY <2>0, <2>1, <3>1, <3>4, <4>1, OneIsTaken DEF slot
    <3>5. CASE Tables!Ends("memory")
      BY <3>5, GdtEnds
    <3>6. CASE Tables!TakesTwo(slot.type) /\ Tables!TakeSlots(<<low, high>>)
      BY <2>1, <3>1, <3>3, <3>6, TwoAreTaken DEF slot
    <3>7. QED
      BY <3>2, <3>4, <3>5, <3>6
  <2>6. QED
    BY <1>2, <1>3, <2>3, <2>4, <2>5 DEF Tables!Next, Tables!ReadGate, Tables!Readable, Tables!Reading
<1>5. QED
  BY <1>2, <1>3, <1>4 DEF Tables!Next, Tables!ReadNull, Tables!ReadSegment, Tables!ReadSystem,
                          Tables!ReadGate, Tables!Readable, Tables!Reading

LEMMA IdtKeeps ==
    ASSUME HasKind, job.kind = "idt", IdtInv, Tables!Next
    PROVE  IdtInv'
<1>1. /\ job.index \in Nat /\ Len(job.contents) \in Nat /\ TableFields
      /\ job.contents \in Seq(Gates) /\ job.entries \in Seq(IdtGate)
  BY DEF IdtInv, TableFields
<1>2. CASE \E state : Tables!Ends(state) /\ (state = "done" => job.index = Len(job.contents))
  <2>1. PICK state : Tables!Ends(state) /\ (state = "done" => job.index = Len(job.contents))
    BY <1>2
  <2>2. /\ TableFields' /\ job'.kind = job.kind /\ job'.contents = job.contents
        /\ job'.state = state /\ job'.index = job.index /\ job'.entries = job.entries
    BY <1>1, <2>1, TableEnds
  <2>3. QED
    BY <2>2 DEF IdtInv
<1>3. CASE Tables!ReadGate
  <2> DEFINE gate == job.contents[job.index + 1]
  <2> DEFINE entry == [vector |-> IF job.index <= MaxVector THEN job.index ELSE MaxVector,
                       p |-> gate.p, dpl |-> gate.dpl]
  <2> DEFINE entries == <<entry>>
  <2>1. job.index < Len(job.contents) /\ job.state = "reading"
    BY <1>1, <1>3 DEF Tables!ReadGate, Tables!Readable, Tables!Reading, TableFields
  <2>2. gate \in Gates
    BY <1>1, <2>1
  <2>3. Tables!TakeSlots(entries) \/ Tables!Ends("type")
    BY <1>3 DEF Tables!ReadGate, Tables!Here
  <2>4. entries \in Seq(IdtGate) /\ Len(entries) = 1 /\ entries[1] = entry
    <3>1. entry.vector \in Nat /\ entry.p \in {g.p : g \in Gates} /\ entry.dpl \in {g.dpl : g \in Gates}
      BY <1>1, <2>2, VectorsAreNumbers
    <3>2. entry \in IdtGate
      BY <3>1 DEF IdtGate
    <3> HIDE DEF entry
    <3>3. QED
      BY <3>2
  <2>5. /\ entry.vector = IF job.index <= MaxVector THEN job.index ELSE MaxVector
        /\ entry.p = job.contents[job.index + 1].p /\ entry.dpl = job.contents[job.index + 1].dpl
    OBVIOUS
  <2> HIDE DEF entry, entries, gate
  <2>6. CASE Tables!TakeSlots(entries)
    <3>1. job.index + Len(entries) <= Len(job.contents)
      BY <1>1, <2>1, <2>4
    <3>2. /\ TableFields' /\ job'.contents = job.contents
          /\ job'.state = "reading" /\ job'.index = job.index + 1
          /\ job'.entries \in Seq(IdtGate)
          /\ \A i \in 1 .. job.index : job'.entries[i] = job.entries[i]
          /\ \A i \in 1 .. Len(entries) : job'.entries[job.index + i] = entries[i]
      BY <1>1, <2>1, <2>4, <2>6, <3>1, SlotsTaken
    <3>3. job'.entries[job.index + 1] = entry
      BY <2>4, <3>2
    <3>4. ASSUME NEW i \in 1 .. job.index + 1
          PROVE  /\ job'.entries[i].vector = (IF i - 1 <= MaxVector THEN i - 1 ELSE MaxVector)
                 /\ job'.entries[i].p = job.contents[i].p /\ job'.entries[i].dpl = job.contents[i].dpl
      <4>1. CASE i = job.index + 1
        <5>1. i - 1 = job.index
          BY <1>1, <4>1
        <5>2. QED
          BY <2>5, <3>3, <4>1, <5>1
      <4>2. CASE i # job.index + 1
        <5>1. i \in 1 .. job.index
          BY <1>1, <4>2
        <5>2. QED
          BY <3>2, <5>1 DEF IdtInv
      <4>3. QED
        BY <4>1, <4>2
    <3>5. QED
      BY <1>1, <3>2, <3>4 DEF IdtInv
  <2>7. QED
    BY <1>2, <2>3, <2>6
<1>4. QED
  BY <1>2, <1>3 DEF Tables!Next, Tables!End, Tables!Unreadable, Tables!ReadNull, Tables!ReadSegment,
                    Tables!ReadSystem, Tables!Readable, Tables!Reading

LEMMA TablesKeep ==
    ASSUME TablesInv, [Tables!Next]_job, HasKind, HasKind', job'.kind = job.kind
    PROVE  TablesInv'
<1>1. job.kind = "gdt" => GdtInv'
  <2>1. CASE UNCHANGED job
    BY <2>1 DEF TablesInv, GdtInv, TableFields
  <2>2. QED
    BY <2>1, GdtKeeps DEF TablesInv
<1>2. job.kind = "idt" => IdtInv'
  <2>1. CASE UNCHANGED job
    BY <2>1 DEF TablesInv, IdtInv, TableFields
  <2>2. QED
    BY <2>1, IdtKeeps DEF TablesInv
<1>3. job.kind = "fields" => FieldsInv'
  <2>1. job.kind = "fields" => UNCHANGED job
    BY TablesStep DEF Stays
  <2>2. QED
    BY <2>1 DEF TablesInv, FieldsInv
<1>4. QED
  BY <1>1, <1>2, <1>3 DEF TablesInv

LEMMA FirstIsOne ==
    ASSUME NEW i \in Nat
    PROVE  Tables!First({i}) = {job.entries[i]}
BY DEF Tables!First

LEMMA GdtShows == GdtInv /\ job.kind = "gdt" => Tables!TableIsPartition
<1> SUFFICES ASSUME GdtInv, job.kind = "gdt", job.state = "done" PROVE Tables!TableIsPartition
  BY DEF Tables!TableIsPartition
<1> DEFINE n == Len(job.contents)
<1> DEFINE start == Layout(job.contents)
<1>1. /\ job.index = n /\ n \in Nat /\ Len(job.entries) = n /\ job.entries \in Seq(GdtEntry)
      /\ \A i \in 1 .. n : job.entries[i].slot = i - 1 /\ (job.entries[i].is = "high" <=> ~start[i - 1])
  <2>1. TableFields /\ job.entries \in Seq(GdtEntry) /\ job.contents \in Seq(Slots)
    BY DEF GdtInv
  <2>2. job.index = n /\ n \in Nat /\ Len(job.entries) = n
    BY <2>1 DEF TableFields
  <2> HIDE DEF n
  <2>3. QED
    BY <2>1, <2>2 DEF GdtInv
<1>2. DOMAIN job.entries = 1 .. n
  BY <1>1
<1>3. Tables!Starts = {i \in 0 .. n - 1 : start[i]}
  BY StartsAre
<1> HIDE DEF n, start
<1>4. ASSUME NEW i \in 1 .. n
      PROVE  /\ job.entries[i].slot = i - 1
             /\ job.entries[i].is = "high" <=> (i - 1) \notin Tables!Starts
             /\ \A rpl \in 0 .. 3 : Tables!entry_for_selector((i - 1) * 8 + rpl) = {job.entries[i]}
  <2>1. i - 1 \in 0 .. n - 1
    BY <1>1
  <2>2. (i - 1) \in Tables!Starts <=> start[i - 1]
    BY <1>3, <2>1
  <2>3. ASSUME NEW rpl \in 0 .. 3
        PROVE  Tables!entry_for_selector((i - 1) * 8 + rpl) = {job.entries[i]}
    <3>1. ((i - 1) * 8 + rpl) \div 8 = i - 1
      BY <1>1
    <3>2. {k \in DOMAIN job.entries : job.entries[k].slot = i - 1} = {i}
      BY <1>1, <1>2
    <3>3. QED
      BY <1>1, <3>1, <3>2, FirstIsOne DEF Tables!entry_for_selector
  <2>4. QED
    BY <1>1, <2>2, <2>3
<1>5. ASSUME NEW entry \in Tables!tss PROVE entry.slot \in Tables!Starts
  <2>1. PICK k \in DOMAIN job.entries : job.entries[k].is = "system" /\ entry = job.entries[k]
    BY <1>5 DEF Tables!tss, Tables!First
  <2>2. start[k - 1] /\ k - 1 \in 0 .. n - 1 /\ entry.slot = k - 1
    BY <1>1, <1>2, <2>1
  <2>3. QED
    BY <1>3, <2>2
<1>6. QED
  BY <1>1, <1>2, <1>4, <1>5 DEF Tables!TableIsPartition, n

LEMMA IdtShows == IdtInv /\ job.kind = "idt" => Tables!OpenVectorsAreGates
<1> SUFFICES ASSUME IdtInv, job.kind = "idt", job.state = "done", Len(job.contents) <= MaxVector + 1
             PROVE  Tables!user_accessible_vectors =
                      {v \in 0 .. Len(job.contents) - 1 :
                         job.contents[v + 1].p /\ job.contents[v + 1].dpl = 3}
  BY Zenon DEF Tables!OpenVectorsAreGates
<1> DEFINE n == Len(job.contents)
<1>1. /\ job.index = n /\ n \in Nat /\ Len(job.entries) = n /\ job.entries \in Seq(IdtGate)
      /\ \A i \in 1 .. n : /\ job.entries[i].vector = (IF i - 1 <= MaxVector THEN i - 1 ELSE MaxVector)
                           /\ job.entries[i].p = job.contents[i].p /\ job.entries[i].dpl = job.contents[i].dpl
  <2>1. TableFields /\ job.entries \in Seq(IdtGate) /\ job.contents \in Seq(Gates)
    BY DEF IdtInv
  <2>2. job.index = n /\ n \in Nat /\ Len(job.entries) = n
    BY <2>1 DEF TableFields
  <2> HIDE DEF n
  <2>3. QED
    BY <2>1, <2>2 DEF IdtInv
<1>2. DOMAIN job.entries = 1 .. n
  BY <1>1
<1>3. \A i \in 1 .. n : job.entries[i].vector = i - 1
  BY <1>1, VectorsAreNumbers
<1> HIDE DEF n
<1>4. Tables!user_accessible_vectors =
        {job.entries[i].vector : i \in {k \in 1 .. n : job.contents[k].p /\ job.contents[k].dpl = 3}}
  <2>1. {k \in DOMAIN job.entries : job.entries[k].p /\ job.entries[k].dpl = 3}
          = {k \in 1 .. n : job.contents[k].p /\ job.contents[k].dpl = 3}
    BY <1>1, <1>2
  <2>2. QED
    BY <2>1 DEF Tables!user_accessible_vectors
<1>5. ASSUME NEW v \in Tables!user_accessible_vectors
      PROVE  v \in 0 .. n - 1 /\ job.contents[v + 1].p /\ job.contents[v + 1].dpl = 3
  <2>1. PICK i \in 1 .. n : job.contents[i].p /\ job.contents[i].dpl = 3 /\ v = job.entries[i].vector
    BY <1>4, <1>5
  <2>2. v = i - 1 /\ v + 1 = i
    BY <1>1, <1>3, <2>1
  <2>3. QED
    BY <1>1, <2>1, <2>2
<1>6. ASSUME NEW v \in 0 .. n - 1, job.contents[v + 1].p, job.contents[v + 1].dpl = 3
      PROVE  v \in Tables!user_accessible_vectors
  <2>1. v + 1 \in 1 .. n /\ job.entries[v + 1].vector = v
    BY <1>1, <1>3
  <2>2. QED
    BY <1>4, <1>6, <2>1
<1>7. QED
  BY <1>5, <1>6 DEF n

LEMMA TablesShow == TablesInv => Tables!TablesAreRead
<1> SUFFICES ASSUME TablesInv PROVE Tables!TablesAreRead
  OBVIOUS
<1>1. Tables!TableIsPartition
  <2>1. CASE job.kind = "gdt"
    BY <2>1, GdtShows DEF TablesInv
  <2>2. QED
    BY <2>1 DEF Tables!TableIsPartition
<1>2. Tables!OpenVectorsAreGates
  <2>1. CASE job.kind = "idt"
    BY <2>1, IdtShows DEF TablesInv
  <2>2. QED
    BY <2>1 DEF Tables!OpenVectorsAreGates
<1>3. Tables!FieldsAreJoined
  <2>1. CASE job.kind = "fields"
    BY <2>1, FieldsShow DEF TablesInv
  <2>2. QED
    BY <2>1 DEF Tables!FieldsAreJoined
<1>4. QED
  BY <1>1, <1>2, <1>3 DEF Tables!TablesAreRead
-----------------------------------------------------------------------------
(* What is made of the texts of the monitor. *)

\* The numbers at which the things of a row start, by their sizes.
IsRow(sizes, starts) ==
    /\ starts \in [1 .. Len(sizes) -> Nat]
    /\ Len(sizes) > 0 => starts[1] = 0
    /\ \A i \in 2 .. Len(sizes) : starts[i] = starts[i - 1] + sizes[i - 1]

LEMMA RowIsThere ==
    ASSUME NEW sizes \in Seq(Nat)
    PROVE  IsRow(sizes, Monitor!Starts(sizes))
<1> DEFINE n == Len(sizes)
<1> DEFINE Is(f) == f = [i \in 1 .. n |-> IF i = 1 THEN 0 ELSE f[i - 1] + sizes[i - 1]]
<1> DEFINE starts == CHOOSE f : Is(f)
<1>1. Monitor!Starts(sizes) = starts
  BY Zenon DEF Monitor!Starts
<1>n. n \in Nat /\ \A i \in 1 .. n : sizes[i] \in Nat
  OBVIOUS
<1>2. \E f : Is(f)
  <2> DEFINE step == [i \in 1 .. n |-> [b \in Nat |-> b + sizes[i]]]
  <2>1. step \in [1 .. n -> [Nat -> Nat]] /\ \A i \in 1 .. n : \A b \in Nat : step[i][b] = b + sizes[i]
    BY <1>n
  <2> HIDE DEF step, n
  <2>2. PICK f : Follows(f, n, Nat, 0, step)
    BY <1>n, <2>1, Recursion
  <2>3. f \in [0 .. n -> Nat] /\ f[0] = 0 /\ \A i \in 1 .. n : f[i] = f[i - 1] + sizes[i]
    <3>1. f \in [0 .. n -> Nat] /\ f[0] = 0 /\ \A i \in 1 .. n : f[i] = step[i][f[i - 1]]
      BY <2>2 DEF Follows
    <3>2. \A i \in 1 .. n : f[i - 1] \in Nat
      BY <1>n, <3>1
    <3>3. QED
      BY <2>1, <3>1, <3>2
  <2> DEFINE g == [i \in 1 .. n |-> f[i - 1]]
  <2>4. ASSUME NEW i \in 1 .. n PROVE g[i] = IF i = 1 THEN 0 ELSE g[i - 1] + sizes[i - 1]
    <3>1. CASE i = 1
      BY <2>3, <3>1
    <3>2. CASE i # 1
      <4>1. i - 1 \in 1 .. n /\ f[i - 1] = f[(i - 1) - 1] + sizes[i - 1]
        BY <1>n, <2>3, <3>2
      <4>2. QED
        BY <3>2, <4>1
    <3>3. QED
      BY <3>1, <3>2
  <2>5. Is(g)
    BY <2>4
  <2> HIDE DEF Is, g
  <2>6. QED
    BY <2>5
<1> HIDE DEF Is
<1>3. Is(starts)
  BY <1>2
<1> HIDE DEF starts
<1>4. starts = [i \in 1 .. n |-> IF i = 1 THEN 0 ELSE starts[i - 1] + sizes[i - 1]]
  BY <1>3 DEF Is
<1>s. /\ n > 0 => starts[1] = 0
      /\ \A i \in 2 .. n : starts[i] = starts[i - 1] + sizes[i - 1]
  BY <1>4, <1>n
<1> DEFINE S == {k \in 0 .. n : \A i \in 1 .. k : starts[i] \in Nat}
<1>5. ASSUME NEW k \in 0 .. n - 1, k \in S PROVE k + 1 \in S
  <2>1. starts[k + 1] \in Nat
    <3>1. CASE k = 0
      BY <1>n, <1>s, <3>1
    <3>2. CASE k > 0
      <4>1. k + 1 \in 2 .. n /\ (k + 1) - 1 = k /\ k \in 1 .. k
        BY <1>n, <3>2
      <4>2. starts[k] \in Nat /\ sizes[k] \in Nat
        BY <1>5, <1>n, <4>1
      <4>3. QED
        BY <1>s, <4>1, <4>2
    <3>3. QED
      BY <3>1, <3>2
  <2>2. \A i \in 1 .. k + 1 : i = k + 1 \/ i \in 1 .. k
    OBVIOUS
  <2>3. QED
    BY <1>5, <1>n, <2>1, <2>2
<1>6. n \in S
  <2>1. 0 \in S
    BY <1>n
  <2> HIDE DEF S, n
  <2>2. \A k \in 0 .. n - 1 : k \in S => k + 1 \in S
    BY <1>5
  <2>3. \A k \in 0 .. n : k \in S
    BY <1>n, <2>1, <2>2, Induction
  <2>4. QED
    BY <1>n, <2>3
<1>7. starts \in [1 .. n -> Nat]
  BY <1>4, <1>6
<1>8. QED
  BY <1>1, <1>7, <1>s DEF IsRow

\* A line is one that its report has; what is bad about it is one of its checks.
LEMMA ChecksAre ==
    ASSUME NEW report \in Monitor!Reports
    PROVE  /\ Len(Monitor!Checks[report]) \in Nat \ {0}
           /\ DOMAIN Monitor!Checks[report] = 1 .. Len(Monitor!Checks[report])
<1>1. report \in {"mem", "tlb", "cpus", "registers"}
  BY DEF Monitor!Reports, Monitor!Checks
<1>2. CASE report = "mem"
  BY <1>2 DEF Monitor!Checks, Monitor!MemChecks
<1>3. CASE report = "tlb"
  BY <1>3 DEF Monitor!Checks, Monitor!TlbChecks
<1>4. CASE report = "cpus"
  BY <1>4 DEF Monitor!Checks, Monitor!CpuChecks
<1>5. CASE report = "registers"
  BY <1>5 DEF Monitor!Checks, Monitor!RegisterChecks
<1>6. QED
  BY <1>1, <1>2, <1>3, <1>4, <1>5

Plain == {"good", "blank", "ignorable"}
LEMMA LineIs ==
    ASSUME NEW report \in Monitor!Reports, NEW l \in Monitor!Lines(report)
    PROVE  /\ l.size \in Nat /\ l.is \in Plain \cup {"bad", "off", "short"}
           /\ l.is = "bad" => /\ l.fails # {}
                              /\ \A c \in l.fails : \E i \in 1 .. Len(Monitor!Checks[report]) :
                                                      Monitor!Checks[report][i] = c
<1> DEFINE checks == Monitor!Checks[report]
<1>1. Len(checks) \in Nat \ {0} /\ DOMAIN checks = 1 .. Len(checks)
  BY ChecksAre
<1>2. Monitor!ToSet(checks) = {checks[i] : i \in 1 .. Len(checks)} /\ Monitor!ToSet(checks) # {}
  <2> HIDE DEF checks
  <2>1. Monitor!ToSet(checks) = {checks[i] : i \in 1 .. Len(checks)}
    BY <1>1 DEF Monitor!ToSet
  <2>2. 1 \in 1 .. Len(checks)
    BY <1>1
  <2>3. checks[1] \in Monitor!ToSet(checks)
    BY <2>1, <2>2
  <2>4. QED
    BY <2>1, <2>3
<1> DEFINE Fails == {{c} : c \in Monitor!ToSet(checks)} \cup {Monitor!ToSet(checks)}
<1>3. ASSUME NEW fails \in Fails
      PROVE  fails # {} /\ \A c \in fails : \E i \in 1 .. Len(checks) : checks[i] = c
  BY <1>2
<1>4. \/ l = [is |-> "good", fails |-> {}, size |-> 2]
      \/ l = [is |-> "blank", fails |-> {}, size |-> 1]
      \/ \E fails \in Fails : l = [is |-> "bad", fails |-> fails, size |-> 3]
      \/ l = [is |-> "off", fails |-> {}, size |-> 2]
      \/ l = [is |-> "ignorable", fails |-> {}, size |-> 2]
      \/ l = [is |-> "short", fails |-> {}, size |-> 2]
  BY DEF Monitor!Lines, Monitor!Good
<1> HIDE DEF Fails, checks
<1>5. QED
  BY <1>3, <1>4 DEF Plain, checks

LEMMA FirstIsFailed ==
    ASSUME NEW report \in Monitor!Reports, NEW fails, fails # {},
           \A c \in fails : \E i \in 1 .. Len(Monitor!Checks[report]) : Monitor!Checks[report][i] = c
    PROVE  Monitor!FirstFailed(report, fails) \in fails
<1> DEFINE checks == Monitor!Checks[report]
<1> DEFINE failed == {i \in DOMAIN checks : checks[i] \in fails}
<1> DEFINE first == CHOOSE i \in failed : \A j \in failed : i <= j
<1>1. Len(checks) \in Nat /\ DOMAIN checks = 1 .. Len(checks)
  BY ChecksAre
<1>2. failed \in SUBSET (1 .. Len(checks)) /\ failed # {}
  BY <1>1
<1>3. Monitor!FirstFailed(report, fails) = checks[first]
  BY DEF Monitor!FirstFailed
<1>4. \A i \in failed : checks[i] \in fails
  OBVIOUS
<1> HIDE DEF checks, failed
<1>5. \E i \in failed : \A j \in failed : i <= j
  BY <1>1, <1>2, LeastIsThere
<1>6. first \in failed
  BY <1>5
<1>7. QED
  BY <1>3, <1>4, <1>6

\* The entries that are made of the lines before one of a text.
IsTaken(text, line, entries) ==
    /\ entries \in Seq(Nat)
    /\ \A k \in 1 .. Len(entries) : entries[k] \in 1 .. line - 1 /\ text[entries[k]].is = "good"
    /\ \A i \in 1 .. line - 1 : text[i].is = "good" => \E k \in 1 .. Len(entries) : entries[k] = i
    /\ \A i, k \in 1 .. Len(entries) : i < k => entries[i] < entries[k]

LEMMA NothingIsTaken ==
    ASSUME NEW text
    PROVE  IsTaken(text, 1, <<>>)
BY DEF IsTaken

LEMMA LineIsTaken ==
    ASSUME NEW text, NEW line \in Nat \ {0}, NEW entries, IsTaken(text, line, entries),
           text[line].is = "good"
    PROVE  IsTaken(text, line + 1, Append(entries, line))
<1> DEFINE more == Append(entries, line)
<1> DEFINE n == Len(entries)
<1>1. /\ entries \in Seq(Nat) /\ n \in Nat
      /\ \A k \in 1 .. n : entries[k] \in 1 .. line - 1 /\ text[entries[k]].is = "good"
      /\ \A i \in 1 .. line - 1 : text[i].is = "good" => \E k \in 1 .. n : entries[k] = i
      /\ \A i, k \in 1 .. n : i < k => entries[i] < entries[k]
  BY DEF IsTaken
<1>2. /\ more \in Seq(Nat) /\ Len(more) = n + 1 /\ more[n + 1] = line
      /\ \A k \in 1 .. n : more[k] = entries[k]
  BY <1>1
<1> HIDE DEF more, n
<1>3. ASSUME NEW k \in 1 .. n + 1
      PROVE  more[k] \in 1 .. (line + 1) - 1 /\ text[more[k]].is = "good"
  <2>1. CASE k = n + 1
    BY <1>2, <2>1
  <2>2. CASE k \in 1 .. n
    <3>1. more[k] = entries[k] /\ entries[k] \in 1 .. line - 1 /\ text[entries[k]].is = "good"
      BY <1>1, <1>2, <2>2
    <3>2. QED
      BY <3>1
  <2>3. QED
    BY <1>1, <2>1, <2>2
<1>4. ASSUME NEW i \in 1 .. (line + 1) - 1, text[i].is = "good"
      PROVE  \E k \in 1 .. n + 1 : more[k] = i
  <2>1. CASE i = line
    BY <1>1, <1>2, <2>1
  <2>2. CASE i # line
    <3>1. i \in 1 .. line - 1
      BY <2>2
    <3>2. PICK k \in 1 .. n : entries[k] = i
      BY <1>1, <1>4, <3>1
    <3>3. QED
      BY <1>1, <1>2, <3>2
  <2>3. QED
    BY <2>1, <2>2
<1>5. ASSUME NEW i \in 1 .. n + 1, NEW k \in 1 .. n + 1, i < k PROVE more[i] < more[k]
  <2>1. i \in 1 .. n /\ more[i] = entries[i] /\ entries[i] \in 1 .. line - 1
    BY <1>1, <1>2, <1>5
  <2>2. CASE k = n + 1
    BY <1>2, <2>1, <2>2
  <2>3. CASE k \in 1 .. n
    BY <1>1, <1>2, <1>5, <2>1, <2>3
  <2>4. QED
    BY <1>1, <2>2, <2>3
<1>6. QED
  BY <1>2, <1>3, <1>4, <1>5 DEF IsTaken, more

LEMMA LineIsSkipped ==
    ASSUME NEW text, NEW line \in Nat \ {0}, NEW entries, IsTaken(text, line, entries),
           text[line].is # "good"
    PROVE  IsTaken(text, line + 1, entries)
<1>1. \A i \in 1 .. (line + 1) - 1 : i = line \/ i \in 1 .. line - 1
  OBVIOUS
<1>2. 1 .. line - 1 \subseteq 1 .. (line + 1) - 1
  OBVIOUS
<1>3. QED
  BY <1>1, <1>2 DEF IsTaken

Sizes(text) == [i \in DOMAIN text |-> text[i].size]
ReportNames == {"kind", "report", "text", "line", "offset", "entries", "error", "state"}
ReportInv ==
    /\ job = [name \in ReportNames |-> job[name]]
    /\ job.report \in Monitor!Reports /\ job.text \in Seq(Monitor!Lines(job.report))
    /\ job.line \in 1 .. Len(job.text) + 1
    /\ \A i \in 1 .. job.line - 1 : job.text[i].is \in Plain
    /\ job.state = "reading" =>
         /\ job.line <= Len(job.text) => job.offset = Monitor!Starts(Sizes(job.text))[job.line]
         /\ IsTaken(job.text, job.line, job.entries)
    /\ job.state = "done" =>
         \/ job.line = Len(job.text) + 1 /\ IsTaken(job.text, job.line, job.entries)
         \/ job.line <= Len(job.text) /\ job.text[job.line].is = "off"
    /\ job.state = "failed" =>
         /\ job.line <= Len(job.text) /\ job.text[job.line].is = "bad"
         /\ job.error.line = job.line
         /\ job.error.offset = Monitor!Starts(Sizes(job.text))[job.line]
         /\ job.error.check \in job.text[job.line].fails

LEMMA TextIsRow ==
    ASSUME NEW report \in Monitor!Reports, NEW text \in Seq(Monitor!Lines(report))
    PROVE  Len(Sizes(text)) = Len(text) /\ IsRow(Sizes(text), Monitor!Starts(Sizes(text)))
<1> DEFINE sizes == Sizes(text)
<1>1. \A i \in 1 .. Len(text) : text[i].size \in Nat
  <2>1. \A i \in 1 .. Len(text) : text[i] \in Monitor!Lines(report)
    OBVIOUS
  <2>2. QED
    BY <2>1, LineIs
<1>2. sizes = [i \in 1 .. Len(text) |-> text[i].size] /\ Len(text) \in Nat
  BY DEF Sizes
<1> HIDE DEF sizes
<1>3. sizes \in Seq(Nat) /\ Len(sizes) = Len(text)
  BY <1>1, <1>2
<1>4. IsRow(sizes, Monitor!Starts(sizes))
  BY <1>3, RowIsThere
<1>5. QED
  BY <1>3, <1>4 DEF sizes

LEMMA ReportStarts ==
    ASSUME NEW report \in Monitor!Reports, NEW n \in Nat, NEW text \in [1 .. n -> Monitor!Lines(report)],
           job = Monitor!Report(report, text)
    PROVE  ReportInv
<1>1. /\ job = [name \in ReportNames |-> job[name]]
      /\ job.report = report /\ job.text = text /\ job.line = 1 /\ job.offset = 0
      /\ job.entries = <<>> /\ job.state = "reading"
  BY DEF Monitor!Report, ReportNames
<1>2. text \in Seq(Monitor!Lines(report)) /\ Len(text) = n
  OBVIOUS
<1>3. 1 <= n => Monitor!Starts(Sizes(text))[1] = 0
  BY <1>2, TextIsRow DEF IsRow
<1>4. IsTaken(text, 1, <<>>)
  BY NothingIsTaken
<1>5. QED
  BY <1>1, <1>2, <1>3, <1>4 DEF ReportInv

LEMMA ReportKeeps ==
    ASSUME HasKind, job.kind = "report", ReportInv, Monitor!Next
    PROVE  ReportInv'
<1>1. Monitor!ParseLine \/ Monitor!EndOfReport
  BY DEF Monitor!Next, Monitor!NoMonitor, Monitor!Ask, Monitor!Answered
<1>2. CASE Monitor!EndOfReport
  <2>1. job.state = "reading" /\ job.line > Len(job.text) /\ job' = [job EXCEPT !.state = "done"]
    BY <1>2 DEF Monitor!EndOfReport
  <2>2. /\ job' = [name \in ReportNames |-> job'[name]]
        /\ job'.report = job.report /\ job'.text = job.text /\ job'.line = job.line
        /\ job'.entries = job.entries /\ job'.state = "done"
    BY <2>1 DEF ReportInv, ReportNames
  <2>3. job.line = Len(job.text) + 1 /\ IsTaken(job.text, job.line, job.entries)
    BY <2>1 DEF ReportInv
  <2>4. QED
    BY <2>2, <2>3 DEF ReportInv
<1>3. CASE Monitor!ParseLine
  <2> DEFINE l == job.text[job.line]
  <2> DEFINE starts == Monitor!Starts(Sizes(job.text))
  <2>1. /\ job = [name \in ReportNames |-> job[name]]
        /\ job.report \in Monitor!Reports /\ job.text \in Seq(Monitor!Lines(job.report))
        /\ job.state = "reading" /\ job.line \in Nat \ {0} /\ Len(job.text) \in Nat
        /\ job.line <= Len(job.text) /\ job.offset = starts[job.line]
        /\ IsTaken(job.text, job.line, job.entries)
        /\ \A i \in 1 .. job.line - 1 : job.text[i].is \in Plain
    BY <1>3 DEF ReportInv, Monitor!ParseLine
  <2>2. l \in Monitor!Lines(job.report)
    BY <2>1
  <2>3. /\ l.size \in Nat /\ l.is \in Plain \cup {"bad", "off", "short"}
        /\ l.is = "bad" => Monitor!FirstFailed(job.report, l.fails) \in l.fails
    BY <2>1, <2>2, LineIs, FirstIsFailed
  <2>4. job.line < Len(job.text) => starts[job.line + 1] = job.offset + l.size
    <3>1. Len(Sizes(job.text)) = Len(job.text) /\ IsRow(Sizes(job.text), starts)
      BY <2>1, TextIsRow
    <3>2. Sizes(job.text)[job.line] = l.size
      BY <2>1 DEF Sizes
    <3> HIDE DEF starts, l
    <3>3. \A i \in 2 .. Len(job.text) : starts[i] = starts[i - 1] + Sizes(job.text)[i - 1]
      BY <3>1 DEF IsRow
    <3>4. SUFFICES ASSUME job.line < Len(job.text) PROVE starts[job.line + 1] = job.offset + l.size
      OBVIOUS
    <3>5. job.line + 1 \in 2 .. Len(job.text) /\ (job.line + 1) - 1 = job.line
      BY <2>1, <3>4
    <3>6. QED
      BY <2>1, <3>2, <3>3, <3>5
  <2> DEFINE next == [job EXCEPT !.line = @ + 1, !.offset = job.offset + l.size]
  <2>5. /\ l.is \in {"blank", "ignorable"} => job' = next
        /\ l.is = "off" => job' = [job EXCEPT !.state = "done", !.entries = <<>>]
        /\ l.is = "short" => job' = [job EXCEPT !.state = "panicked"]
        /\ l.is = "good" => job' = [next EXCEPT !.entries = Append(@, job.line)]
        /\ l.is = "bad" => job' = [job EXCEPT !.state = "failed",
                                     !.error = [line |-> job.line, offset |-> job.offset,
                                       check |-> Monitor!FirstFailed(job.report, l.fails)]]
    BY <1>3 DEF Monitor!ParseLine, Monitor!Current, Monitor!NextOffset, Monitor!EveryLineCounts
  <2> HIDE DEF l, starts
  <2>6. CASE l.is \in Plain
    <3>1. /\ job' = [name \in ReportNames |-> job'[name]]
          /\ job'.report = job.report /\ job'.text = job.text /\ job'.state = "reading"
          /\ job'.line = job.line + 1 /\ job'.offset = job.offset + l.size
          /\ job'.entries = (IF l.is = "good" THEN Append(job.entries, job.line) ELSE job.entries)
      BY <2>1, <2>5, <2>6 DEF Plain, ReportNames
    <3>2. IsTaken(job.text, job.line + 1, job'.entries)
      BY <2>1, <3>1, LineIsTaken, LineIsSkipped DEF l
    <3>3. job.line + 1 \in 1 .. Len(job.text) + 1
      BY <2>1
    <3>4. ASSUME NEW i \in 1 .. (job.line + 1) - 1 PROVE job.text[i].is \in Plain
      <4>1. i = job.line \/ i \in 1 .. job.line - 1
        BY <2>1
      <4>2. QED
        BY <2>1, <2>6, <4>1 DEF l
    <3>5. job.line + 1 <= Len(job.text) => job'.offset = starts[job.line + 1]
      BY <2>1, <2>4, <3>1
    <3>6. QED
      BY <2>1, <3>1, <3>2, <3>3, <3>4, <3>5 DEF ReportInv, starts
  <2>7. CASE l.is = "off"
    <3>1. /\ job' = [name \in ReportNames |-> job'[name]]
          /\ job'.report = job.report /\ job'.text = job.text /\ job'.line = job.line
          /\ job'.state = "done"
      BY <2>1, <2>5, <2>7 DEF ReportNames
    <3>2. QED
      BY <2>1, <2>7, <3>1 DEF ReportInv, l
  <2>8. CASE l.is = "short"
    <3>1. /\ job' = [name \in ReportNames |-> job'[name]]
          /\ job'.report = job.report /\ job'.text = job.text /\ job'.line = job.line
          /\ job'.state = "panicked"
      BY <2>1, <2>5, <2>8 DEF ReportNames
    <3>2. QED
      BY <2>1, <2>8, <3>1 DEF ReportInv
  <2>9. CASE l.is = "bad"
    <3> DEFINE error == [line |-> job.line, offset |-> job.offset,
                         check |-> Monitor!FirstFailed(job.report, l.fails)]
    <3>1. /\ error.line = job.line /\ error.offset = starts[job.line] /\ error.check \in l.fails
      BY <2>1, <2>3, <2>9
    <3>2. job' = [job EXCEPT !.state = "failed", !.error = error]
      BY <2>5, <2>9
    <3> HIDE DEF error
    <3>3. /\ job' = [name \in ReportNames |-> job'[name]]
          /\ job'.report = job.report /\ job'.text = job.text /\ job'.line = job.line
          /\ job'.state = "failed" /\ job'.error = error
      BY <2>1, <3>2 DEF ReportNames
    <3>4. QED
      BY <2>1, <2>9, <3>1, <3>3 DEF ReportInv, l, starts
  <2>10. QED
    BY <2>3, <2>6, <2>7, <2>8, <2>9
<1>4. QED
  BY <1>1, <1>2, <1>3

LEMMA ReportShows == ReportInv /\ job.kind = "report" => Monitor!NothingIsSkipped
<1> SUFFICES ASSUME ReportInv, job.kind = "report" PROVE Monitor!NothingIsSkipped
  OBVIOUS
<1> DEFINE Numbers(is) == {i \in DOMAIN job.text : job.text[i].is = is}
<1>1. /\ job.text \in Seq(Monitor!Lines(job.report)) /\ Len(job.text) \in Nat
      /\ DOMAIN job.text = 1 .. Len(job.text) /\ job.line \in 1 .. Len(job.text) + 1
      /\ \A i \in 1 .. job.line - 1 : job.text[i].is \in Plain
  BY DEF ReportInv
<1>p. "bad" \notin Plain /\ "off" \notin Plain
  BY DEF Plain
<1>n. \A is : \A i \in Numbers(is) : i \in 1 .. Len(job.text) /\ job.text[i].is = is
  BY <1>1
<1>2. ASSUME NEW is, is \notin Plain, NEW i \in Numbers(is) PROVE job.line <= i
  BY <1>1, <1>2, <1>n
<1>3. ASSUME job.state = "done"
      PROVE  /\ \A i \in Numbers("bad") : \E j \in Numbers("off") : j < i
             /\ Numbers("off") = {} =>
                  /\ Monitor!ToSet(job.entries) = Numbers("good")
                  /\ \A i, j \in DOMAIN job.entries : i < j => job.entries[i] < job.entries[j]
  <2>1. CASE job.line <= Len(job.text) /\ job.text[job.line].is = "off"
    <3>1. job.line \in Numbers("off")
      BY <1>1, <2>1
    <3>2. ASSUME NEW i \in Numbers("bad") PROVE job.line < i
      <4>1. job.line <= i /\ i # job.line
        BY <1>2, <1>p, <1>n, <2>1
      <4>2. QED
        BY <1>1, <1>n, <4>1
    <3>3. QED
      BY <3>1, <3>2
  <2>2. CASE job.line = Len(job.text) + 1 /\ IsTaken(job.text, job.line, job.entries)
    <3>1. \A i \in Numbers("bad") : FALSE
      BY <1>1, <1>2, <1>p, <1>n, <2>2
    <3>2. /\ job.entries \in Seq(Nat) /\ DOMAIN job.entries = 1 .. Len(job.entries)
          /\ \A k \in 1 .. Len(job.entries) : job.entries[k] \in 1 .. job.line - 1 /\ job.text[job.entries[k]].is = "good"
          /\ \A i \in 1 .. job.line - 1 : job.text[i].is = "good" => \E k \in 1 .. Len(job.entries) : job.entries[k] = i
          /\ \A i, j \in 1 .. Len(job.entries) : i < j => job.entries[i] < job.entries[j]
      BY <2>2 DEF IsTaken
    <3>3. 1 .. job.line - 1 = DOMAIN job.text
      BY <1>1, <2>2
    <3>4. Monitor!ToSet(job.entries) = Numbers("good")
      <4>1. Monitor!ToSet(job.entries) = {job.entries[k] : k \in 1 .. Len(job.entries)}
        BY <3>2 DEF Monitor!ToSet
      <4>2. ASSUME NEW k \in 1 .. Len(job.entries) PROVE job.entries[k] \in Numbers("good")
        BY <3>2, <3>3
      <4>3. ASSUME NEW i \in Numbers("good") PROVE \E k \in 1 .. Len(job.entries) : job.entries[k] = i
        BY <3>2, <3>3
      <4> HIDE DEF Numbers
      <4>4. QED
        BY <4>1, <4>2, <4>3
    <3>5. QED
      BY <3>1, <3>2, <3>4
  <2>3. QED
    BY <1>3, <2>1, <2>2 DEF ReportInv
<1>4. ASSUME job.state = "failed"
      PROVE  /\ job.error.line \in Numbers("bad")
             /\ \A i \in Numbers("bad") : job.error.line <= i
             /\ job.error.offset = Monitor!Starts(Sizes(job.text))[job.error.line]
             /\ job.error.check \in job.text[job.error.line].fails
  <2>1. /\ job.line <= Len(job.text) /\ job.text[job.line].is = "bad"
        /\ job.error.line = job.line
        /\ job.error.offset = Monitor!Starts(Sizes(job.text))[job.line]
        /\ job.error.check \in job.text[job.line].fails
    BY <1>4 DEF ReportInv
  <2>2. job.line \in Numbers("bad")
    BY <1>1, <2>1
  <2>3. QED
    BY <1>2, <1>p, <2>1, <2>2
<1>5. QED
  BY <1>3, <1>4, Zenon DEF Monitor!NothingIsSkipped, Sizes

\* The leaves of an info tlb.
LeavesInv == job.sizes \in Seq({1, 2, 8})

LEMMA LeavesShow == LeavesInv => Monitor!GranularityIsStride
<1> SUFFICES ASSUME LeavesInv, NEW i \in 1 .. Len(job.sizes) - 1
             PROVE  Monitor!Granularity(Monitor!Leaves(job.sizes), i) = job.sizes[i]
  BY DEF Monitor!GranularityIsStride
<1> DEFINE sizes == job.sizes
<1> DEFINE n == Len(sizes)
<1> DEFINE leaves == Monitor!Leaves(sizes)
<1> DEFINE starts == Monitor!Starts(sizes)
<1>1. sizes \in Seq({1, 2, 8}) /\ sizes \in Seq(Nat) /\ n \in Nat /\ DOMAIN sizes = 1 .. n
  BY DEF LeavesInv
<1>2. IsRow(sizes, starts)
  BY <1>1, RowIsThere
<1>3. /\ Len(leaves) = n
      /\ \A k \in 1 .. n : leaves[k].va = starts[k] /\ (leaves[k].ps <=> sizes[k] > 1)
  <2>1. leaves = [k \in 1 .. n |-> [va |-> starts[k], ps |-> sizes[k] > 1]]
    BY <1>1 DEF Monitor!Leaves
  <2> HIDE DEF leaves, starts, sizes, n
  <2>2. ASSUME NEW k \in 1 .. n PROVE leaves[k].va = starts[k] /\ (leaves[k].ps <=> sizes[k] > 1)
    <3>1. leaves[k] = [va |-> starts[k], ps |-> sizes[k] > 1]
      BY <2>1
    <3>2. leaves[k].va = starts[k]
      BY <3>1
    <3>3. leaves[k].ps = (sizes[k] > 1)
      BY <3>1
    <3>4. QED
      BY <3>2, <3>3
  <2>3. DOMAIN leaves = 1 .. n
    BY <2>1
  <2>4. Len(leaves) = n
    <3> DEFINE v(k) == [va |-> starts[k], ps |-> sizes[k] > 1]
    <3>1. leaves = [k \in 1 .. n |-> v(k)]
      BY <2>1
    <3> HIDE DEF v
    <3>2. QED
      BY <1>1, <3>1
  <2>5. QED
    BY <2>2, <2>4
<1> HIDE DEF leaves, starts
<1>4. /\ starts[i] \in Nat /\ starts[i + 1] = starts[i] + sizes[i] /\ sizes[i] \in {1, 2, 8}
      /\ i \in 1 .. n /\ i + 1 \in 1 .. n
  <2>1. i \in 1 .. n /\ i + 1 \in 2 .. n /\ (i + 1) - 1 = i
    BY <1>1
  <2>2. starts[i] \in Nat /\ starts[i + 1] = starts[(i + 1) - 1] + sizes[(i + 1) - 1]
    BY <1>2, <2>1 DEF IsRow
  <2> HIDE DEF n, sizes
  <2>3. sizes[i] \in {1, 2, 8}
    BY <1>1, <2>1
  <2>4. QED
    BY <2>1, <2>2, <2>3
<1> DEFINE later == {j \in i + 1 .. Len(leaves) : leaves[j].va > leaves[i].va}
<1> DEFINE next == CHOOSE j \in later : \A k \in later : j <= k
<1>5. Monitor!Granularity(leaves, i) =
        IF ~leaves[i].ps THEN 1
        ELSE IF later # {} /\ leaves[next].va - leaves[i].va >= 8 THEN 8 ELSE 2
  BY DEF Monitor!Granularity
<1>6. i + 1 \in later /\ \A k \in later : k \in Nat /\ i + 1 <= k
  <2>1. leaves[i + 1].va = starts[i] + sizes[i] /\ leaves[i].va = starts[i]
    BY <1>3, <1>4
  <2>2. leaves[i + 1].va > leaves[i].va
    BY <1>4, <2>1
  <2>3. QED
    BY <1>1, <1>3, <1>4, <2>2
<1> HIDE DEF later
<1>7. next = i + 1
  <2>1. \E j \in later : \A k \in later : j <= k
    BY <1>6
  <2>2. next \in later /\ \A k \in later : next <= k
    BY <2>1
  <2> HIDE DEF next
  <2>3. QED
    BY <1>6, <2>2
<1> HIDE DEF next
<1>8. leaves[next].va - leaves[i].va = sizes[i] /\ later # {} /\ (leaves[i].ps <=> sizes[i] > 1)
  BY <1>3, <1>4, <1>6, <1>7
<1>9. Monitor!Granularity(leaves, i) = sizes[i]
  BY <1>4, <1>5, <1>8
<1>10. QED
  BY <1>9 DEF leaves

\* The flags of a leaf: four columns, of a letter each.
FlagsInv == job.text \in Seq({"X", "G", "P", "D", "-"})

LEMMA FlagsShow == FlagsInv /\ job.kind = "flags" => Monitor!FlagsAreColumns
<1> SUFFICES ASSUME FlagsInv PROVE Monitor!FlagsAreColumns
  OBVIOUS
<1> DEFINE C == Monitor!Columns
<1> DEFINE text == job.text
<1> DEFINE set == Monitor!decode_tlb_flags(text)
<1> DEFINE whole == [i \in DOMAIN C |-> IF C[i] \in set THEN C[i] ELSE "-"]
<1>1. C[1] = "X" /\ C[2] = "G" /\ C[3] = "P" /\ C[4] = "D" /\ Len(C) = 4 /\ DOMAIN C = 1 .. 4
  BY DEF Monitor!Columns
<1>2. text \in Seq({"X", "G", "P", "D", "-"}) /\ Len(text) \in Nat /\ DOMAIN text = 1 .. Len(text)
  BY DEF FlagsInv
<1> DEFINE read == {C[i] : i \in {k \in DOMAIN text : text[k] # "-"}}
<1> DEFINE understood == Len(text) = Len(C) /\ \A i \in DOMAIN text : text[i] \in {C[i], "-"}
<1>3. set = IF understood THEN read ELSE {"refused"}
  BY DEF Monitor!decode_tlb_flags
<1>c. \A i \in 1 .. 4 : C[i] # "refused" /\ C[i] # "-" /\ \A k \in 1 .. 4 : C[i] = C[k] => i = k
  <2>1. \A i \in 1 .. 4 : i = 1 \/ i = 2 \/ i = 3 \/ i = 4
    OBVIOUS
  <2> HIDE DEF C
  <2>2. QED
    BY <1>1, <2>1
<1> HIDE DEF set, C
<1>4. ASSUME understood PROVE set # {"refused"} /\ text = whole
  <2>1. Len(text) = 4 /\ DOMAIN text = 1 .. 4 /\ \A i \in 1 .. 4 : text[i] \in {C[i], "-"}
    BY <1>1, <1>2, <1>4
  <2>2. set = read
    BY <1>3, <1>4
  <2>3. "refused" \notin set
    BY <1>c, <2>1, <2>2
  <2>4. \A i \in 1 .. 4 : C[i] \in set <=> text[i] # "-"
    BY <1>c, <2>1, <2>2
  <2>5. \A i \in 1 .. 4 : text[i] = IF C[i] \in set THEN C[i] ELSE "-"
    BY <1>c, <2>1, <2>4
  <2>6. text = [i \in 1 .. 4 |-> text[i]]
    <3> HIDE DEF text
    <3>1. QED
      BY <1>2, <2>1
  <2> HIDE DEF text
  <2>7. text = whole
    BY <1>1, <2>5, <2>6
  <2>8. QED
    BY <2>3, <2>7
<1>5. ASSUME ~understood PROVE set = {"refused"} /\ text # whole
  <2>1. set = {"refused"}
    BY <1>3, <1>5
  <2>2. \A i \in 1 .. 4 : C[i] \notin set
    BY <1>c, <2>1
  <2>3. SUFFICES ASSUME text = whole PROVE FALSE
    BY <2>1
  <2>4. DOMAIN text = 1 .. 4 /\ \A i \in 1 .. 4 : text[i] = "-"
    BY <1>1, <2>2, <2>3
  <2>5. Len(text) = 4
    <3> HIDE DEF text
    <3>1. QED
      BY <1>2, <2>4
  <2>6. QED
    BY <1>1, <1>5, <2>4, <2>5
<1>6. QED
  BY <1>4, <1>5 DEF Monitor!FlagsAreColumns, set, C

-----------------------------------------------------------------------------
(* The physical memory that is read with xp. *)

\* The words of an answer, and the bytes that they stand for.
IsWord(cursor, size, i, w) ==
    /\ w.address = cursor + ((i - 1) * size)
    /\ w.digits \in Seq(Nat) /\ Len(w.digits) = size
    /\ \A k \in 1 .. size : w.digits[k] = cursor + ((i * size) - k)

LEMMA PrintedIs ==
    ASSUME NEW cursor \in Nat, NEW width \in 1 .. 4, NEW size, size = Monitor!WordSize(width),
           NEW words \in 0 .. (width \div size)
    PROVE  /\ size \in {1, 2, 4} /\ words \in Nat /\ words * size <= width
           /\ DOMAIN Monitor!Printed(cursor, width, words) = 1 .. words
           /\ Monitor!Printed(cursor, width, words) = <<>> <=> words = 0
           /\ \A i \in 1 .. words : IsWord(cursor, size, i, Monitor!Printed(cursor, width, words)[i])
<1> DEFINE printed == Monitor!Printed(cursor, width, words)
<1>1. /\ width = 4 => size = 4
      /\ width = 2 => size = 2
      /\ width \in {1, 3} => size = 1
  BY DEF Monitor!WordSize
<1>2. width = 1 \/ width = 2 \/ width = 3 \/ width = 4
  OBVIOUS
<1>3. size \in {1, 2, 4} /\ words \in Nat /\ words * size <= width
  <2>1. CASE width = 4
    BY <1>1, <2>1
  <2>2. CASE width = 2
    BY <1>1, <2>2
  <2>3. CASE width \in {1, 3}
    BY <1>1, <2>3
  <2>4. QED
    BY <1>2, <2>1, <2>2, <2>3
<1> DEFINE Word(i) == [address |-> cursor + ((i - 1) * size),
                       digits |-> [k \in 1 .. size |-> cursor + ((i * size) - k)]]
<1>4. printed = [i \in 1 .. words |-> Word(i)]
  <2>1. printed = [i \in 1 .. words |->
                     [address |-> cursor + ((i - 1) * Monitor!WordSize(width)),
                      digits |-> [k \in 1 .. Monitor!WordSize(width) |->
                                    cursor + ((i * Monitor!WordSize(width)) - k)]]]
    BY Zenon DEF Monitor!Printed, Monitor!Memory
  <2>2. QED
    BY <2>1, Zenon
<1>5. ASSUME NEW i \in 1 .. words PROVE IsWord(cursor, size, i, Word(i))
  <2> DEFINE digits == [k \in 1 .. size |-> cursor + ((i * size) - k)]
  <2>1. \A k \in 1 .. size : cursor + ((i * size) - k) \in Nat
    <3>1. CASE size = 1
      BY <3>1
    <3>2. CASE size = 2
      BY <3>2
    <3>3. CASE size = 4
      BY <3>3
    <3>4. QED
      BY <1>3, <3>1, <3>2, <3>3
  <2>2. digits \in Seq(Nat) /\ Len(digits) = size
    <3> DEFINE v(k) == cursor + ((i * size) - k)
    <3>1. digits = [k \in 1 .. size |-> v(k)] /\ \A k \in 1 .. size : v(k) \in Nat
      BY <2>1
    <3>2. size \in Nat
      <4>1. size \in {1, 2, 4}
        BY <1>3
      <4>2. QED
        BY ONLY <4>1
    <3> HIDE DEF v, digits
    <3>3. QED
      BY <3>1, <3>2
  <2>3. Word(i).address = cursor + ((i - 1) * size) /\ Word(i).digits = digits
    OBVIOUS
  <2>4. \A k \in 1 .. size : digits[k] = cursor + ((i * size) - k)
    OBVIOUS
  <2> HIDE DEF Word, digits
  <2>5. QED
    BY <2>2, <2>3, <2>4 DEF IsWord
<1> HIDE DEF Word, printed
<1>6. DOMAIN printed = 1 .. words
  BY <1>4
<1>7. printed = <<>> <=> words = 0
  <2>1. words = 0 => printed = <<>>
    BY <1>4
  <2>2. words # 0 => 1 \in DOMAIN printed
    BY <1>3, <1>6
  <2>3. QED
    BY <2>1, <2>2
<1>8. QED
  BY <1>3, <1>4, <1>5, <1>6, <1>7 DEF printed

\* A word gives its part of the memory, least significant byte first.
LEMMA WordGives ==
    ASSUME NEW cursor \in Nat, NEW size \in {1, 2, 4}, NEW i \in Nat \ {0}, NEW w,
           IsWord(cursor, size, i, w), NEW a \in Nat,
           a \in w.address .. (w.address + (Len(w.digits) - 1))
    PROVE  Monitor!LittleEndian(w)[(a - w.address) + 1] = a
<1>1. /\ w.address = cursor + ((i - 1) * size)
      /\ w.digits \in Seq(Nat) /\ Len(w.digits) = size
      /\ \A k \in 1 .. size : w.digits[k] = cursor + ((i * size) - k)
  BY DEF IsWord
<1>2. (i - 1) * size \in Nat /\ i * size = ((i - 1) * size) + size
  <2>1. CASE size = 1
    BY <2>1
  <2>2. CASE size = 2
    BY <2>2
  <2>3. CASE size = 4
    BY <2>3
  <2>4. QED
    BY <2>1, <2>2, <2>3
<1> DEFINE x == (a - w.address) + 1
<1> DEFINE m == (i - 1) * size
<1> DEFINE t == i * size
<1>3. m \in Nat /\ t = m + size /\ w.address = cursor + m
  BY <1>1, <1>2
<1>d. Len(w.digits) = size /\ \A k \in 1 .. size : w.digits[k] = cursor + (t - k)
  BY <1>1
<1> HIDE DEF m, t
<1>4. x \in 1 .. size /\ (size - x) + 1 \in 1 .. size
  BY <1>1, <1>3
<1>5. Monitor!LittleEndian(w)[x] = w.digits[(size - x) + 1]
  <2>1. Monitor!LittleEndian(w) = [k \in 1 .. size |-> w.digits[(size - k) + 1]]
    BY <1>1 DEF Monitor!LittleEndian, Monitor!Reverse
  <2> HIDE DEF x
  <2>2. QED
    BY <1>4, <2>1
<1>6. w.digits[(size - x) + 1] = cursor + (t - ((size - x) + 1))
  BY <1>d, <1>4
<1>7. cursor + (t - ((size - x) + 1)) = a
  BY <1>3
<1>8. QED
  BY <1>5, <1>6, <1>7

\* What parse_monitor_xp makes of a byte.
ByteOf(printed, a) ==
    LET covering == {w \in Monitor!ToSet(printed) : a \in w.address .. (w.address + (Len(w.digits) - 1))}
    IN  IF covering = {} THEN 0
        ELSE LET w == CHOOSE w \in covering : TRUE
             IN  Monitor!LittleEndian(w)[a - w.address + 1]

\* A part of the memory, from the cursor on.
IsRead(cursor, width, parsed) ==
    \E m \in 1 .. width : parsed = [i \in 1 .. m |-> cursor + (i - 1)]

LEMMA ParsedIs ==
    ASSUME NEW cursor \in Nat, NEW width \in 1 .. 4,
           NEW words \in 0 .. (width \div Monitor!WordSize(width)),
           NEW parsed, parsed = Monitor!parse_monitor_xp(Monitor!Printed(cursor, width, words), cursor),
           parsed # <<>>
    PROVE  IsRead(cursor, width, parsed)
<1> DEFINE size == Monitor!WordSize(width)
<1> DEFINE printed == Monitor!Printed(cursor, width, words)
<1>1. /\ size \in {1, 2, 4} /\ words \in Nat /\ words * size <= width
      /\ DOMAIN printed = 1 .. words
      /\ printed = <<>> <=> words = 0
      /\ \A i \in 1 .. words : IsWord(cursor, size, i, printed[i])
  BY PrintedIs
<1> DEFINE last == {w.address + Len(w.digits) : w \in Monitor!ToSet(printed)}
<1> DEFINE end == CHOOSE e \in last : \A f \in last : e >= f
<1>2. parsed = IF printed = <<>> THEN <<>> ELSE [i \in 1 .. (end - cursor) |-> ByteOf(printed, cursor + (i - 1))]
  BY Zenon DEF Monitor!parse_monitor_xp, ByteOf
<1> HIDE DEF size, printed
<1>3. words > 0
  BY <1>1, <1>2
<1>4. Monitor!ToSet(printed) = {printed[i] : i \in 1 .. words}
  BY <1>1 DEF Monitor!ToSet
<1>5. \A i \in 1 .. words : printed[i].address = cursor + ((i - 1) * size) /\ Len(printed[i].digits) = size
  BY <1>1 DEF IsWord
<1>6. \A i \in 1 .. words : /\ (cursor + ((i - 1) * size)) + size = cursor + (i * size)
                            /\ cursor + (i * size) \in Nat /\ cursor + ((i - 1) * size) \in Nat
                            /\ cursor + (i * size) <= cursor + (words * size)
  <2>1. CASE size = 1
    BY <1>1, <2>1
  <2>2. CASE size = 2
    BY <1>1, <2>2
  <2>3. CASE size = 4
    BY <1>1, <2>3
  <2>4. QED
    BY <1>1, <2>1, <2>2, <2>3
<1>7. last = {cursor + (i * size) : i \in 1 .. words}
  <2>1. last = {printed[i].address + Len(printed[i].digits) : i \in 1 .. words}
    BY <1>4
  <2>2. \A i \in 1 .. words : printed[i].address + Len(printed[i].digits) = cursor + (i * size)
    BY <1>5, <1>6
  <2> HIDE DEF last
  <2>3. QED
    BY <2>1, <2>2
<1> DEFINE m == words * size
<1>8. end = cursor + m /\ m \in Nat
  <2>1. words \in 1 .. words
    BY <1>1, <1>3
  <2>2. cursor + m \in last /\ \A f \in last : f \in Nat /\ cursor + m >= f
    BY <1>6, <1>7, <2>1
  <2>3. m \in Nat
    <3>1. CASE size = 1
      BY <1>1, <3>1
    <3>2. CASE size = 2
      BY <1>1, <3>2
    <3>3. CASE size = 4
      BY <1>1, <3>3
    <3>4. QED
      BY <1>1, <3>1, <3>2, <3>3
  <2> HIDE DEF last, m
  <2>4. end \in last /\ \A f \in last : end >= f
    BY <2>2
  <2> HIDE DEF end
  <2>5. end >= cursor + m /\ cursor + m >= end /\ end \in Nat /\ cursor + m \in Nat
    BY <2>2, <2>3, <2>4
  <2>6. QED
    BY <2>3, <2>5
<1> HIDE DEF last, end
<1>9. m >= 1 /\ m <= width
  <2>1. CASE size = 1
    BY <1>1, <1>3, <2>1
  <2>2. CASE size = 2
    BY <1>1, <1>3, <2>2
  <2>3. CASE size = 4
    BY <1>1, <1>3, <2>3
  <2>4. QED
    BY <1>1, <2>1, <2>2, <2>3
<1>10. ASSUME NEW a \in cursor .. (cursor + m) - 1 PROVE ByteOf(printed, a) = a
  <2> DEFINE covering == {w \in Monitor!ToSet(printed) : a \in w.address .. (w.address + (Len(w.digits) - 1))}
  <2> DEFINE w == CHOOSE w \in covering : TRUE
  <2>1. ByteOf(printed, a) = IF covering = {} THEN 0 ELSE Monitor!LittleEndian(w)[a - w.address + 1]
    BY DEF ByteOf
  <2>2. \E i \in 1 .. words : a \in (cursor + ((i - 1) * size)) .. ((cursor + (i * size)) - 1)
    <3> DEFINE i == ((a - cursor) \div size) + 1
    <3>1. CASE size = 1
      <4>1. i \in 1 .. words /\ a \in (cursor + ((i - 1) * size)) .. ((cursor + (i * size)) - 1)
        BY <1>1, <1>8, <3>1
      <4>2. QED
        BY <4>1
    <3>2. CASE size = 2
      <4>1. i \in 1 .. words /\ a \in (cursor + ((i - 1) * size)) .. ((cursor + (i * size)) - 1)
        BY <1>1, <1>8, <3>2
      <4>2. QED
        BY <4>1
    <3>3. CASE size = 4
      <4>1. i \in 1 .. words /\ a \in (cursor + ((i - 1) * size)) .. ((cursor + (i * size)) - 1)
        BY <1>1, <1>8, <3>3
      <4>2. QED
        BY <4>1
    <3>4. QED
      BY <1>1, <3>1, <3>2, <3>3
  <2>3. covering # {}
    <3>1. PICK i \in 1 .. words : a \in (cursor + ((i - 1) * size)) .. ((cursor + (i * size)) - 1)
      BY <2>2
    <3>2. printed[i].address + Len(printed[i].digits) = cursor + (i * size)
      BY <1>5, <1>6
    <3>3. printed[i] \in Monitor!ToSet(printed)
      BY <1>4
    <3>4. a \in printed[i].address .. (printed[i].address + (Len(printed[i].digits) - 1))
      <4> DEFINE from == printed[i].address
      <4> DEFINE len == Len(printed[i].digits)
      <4> DEFINE to == cursor + (i * size)
      <4>1. from \in Nat /\ len \in Nat /\ to \in Nat /\ from + len = to /\ a \in from .. (to - 1)
        <5>1. from = cursor + ((i - 1) * size) /\ len = size
          BY <1>5
        <5>2. len \in Nat /\ from \in Nat /\ to \in Nat
          BY <1>1, <1>6, <5>1
        <5>3. QED
          BY <3>1, <3>2, <5>1, <5>2
      <4> HIDE DEF from, len, to
      <4>2. a \in from .. (from + (len - 1))
        BY ONLY <4>1
      <4>3. QED
        BY <4>2 DEF from, len
    <3>5. QED
      BY <3>3, <3>4
  <2>4. \A v \in covering : /\ \E i \in 1 .. words : v = printed[i]
                            /\ a \in v.address .. (v.address + (Len(v.digits) - 1))
    BY <1>4
  <2> HIDE DEF covering
  <2>5. w \in covering
    BY <2>3
  <2>6. PICK i \in 1 .. words : w = printed[i]
    BY <2>4, <2>5
  <2> HIDE DEF w
  <2>7. /\ IsWord(cursor, size, i, w) /\ i \in Nat \ {0}
        /\ a \in w.address .. (w.address + (Len(w.digits) - 1)) /\ a \in Nat
    <3>1. IsWord(cursor, size, i, w)
      BY <1>1, <2>6
    <3>2. a \in Nat /\ i \in Nat \ {0}
      BY <1>1, <1>8
    <3>3. a \in w.address .. (w.address + (Len(w.digits) - 1))
      BY <2>4, <2>5
    <3>4. QED
      BY <3>1, <3>2, <3>3
  <2>8. Monitor!LittleEndian(w)[(a - w.address) + 1] = a
    BY <1>1, <2>7, WordGives
  <2>9. QED
    BY <2>1, <2>3, <2>8
<1> HIDE DEF m
<1>11. end - cursor = m /\ \A i \in 1 .. m : cursor + (i - 1) \in cursor .. (cursor + m) - 1
  BY <1>8
<1>12. parsed = [i \in 1 .. m |-> ByteOf(printed, cursor + (i - 1))]
  <2>1. printed # <<>>
    BY <1>1, <1>3
  <2>2. parsed = [i \in 1 .. (end - cursor) |-> ByteOf(printed, cursor + (i - 1))]
    BY <1>2, <2>1, Zenon
  <2>3. QED
    BY <1>11, <2>2, Zenon
<1>13. parsed = [i \in 1 .. m |-> cursor + (i - 1)]
  BY <1>10, <1>11, <1>12
<1>14. QED
  BY <1>8, <1>9, <1>13 DEF IsRead

XpNames == {"kind", "address", "count", "bytes", "state"}
XpInv ==
    /\ job = [name \in XpNames |-> job[name]]
    /\ job.address \in Nat /\ job.count \in Nat
    /\ job.bytes \in Seq(Nat) /\ Len(job.bytes) <= job.count
    /\ \A i \in 1 .. Len(job.bytes) : job.bytes[i] = job.address + (i - 1)
    /\ job.state = "done" => Len(job.bytes) = job.count

LEMMA XpStarts ==
    ASSUME NEW address \in Nat, NEW count \in Nat, job = Monitor!Xp(address, count)
    PROVE  XpInv
BY DEF Monitor!Xp, XpInv, XpNames

LEMMA XpEnds ==
    ASSUME XpInv, NEW state, job' = [job EXCEPT !.state = state],
           state = "done" => Len(job.bytes) = job.count
    PROVE  XpInv'
<1>1. /\ job' = [name \in XpNames |-> job'[name]]
      /\ job'.address = job.address /\ job'.count = job.count /\ job'.bytes = job.bytes
      /\ job'.state = state
  BY DEF XpInv, XpNames
<1>2. QED
  BY <1>1 DEF XpInv

LEMMA XpAsks ==
    ASSUME XpInv, Monitor!Ask
    PROVE  XpInv'
<1> DEFINE n == Len(job.bytes)
<1> DEFINE cursor == job.address + n
<1> DEFINE remaining == job.count - n
<1> DEFINE width == IF remaining > 4 THEN 4 ELSE remaining
<1>1. /\ job.address \in Nat /\ job.count \in Nat /\ n \in Nat /\ n < job.count
      /\ job.bytes \in Seq(Nat) /\ job.state = "asking"
      /\ \A i \in 1 .. n : job.bytes[i] = job.address + (i - 1)
  <2>1. job.state = "asking" /\ n < job.count
    BY DEF Monitor!Ask
  <2>2. /\ job.address \in Nat /\ job.count \in Nat /\ job.bytes \in Seq(Nat)
        /\ \A i \in 1 .. n : job.bytes[i] = job.address + (i - 1)
    BY DEF XpInv
  <2>3. n \in Nat
    BY <2>2
  <2> HIDE DEF n
  <2>4. QED
    BY <2>1, <2>2, <2>3
<1>2. \/ \E words \in 0 .. (width \div Monitor!WordSize(width)) :
           LET parsed == Monitor!parse_monitor_xp(Monitor!Printed(cursor, width, words), cursor)
           IN  job' = IF parsed = <<>> THEN [job EXCEPT !.state = "failed"]
                      ELSE [job EXCEPT !.bytes = @ \o parsed]
      \/ job' = [job EXCEPT !.state = "failed"]
  BY Zenon DEF Monitor!Ask
<1>3. CASE job' = [job EXCEPT !.state = "failed"]
  BY <1>3, XpEnds
<1>4. width \in 1 .. 4 /\ width <= remaining /\ cursor \in Nat
  <2> HIDE DEF n
  <2>1. remaining \in Nat \ {0} /\ cursor \in Nat
    BY <1>1
  <2> HIDE DEF remaining
  <2>2. QED
    BY <2>1
<1> HIDE DEF width, cursor
<1>5. ASSUME NEW words \in 0 .. (width \div Monitor!WordSize(width)), NEW parsed,
             parsed = Monitor!parse_monitor_xp(Monitor!Printed(cursor, width, words), cursor),
             parsed # <<>>, job' = [job EXCEPT !.bytes = @ \o parsed]
      PROVE  XpInv'
  <2>1. IsRead(cursor, width, parsed)
    <3>1. /\ width \in 1 .. 4 /\ cursor \in Nat /\ words \in 0 .. (width \div Monitor!WordSize(width))
          /\ parsed = Monitor!parse_monitor_xp(Monitor!Printed(cursor, width, words), cursor)
          /\ parsed # <<>>
      BY <1>4, <1>5
    <3>2. QED
      BY ONLY <3>1, ParsedIs, Zenon
  <2>0. PICK m \in 1 .. width : parsed = [i \in 1 .. m |-> cursor + (i - 1)]
    BY <2>1 DEF IsRead
  <2>2. /\ parsed \in Seq(Nat) /\ Len(parsed) = m /\ \A i \in 1 .. m : parsed[i] = cursor + (i - 1)
        /\ m \in Nat /\ m <= width
    BY <1>4, <2>0
  <2>3. /\ job' = [name \in XpNames |-> job'[name]]
        /\ job'.address = job.address /\ job'.count = job.count /\ job'.bytes = job.bytes \o parsed
        /\ job'.state = "asking"
    BY <1>1, <1>5 DEF XpInv, XpNames
  <2> DEFINE more == job.bytes \o parsed
  <2>4. /\ more \in Seq(Nat) /\ Len(more) = n + m
        /\ \A i \in 1 .. n : more[i] = job.bytes[i]
        /\ \A i \in 1 .. m : more[n + i] = parsed[i]
    <3>1. job.bytes \in Seq(Nat) /\ parsed \in Seq(Nat)
      BY <1>1, <2>2
    <3>2. IsJoined(Nat, job.bytes, parsed, more)
      BY <3>1, Joined
    <3>3. Len(parsed) = m
      BY <2>2
    <3> HIDE DEF more
    <3>4. QED
      BY <3>2, <3>3 DEF IsJoined
  <2>5. n + m <= job.count
    BY <1>1, <1>4, <2>2
  <2> HIDE DEF more, n
  <2>6. ASSUME NEW i \in 1 .. n + m PROVE more[i] = job.address + (i - 1)
    <3>1. CASE i \in 1 .. n
      BY <1>1, <2>4, <3>1
    <3>2. CASE i \notin 1 .. n
      <4>1. i - n \in 1 .. m /\ n + (i - n) = i
        BY <1>1, <3>2
      <4>2. more[i] = cursor + ((i - n) - 1)
        BY <2>2, <2>4, <4>1
      <4>3. QED
        BY <1>1, <4>1, <4>2 DEF cursor
    <3>3. QED
      BY <3>1, <3>2
  <2>7. QED
    BY <1>1, <2>3, <2>4, <2>5, <2>6 DEF XpInv, more
<1>6. QED
  BY <1>2, <1>3, <1>5

LEMMA XpKeeps ==
    ASSUME HasKind, job.kind = "xp", XpInv, Monitor!Next
    PROVE  XpInv'
<1>1. CASE Monitor!NoMonitor
  BY <1>1, XpEnds DEF Monitor!NoMonitor
<1>2. CASE Monitor!Ask
  BY <1>2, XpAsks
<1>3. CASE Monitor!Answered
  <2>1. Len(job.bytes) = job.count
    BY <1>3 DEF Monitor!Answered, XpInv
  <2>2. QED
    BY <1>3, <2>1, XpEnds DEF Monitor!Answered
<1>4. QED
  BY <1>1, <1>2, <1>3 DEF Monitor!Next, Monitor!ParseLine, Monitor!EndOfReport

LEMMA XpShows == XpInv /\ job.kind = "xp" => Monitor!BytesAreMemory
<1> SUFFICES ASSUME XpInv PROVE Monitor!BytesAreMemory
  OBVIOUS
<1>1. /\ job.bytes \in Seq(Nat) /\ job.address \in Nat
      /\ \A i \in 1 .. Len(job.bytes) : job.bytes[i] = job.address + (i - 1)
      /\ job.state = "done" => Len(job.bytes) = job.count
  BY DEF XpInv
<1>2. job.bytes = [i \in DOMAIN job.bytes |-> job.address + (i - 1)]
  <2> DEFINE bytes == job.bytes
  <2>1. bytes \in Seq(Nat) /\ \A i \in 1 .. Len(bytes) : bytes[i] = job.address + (i - 1)
    BY <1>1
  <2> HIDE DEF bytes
  <2>2. DOMAIN bytes = 1 .. Len(bytes) /\ bytes = [i \in DOMAIN bytes |-> bytes[i]]
    BY <2>1
  <2>3. bytes = [i \in DOMAIN bytes |-> job.address + (i - 1)]
    BY <2>1, <2>2
  <2>4. QED
    BY <2>3 DEF bytes
<1>3. QED
  BY <1>1, <1>2 DEF Monitor!BytesAreMemory, Monitor!Memory

-----------------------------------------------------------------------------
(* The registers of a line. *)

\* One sequence after another, from the first on.
On(seqs, before, i) == before \o seqs[i]
Laid(S, seqs, laid) ==
    /\ laid \in [0 .. Len(seqs) -> Seq(S)]
    /\ laid[0] = <<>>
    /\ \A i \in 1 .. Len(seqs) : laid[i] = On(seqs, laid[i - 1], i)

LEMMA LaidIsThere ==
    ASSUME NEW S, NEW seqs \in Seq(Seq(S))
    PROVE  \E laid : Laid(S, seqs, laid) /\ Monitor!FlattenSeq(seqs) = laid[Len(seqs)]
<1> DEFINE n == Len(seqs)
<1> DEFINE Is(f) == f = [i \in 1 .. n |-> IF i = 1 THEN seqs[i] ELSE On(seqs, f[i - 1], i)]
<1> DEFINE flatten == CHOOSE f : Is(f)
<1>1. Monitor!FlattenSeq(seqs) = IF n = 0 THEN seqs ELSE flatten[n]
  BY Zenon DEF Monitor!FlattenSeq, On
<1>n. n \in Nat /\ \A i \in 1 .. n : seqs[i] \in Seq(S)
  OBVIOUS
<1>2. PICK f : Laid(S, seqs, f)
  <2> DEFINE T == Seq(S)
  <2> DEFINE step == [i \in 1 .. n |-> [b \in T |-> On(seqs, b, i)]]
  <2>1. \A i \in 1 .. n : \A b \in T : On(seqs, b, i) \in T
    BY <1>n, ConcatProperties DEF On
  <2> HIDE DEF T, n
  <2>2. step \in [1 .. n -> [T -> T]] /\ \A i \in 1 .. n : \A b \in T : step[i][b] = On(seqs, b, i)
    BY <2>1
  <2>3. <<>> \in T
    BY DEF T
  <2> HIDE DEF step
  <2>4. PICK f : Follows(f, n, T, <<>>, step)
    BY <1>n, <2>2, <2>3, Recursion
  <2>5. f \in [0 .. n -> T] /\ f[0] = <<>> /\ \A i \in 1 .. n : f[i] = step[i][f[i - 1]]
    BY <2>4 DEF Follows
  <2>6. \A i \in 1 .. n : f[i] = On(seqs, f[i - 1], i)
    BY <1>n, <2>2, <2>5
  <2>7. QED
    BY <2>5, <2>6 DEF Laid, T, n
<1>3. /\ f \in [0 .. n -> Seq(S)] /\ f[0] = <<>>
      /\ \A i \in 1 .. n : f[i] = On(seqs, f[i - 1], i)
  BY <1>2 DEF Laid
<1>4. n > 0 => f[1] = seqs[1]
  <2> SUFFICES ASSUME n > 0 PROVE f[1] = seqs[1]
    OBVIOUS
  <2>1. 1 \in 1 .. n /\ seqs[1] \in Seq(S)
    BY <1>n
  <2>2. 1 - 1 = 0
    OBVIOUS
  <2>3. f[1] = On(seqs, <<>>, 1)
    BY <1>3, <2>1, <2>2
  <2>4. <<>> \o seqs[1] = seqs[1]
    BY <2>1, ConcatEmptySeq
  <2>5. QED
    BY <2>3, <2>4, Zenon DEF On
<1>5. Is([i \in 1 .. n |-> f[i]])
  <2> DEFINE g == [i \in 1 .. n |-> f[i]]
  <2>1. \A i \in 1 .. n : g[i] = IF i = 1 THEN seqs[i] ELSE On(seqs, g[i - 1], i)
    <3> SUFFICES ASSUME NEW i \in 1 .. n
                 PROVE  g[i] = IF i = 1 THEN seqs[i] ELSE On(seqs, g[i - 1], i)
      OBVIOUS
    <3>1. CASE i = 1
      BY <1>4, <3>1
    <3>2. CASE i # 1
      <4>1. i - 1 \in 1 .. n
        BY <1>n, <3>2
      <4>2. g[i] = f[i] /\ g[i - 1] = f[i - 1] /\ f[i] = On(seqs, f[i - 1], i)
        BY <1>3, <4>1
      <4>3. QED
        BY <3>2, <4>2
    <3>3. QED
      BY <3>1, <3>2
  <2> DEFINE v(i) == IF i = 1 THEN seqs[i] ELSE On(seqs, g[i - 1], i)
  <2>2. \A i \in 1 .. n : g[i] = v(i)
    BY <2>1
  <2>3. g = [i \in 1 .. n |-> g[i]]
    OBVIOUS
  <2> HIDE DEF g, v, n
  <2>4. g = [i \in 1 .. n |-> v(i)]
    BY <2>2, <2>3
  <2>5. QED
    BY <2>4 DEF g, v
<1> HIDE DEF Is
<1>6. Is(flatten)
  BY <1>5
<1> HIDE DEF flatten
<1>7. \A i \in 1 .. n : flatten[i] = IF i = 1 THEN seqs[i] ELSE On(seqs, flatten[i - 1], i)
  BY <1>6 DEF Is
<1> DEFINE Same == {i \in 0 .. n : i > 0 => flatten[i] = f[i]}
<1>8. ASSUME NEW k \in 0 .. n - 1, k \in Same PROVE k + 1 \in Same
  <2>1. CASE k = 0
    BY <1>n, <1>4, <1>7, <2>1
  <2>2. CASE k > 0
    <3>1. k + 1 \in 1 .. n /\ k + 1 # 1 /\ (k + 1) - 1 = k
      BY <1>n, <2>2
    <3>2. flatten[k + 1] = On(seqs, flatten[k], k + 1) /\ f[k + 1] = On(seqs, f[k], k + 1)
      BY <1>3, <1>7, <3>1
    <3>3. flatten[k] = f[k]
      BY <1>8, <2>2
    <3>4. QED
      BY <3>1, <3>2, <3>3
  <2>3. QED
    BY <2>1, <2>2
<1>9. n > 0 => flatten[n] = f[n]
  <2>1. 0 \in Same
    BY <1>n
  <2> HIDE DEF Same, n
  <2>2. \A k \in 0 .. n - 1 : k \in Same => k + 1 \in Same
    BY <1>8
  <2>3. \A k \in 0 .. n : k \in Same
    BY <1>n, <2>1, <2>2, Induction
  <2>4. QED
    BY <1>n, <2>3 DEF Same
<1>10. Monitor!FlattenSeq(seqs) = f[n]
  <2>1. CASE n = 0
    <3>1. seqs = <<>>
      BY <2>1, EmptySeq
    <3>2. QED
      BY <1>1, <1>3, <2>1, <3>1
  <2>2. CASE n # 0
    BY <1>1, <1>9, <1>n, <2>2
  <2>3. QED
    BY <2>1, <2>2
<1>11. QED
  BY <1>2, <1>10

\* The sequence after the k-th is where the k-th ends, in all that are laid on top.
Holds(seqs, laid, k, m) ==
    /\ Len(laid[k]) \in Nat /\ Len(laid[m]) \in Nat /\ Len(seqs[k + 1]) \in Nat
    /\ Len(laid[k + 1]) = Len(laid[k]) + Len(seqs[k + 1])
    /\ Len(laid[k + 1]) <= Len(laid[m])
    /\ \A j \in 1 .. Len(seqs[k + 1]) : laid[m][Len(laid[k]) + j] = seqs[k + 1][j]

LEMMA LaidHolds ==
    ASSUME NEW S, NEW seqs \in Seq(Seq(S)), NEW laid, Laid(S, seqs, laid),
           NEW k \in 0 .. Len(seqs) - 1
    PROVE  Holds(seqs, laid, k, Len(seqs))
<1> DEFINE n == Len(seqs)
<1>1. n \in Nat /\ \A i \in 1 .. n : seqs[i] \in Seq(S)
  OBVIOUS
<1>2. /\ \A i \in 0 .. n : laid[i] \in Seq(S)
      /\ \A i \in 1 .. n : laid[i] = On(seqs, laid[i - 1], i)
  BY DEF Laid
<1>3. ASSUME NEW i \in 0 .. n - 1 PROVE IsJoined(S, laid[i], seqs[i + 1], laid[i + 1])
  <2>1. i \in 0 .. n /\ i + 1 \in 1 .. n /\ (i + 1) - 1 = i
    BY <1>1
  <2>2. laid[i] \in Seq(S) /\ seqs[i + 1] \in Seq(S) /\ laid[i + 1] = laid[i] \o seqs[i + 1]
    BY <1>1, <1>2, <2>1 DEF On
  <2>3. QED
    BY <2>2, Joined
<1> DEFINE M == {m \in 0 .. n : m > k => Holds(seqs, laid, k, m)}
<1> HIDE DEF n
<1>4. ASSUME NEW m \in 0 .. n - 1, m \in M PROVE m + 1 \in M
  <2>1. CASE m < k
    BY <1>1, <2>1 DEF n
  <2>2. CASE m = k
    <3>1. IsJoined(S, laid[k], seqs[k + 1], laid[k + 1])
      BY <1>3, <2>2
    <3> DEFINE a == Len(laid[k])
    <3> DEFINE c == Len(laid[k + 1])
    <3> DEFINE w == Len(seqs[k + 1])
    <3>4. a \in Nat /\ w \in Nat /\ c = a + w
      BY <3>1 DEF IsJoined
    <3>5. c \in Nat /\ c <= c
      <4> HIDE DEF a, c, w
      <4>1. QED
        BY <3>4
    <3>6. \A j \in 1 .. w : laid[k + 1][a + j] = seqs[k + 1][j]
      BY <3>1 DEF IsJoined
    <3>2. Holds(seqs, laid, k, k + 1)
      BY <3>4, <3>5, <3>6, Zenon DEF Holds
    <3>7. QED
      BY <1>1, <2>2, <3>2
  <2>3. CASE m > k
    <3>1. Holds(seqs, laid, k, m)
      BY <1>4, <2>3
    <3>2. IsJoined(S, laid[m], seqs[m + 1], laid[m + 1])
      BY <1>3
    <3> DEFINE a == Len(laid[k])
    <3> DEFINE c == Len(laid[m])
    <3> DEFINE d == Len(laid[m + 1])
    <3> DEFINE w == Len(seqs[k + 1])
    <3>3. /\ a \in Nat /\ c \in Nat /\ d \in Nat /\ w \in Nat
          /\ Len(laid[k + 1]) = a + w /\ a + w <= c /\ c <= d
      <4>1. d = c + Len(seqs[m + 1]) /\ Len(seqs[m + 1]) \in Nat /\ c \in Nat
        BY <3>2 DEF IsJoined
      <4>2. a \in Nat /\ w \in Nat /\ Len(laid[k + 1]) = a + w /\ Len(laid[k + 1]) <= c
        BY <3>1 DEF Holds
      <4> HIDE DEF a, c, d, w
      <4>3. QED
        BY <4>1, <4>2
    <3>4. ASSUME NEW j \in 1 .. w PROVE laid[m + 1][a + j] = seqs[k + 1][j]
      <4>1. laid[m][a + j] = seqs[k + 1][j]
        BY <3>1 DEF Holds
      <4>2. \A i \in 1 .. c : laid[m + 1][i] = laid[m][i]
        BY <3>2 DEF IsJoined
      <4> HIDE DEF a, c, d, w
      <4>3. a + j \in 1 .. c
        BY <3>3
      <4>4. QED
        BY <4>1, <4>2, <4>3
    <3>5. Holds(seqs, laid, k, m + 1)
      <4>1. a + w <= d
        <5> HIDE DEF a, c, d, w
        <5>1. QED
          BY <3>3
      <4>2. QED
        BY <3>3, <3>4, <4>1 DEF Holds
    <3>6. QED
      BY <1>1, <3>5
  <2>4. QED
    BY <1>1, <2>1, <2>2, <2>3 DEF n
<1>5. n \in M
  <2>1. 0 \in M
    BY <1>1 DEF n
  <2> HIDE DEF M
  <2>2. \A m \in 0 .. n - 1 : m \in M => m + 1 \in M
    BY <1>4
  <2>3. \A m \in 0 .. n : m \in M
    BY <1>1, <2>1, <2>2, Induction
  <2>4. QED
    BY <1>1, <2>3
<1>6. QED
  BY <1>1, <1>5 DEF n, M

\* The registers of a line, as they are printed.
NoText == ""
Texts == {NoText, "R8", "RAX", "1f", "0"}
Token == [name : Texts, eq : BOOLEAN, value : Texts]
Styles == {"joined", "padded", "apart"}

LEMMA RegisterIs ==
    ASSUME NEW pair \in Monitor!Registers
    PROVE  /\ pair[1] \in Texts /\ pair[2] \in Texts /\ pair[1] # NoText /\ pair[2] # NoText
           /\ pair = <<pair[1], pair[2]>> /\ Monitor!is_hex(pair[2])
<1>1. pair = <<"R8", "1f">> \/ pair = <<"RAX", "0">>
  BY DEF Monitor!Registers
<1>2. \/ pair[1] = "R8" /\ pair[2] = "1f"
      \/ pair[1] = "RAX" /\ pair[2] = "0"
  BY <1>1
<1>3. "R8" # NoText /\ "RAX" # NoText /\ "1f" # NoText /\ "0" # NoText
  BY Zenon DEF NoText
<1>4. pair = <<pair[1], pair[2]>>
  BY <1>1
<1>5. Monitor!is_hex(pair[2])
  <2>1. pair[2] \in {p[2] : p \in Monitor!Registers}
    OBVIOUS
  <2>2. QED
    BY <2>1, Zenon DEF Monitor!is_hex
<1>6. QED
  BY <1>2, <1>3, <1>4, <1>5 DEF Texts

\* The tokens of a register.
IsWritten(pair, style, tokens) ==
    /\ style = "joined" => /\ Len(tokens) = 1
                           /\ tokens[1].name = pair[1] /\ tokens[1].eq /\ tokens[1].value = pair[2]
    /\ style = "padded" => /\ Len(tokens) = 2
                           /\ tokens[1].name = pair[1] /\ ~tokens[1].eq
                           /\ tokens[2].name = NoText /\ tokens[2].eq /\ tokens[2].value = pair[2]
    /\ style = "apart" => /\ Len(tokens) = 3
                          /\ tokens[1].name = pair[1] /\ ~tokens[1].eq
                          /\ tokens[2].name = NoText /\ tokens[2].eq /\ tokens[2].value = NoText
                          /\ tokens[3].name = pair[2] /\ ~tokens[3].eq

Tok(name, eq, value) == [name |-> name, eq |-> eq, value |-> value]

LEMMA TokenIs ==
    ASSUME NEW name \in Texts, NEW eq \in BOOLEAN, NEW value \in Texts
    PROVE  /\ Tok(name, eq, value) \in Token
           /\ Tok(name, eq, value).name = name
           /\ Tok(name, eq, value).eq = eq
           /\ Tok(name, eq, value).value = value
BY DEF Tok, Token

LEMMA WrittenIs ==
    ASSUME NEW pair \in Monitor!Registers, NEW style \in Styles,
           NEW tokens, tokens = Monitor!Written(pair, style)
    PROVE  tokens \in Seq(Token) /\ Len(tokens) \in 1 .. 3 /\ IsWritten(pair, style, tokens)
<1> DEFINE a == Tok(pair[1], TRUE, pair[2])
<1> DEFINE b == Tok(pair[1], FALSE, NoText)
<1> DEFINE c == Tok(NoText, TRUE, pair[2])
<1> DEFINE d == Tok(NoText, TRUE, NoText)
<1> DEFINE e == Tok(pair[2], FALSE, NoText)
<1>1. pair[1] \in Texts /\ pair[2] \in Texts /\ NoText \in Texts
  <2>1. NoText \in Texts
    BY Zenon DEF Texts
  <2>2. QED
    BY <2>1, RegisterIs
<1>2. /\ a \in Token /\ a.name = pair[1] /\ a.eq /\ a.value = pair[2]
      /\ b \in Token /\ b.name = pair[1] /\ ~b.eq
      /\ c \in Token /\ c.name = NoText /\ c.eq /\ c.value = pair[2]
      /\ d \in Token /\ d.name = NoText /\ d.eq /\ d.value = NoText
      /\ e \in Token /\ e.name = pair[2] /\ ~e.eq
  <2>1. \A n, v \in Texts : \A q \in BOOLEAN : Tok(n, q, v) \in Token
    BY TokenIs
  <2>2. a \in Token /\ b \in Token /\ c \in Token /\ d \in Token /\ e \in Token
    <3> DEFINE yes == TRUE
    <3> DEFINE no == FALSE
    <3>1. yes \in BOOLEAN /\ no \in BOOLEAN
      OBVIOUS
    <3> HIDE DEF yes, no
    <3>2. /\ Tok(pair[1], yes, pair[2]) \in Token /\ Tok(pair[1], no, NoText) \in Token
          /\ Tok(NoText, yes, pair[2]) \in Token /\ Tok(NoText, yes, NoText) \in Token
          /\ Tok(pair[2], no, NoText) \in Token
      BY <1>1, <2>1, <3>1
    <3>3. QED
      BY <3>2 DEF yes, no
  <2>3. /\ a.name = pair[1] /\ a.eq /\ a.value = pair[2]
        /\ b.name = pair[1] /\ ~b.eq
    BY DEF Tok
  <2>4. /\ c.name = NoText /\ c.eq /\ c.value = pair[2]
        /\ d.name = NoText /\ d.eq /\ d.value = NoText
        /\ e.name = pair[2] /\ ~e.eq
    BY DEF Tok
  <2>5. QED
    BY <2>2, <2>3, <2>4
<1>3. CASE style = "joined"
  <2>1. tokens = <<a>>
    BY <1>3, Zenon DEF Monitor!Written, Tok
  <2> HIDE DEF a
  <2>2. tokens \in Seq(Token) /\ Len(tokens) = 1 /\ tokens[1] = a
    <3>1. a \in Token
      BY <1>2
    <3>2. QED
      BY ONLY <2>1, <3>1
  <2>3. style # "padded" /\ style # "apart"
    BY <1>3
  <2>4. IsWritten(pair, style, tokens)
    BY <1>2, <1>3, <2>2, <2>3, Zenon DEF IsWritten
  <2>5. Len(tokens) \in 1 .. 3
    BY <2>2
  <2>6. QED
    BY <2>2, <2>4, <2>5
<1>4. CASE style = "padded"
  <2>3. style # "joined" /\ style # "apart"
    BY <1>4
  <2>1. tokens = <<b, c>>
    BY <1>4, <2>3, Zenon DEF Monitor!Written, NoText, Tok
  <2> HIDE DEF b, c
  <2>2. tokens \in Seq(Token) /\ Len(tokens) = 2 /\ tokens[1] = b /\ tokens[2] = c
    <3>1. b \in Token /\ c \in Token
      BY <1>2
    <3>2. QED
      BY ONLY <2>1, <3>1
  <2>4. IsWritten(pair, style, tokens)
    BY <1>2, <1>4, <2>2, <2>3, Zenon DEF IsWritten
  <2>5. Len(tokens) \in 1 .. 3
    BY <2>2
  <2>6. QED
    BY <2>2, <2>4, <2>5
<1>5. CASE style = "apart"
  <2>3. style # "joined" /\ style # "padded"
    BY <1>5
  <2>1. tokens = <<b, d, e>>
    BY <1>5, <2>3, Zenon DEF Monitor!Written, NoText, Tok
  <2> HIDE DEF b, d, e
  <2>2. tokens \in Seq(Token) /\ Len(tokens) = 3 /\ tokens[1] = b /\ tokens[2] = d /\ tokens[3] = e
    <3>1. b \in Token /\ d \in Token /\ e \in Token
      BY <1>2
    <3>2. QED
      BY ONLY <2>1, <3>1
  <2>4. IsWritten(pair, style, tokens)
    BY <1>2, <1>5, <2>2, <2>3, Zenon DEF IsWritten
  <2>5. Len(tokens) \in 1 .. 3
    BY <2>2
  <2>6. QED
    BY <2>2, <2>4, <2>5
<1>6. QED
  BY <1>3, <1>4, <1>5 DEF Styles

\* The loop before a token, when it has these pairs, and when it has refused one.
Going(at, pairs) == [at |-> at, pairs |-> pairs, ok |-> TRUE]
Stopped(at, pairs) == [at |-> at, pairs |-> pairs, ok |-> FALSE]

LEMMA RefusedIs ==
    ASSUME NEW at, NEW pairs
    PROVE  Monitor!Refused(Going(at, pairs)) = Stopped(at, pairs)
<1>1. Monitor!Refused(Going(at, pairs)) = [Going(at, pairs) EXCEPT !.ok = FALSE]
  BY DEF Monitor!Refused
<1> DEFINE yes == TRUE
<1> DEFINE no == FALSE
<1>2. Going(at, pairs) = [at |-> at, pairs |-> pairs, ok |-> yes]
  BY DEF Going
<1>3. Stopped(at, pairs) = [at |-> at, pairs |-> pairs, ok |-> no]
  BY DEF Stopped
<1>4. Monitor!Refused(Going(at, pairs)) = [Going(at, pairs) EXCEPT !.ok = no]
  BY <1>1
<1> HIDE DEF yes, no
<1>5. [[at |-> at, pairs |-> pairs, ok |-> yes] EXCEPT !.ok = no] = [at |-> at, pairs |-> pairs, ok |-> no]
  OBVIOUS
<1>6. QED
  BY <1>2, <1>3, <1>4, <1>5

LEMMA TakeIs ==
    ASSUME NEW at, NEW pairs, NEW pair \in Monitor!Registers, NEW count
    PROVE  Monitor!Take(Going(at, pairs), pair[1], pair[2], count) = Going(at + count, Append(pairs, pair))
<1> DEFINE name == pair[1]
<1> DEFINE value == pair[2]
<1>0. name # NoText /\ Monitor!is_hex(value) /\ pair = <<name, value>>
  BY RegisterIs
<1> HIDE DEF name, value
<1> DEFINE yes == TRUE
<1> DEFINE s == Going(at, pairs)
<1> DEFINE next == at + count
<1> DEFINE more == Append(pairs, pair)
<1>1. s.at = at /\ s.pairs = pairs
  BY DEF Going
<1>2. s = [at |-> at, pairs |-> pairs, ok |-> yes]
  BY DEF Going
<1>3. Going(next, more) = [at |-> next, pairs |-> more, ok |-> yes]
  BY DEF Going
<1> HIDE DEF yes, s
<1>4. Monitor!Take(s, name, value, count) =
        [s EXCEPT !.at = s.at + count, !.pairs = Append(s.pairs, <<name, value>>)]
  BY <1>0, Zenon DEF Monitor!Take, NoText
<1>5. Monitor!Take(s, name, value, count) = [s EXCEPT !.at = next, !.pairs = more]
  BY <1>0, <1>1, <1>4, Zenon
<1> HIDE DEF next, more
<1>6. Monitor!Take(s, name, value, count) = Going(next, more)
  <2> DEFINE t == [s EXCEPT !.at = next, !.pairs = more]
  <2>1. s = [n \in {"at", "pairs", "ok"} |-> s[n]] /\ s.ok = yes
    BY <1>2
  <2>2. t.at = next /\ t.pairs = more /\ t.ok = yes /\ t = [n \in {"at", "pairs", "ok"} |-> t[n]]
    BY <2>1
  <2> HIDE DEF t
  <2>3. t = [at |-> next, pairs |-> more, ok |-> yes]
    BY <2>2
  <2>4. Monitor!Take(s, name, value, count) = t
    BY <1>5 DEF t
  <2>5. QED
    BY <1>3, <2>3, <2>4, Zenon
<1>7. QED
  BY <1>6 DEF s, next, more, name, value

\* A turn of the loop, with the tokens that it looks at.
Turn(s, has0, has1, has2, t0, t1, t2) ==
    IF ~s.ok \/ ~has0 THEN s
    ELSE IF t0.eq THEN Monitor!Take(s, t0.name, t0.value, 1)
    ELSE IF ~has1 THEN Monitor!Refused(s)
    ELSE IF ~t1.eq \/ t1.name # NoText THEN Monitor!Refused(s)
    ELSE IF t1.value # NoText THEN Monitor!Take(s, t0.name, t1.value, 2)
    ELSE IF ~has2 THEN Monitor!Refused(s)
    ELSE IF t2.eq THEN Monitor!Refused(s)
    ELSE Monitor!Take(s, t0.name, t2.name, 3)

LEMMA TurnIs ==
    ASSUME NEW tokens, NEW s, NEW before \in Nat, s.at = before + 1
    PROVE  Monitor!TakePair(tokens, s) =
             Turn(s, before + 1 <= Len(tokens), before + 2 <= Len(tokens), before + 3 <= Len(tokens),
                  tokens[before + 1], tokens[before + 2], tokens[before + 3])
<1>1. s.at + 0 = before + 1 /\ s.at + 1 = before + 2 /\ s.at + 2 = before + 3
  OBVIOUS
<1>2. Monitor!TakePair(tokens, s) =
        Turn(s, s.at + 0 <= Len(tokens), s.at + 1 <= Len(tokens), s.at + 2 <= Len(tokens),
             tokens[s.at + 0], tokens[s.at + 1], tokens[s.at + 2])
  BY Zenon DEF Monitor!TakePair, Turn, NoText
<1>3. QED
  BY ONLY <1>1, <1>2, Zenon

\* A turn that cannot take anything: it stays.
LEMMA NothingLeft ==
    ASSUME NEW tokens, Len(tokens) \in Nat, NEW at \in Nat, NEW pairs
    PROVE  /\ at > Len(tokens) => Monitor!TakePair(tokens, Going(at, pairs)) = Going(at, pairs)
           /\ Monitor!TakePair(tokens, Stopped(at, pairs)) = Stopped(at, pairs)
<1> DEFINE s == Going(at, pairs)
<1> DEFINE t == Stopped(at, pairs)
<1>1. s.at = at /\ ~t.ok
  BY DEF Going, Stopped
<1> HIDE DEF s, t
<1>2. at > Len(tokens) => ~(s.at + 0 <= Len(tokens))
  BY <1>1
<1>3. at > Len(tokens) => Monitor!TakePair(tokens, s) = s
  BY <1>2, Zenon DEF Monitor!TakePair
<1>4. Monitor!TakePair(tokens, t) = t
  BY <1>1, Zenon DEF Monitor!TakePair
<1>5. QED
  BY <1>3, <1>4 DEF s, t

\* A turn over the tokens of a register takes it.
LEMMA PairIsTaken ==
    ASSUME NEW tokens, Len(tokens) \in Nat, NEW before \in Nat, NEW pairs,
           NEW pair \in Monitor!Registers, NEW style \in Styles, NEW own, IsWritten(pair, style, own),
           Len(own) \in 1 .. 3, before + Len(own) <= Len(tokens),
           \A j \in 1 .. Len(own) : tokens[before + j] = own[j]
    PROVE  Monitor!TakePair(tokens, Going(before + 1, pairs)) =
             Going((before + 1) + Len(own), Append(pairs, pair))
<1> DEFINE s == Going(before + 1, pairs)
<1>1. s.at = before + 1 /\ s.ok
  BY DEF Going
<1>2. /\ pair[1] # NoText /\ pair[2] # NoText /\ pair = <<pair[1], pair[2]>> /\ Monitor!is_hex(pair[2])
  BY RegisterIs
<1>3. ASSUME NEW count
      PROVE  Monitor!Take(s, pair[1], pair[2], count) = Going((before + 1) + count, Append(pairs, pair))
  BY TakeIs, Zenon
<1> HIDE DEF s
<1>4. Monitor!TakePair(tokens, s) =
        Turn(s, before + 1 <= Len(tokens), before + 2 <= Len(tokens), before + 3 <= Len(tokens),
             tokens[before + 1], tokens[before + 2], tokens[before + 3])
  BY <1>1, TurnIs, Zenon
<1>5. CASE style = "joined"
  <2>1. Len(own) = 1 /\ own[1].name = pair[1] /\ own[1].eq /\ own[1].value = pair[2]
    BY <1>5, Zenon DEF IsWritten
  <2>2. before + 1 <= Len(tokens) /\ tokens[before + 1] = own[1]
    <3>1. Len(own) = 1
      BY <2>1
    <3>2. QED
      BY <3>1
  <2>3. Monitor!TakePair(tokens, s) = Monitor!Take(s, pair[1], pair[2], 1)
    BY <1>1, <1>4, <2>1, <2>2, Zenon DEF Turn
  <2>4. QED
    BY <1>3, <2>1, <2>3, Zenon DEF s
<1>6. CASE style = "padded"
  <2>1. /\ Len(own) = 2 /\ own[1].name = pair[1] /\ ~own[1].eq
        /\ own[2].name = NoText /\ own[2].eq /\ own[2].value = pair[2]
    BY <1>6, Zenon DEF IsWritten
  <2>2. /\ before + 1 <= Len(tokens) /\ tokens[before + 1] = own[1]
        /\ before + 2 <= Len(tokens) /\ tokens[before + 2] = own[2]
    <3>1. Len(own) = 2
      BY <2>1
    <3>2. QED
      BY <3>1
  <2>3. Monitor!TakePair(tokens, s) = Monitor!Take(s, pair[1], pair[2], 2)
    BY <1>1, <1>2, <1>4, <2>1, <2>2, Zenon DEF Turn
  <2>4. QED
    BY <1>3, <2>1, <2>3, Zenon DEF s
<1>7. CASE style = "apart"
  <2>1. /\ Len(own) = 3 /\ own[1].name = pair[1] /\ ~own[1].eq
        /\ own[2].name = NoText /\ own[2].eq /\ own[2].value = NoText
        /\ own[3].name = pair[2] /\ ~own[3].eq
    BY <1>7, Zenon DEF IsWritten
  <2>2. /\ before + 1 <= Len(tokens) /\ tokens[before + 1] = own[1]
        /\ before + 2 <= Len(tokens) /\ tokens[before + 2] = own[2]
        /\ before + 3 <= Len(tokens) /\ tokens[before + 3] = own[3]
    <3>1. Len(own) = 3
      BY <2>1
    <3>2. QED
      BY <3>1
  <2>3. Monitor!TakePair(tokens, s) = Monitor!Take(s, pair[1], pair[2], 3)
    BY <1>1, <1>2, <1>4, <2>1, <2>2, Zenon DEF Turn
  <2>4. QED
    BY <1>3, <2>1, <2>3, Zenon DEF s
<1>8. QED
  BY <1>5, <1>6, <1>7, Zenon DEF Styles, s

\* Of a register whose last token is missing, nothing is taken.
LEMMA CutIsRefused ==
    ASSUME NEW tokens, Len(tokens) \in Nat, NEW before \in Nat, NEW pairs,
           NEW pair \in Monitor!Registers, NEW style \in Styles, NEW own, IsWritten(pair, style, own),
           Len(own) \in 1 .. 3, before + Len(own) = Len(tokens) + 1,
           \A j \in 1 .. Len(own) - 1 : tokens[before + j] = own[j]
    PROVE  Monitor!TakePair(tokens, Going(before + 1, pairs)) \in
             {Going(before + 1, pairs), Stopped(before + 1, pairs)}
<1> DEFINE s == Going(before + 1, pairs)
<1>1. s.at = before + 1 /\ s.ok
  BY DEF Going
<1>2. Monitor!Refused(s) = Stopped(before + 1, pairs)
  BY RefusedIs, Zenon
<1> HIDE DEF s
<1>3. Monitor!TakePair(tokens, s) =
        Turn(s, before + 1 <= Len(tokens), before + 2 <= Len(tokens), before + 3 <= Len(tokens),
             tokens[before + 1], tokens[before + 2], tokens[before + 3])
  BY <1>1, TurnIs, Zenon
<1>4. Monitor!TakePair(tokens, s) = s \/ Monitor!TakePair(tokens, s) = Monitor!Refused(s)
  <2>1. CASE style = "joined"
    <3>1. Len(own) = 1
      BY <2>1, Zenon DEF IsWritten
    <3>2. ~(before + 1 <= Len(tokens))
      BY <3>1
    <3>3. QED
      BY <1>3, <3>2, Zenon DEF Turn
  <2>2. CASE style = "padded"
    <3>1. Len(own) = 2 /\ ~own[1].eq
      BY <2>2, Zenon DEF IsWritten
    <3>2. before + 1 <= Len(tokens) /\ tokens[before + 1] = own[1] /\ ~(before + 2 <= Len(tokens))
      <4>1. Len(own) = 2
        BY <3>1
      <4>2. QED
        BY <4>1
    <3>3. QED
      BY <1>1, <1>3, <3>1, <3>2, Zenon DEF Turn
  <2>3. CASE style = "apart"
    <3>1. /\ Len(own) = 3 /\ ~own[1].eq
          /\ own[2].name = NoText /\ own[2].eq /\ own[2].value = NoText
      BY <2>3, Zenon DEF IsWritten
    <3>2. /\ before + 1 <= Len(tokens) /\ tokens[before + 1] = own[1]
          /\ before + 2 <= Len(tokens) /\ tokens[before + 2] = own[2]
          /\ ~(before + 3 <= Len(tokens))
      <4>1. Len(own) = 3
        BY <3>1
      <4>2. QED
        BY <4>1
    <3>3. QED
      BY <1>1, <1>3, <3>1, <3>2, Zenon DEF Turn
  <2>4. QED
    BY <2>1, <2>2, <2>3, Zenon DEF Styles
<1>5. QED
  BY <1>2, <1>4, Zenon DEF s

\* The first elements of a sequence.
IsFirst(S, s, k, t) == t \in Seq(S) /\ Len(t) = k /\ \A i \in 1 .. k : t[i] = s[i]

LEMMA FirstIs ==
    ASSUME NEW S, NEW s \in Seq(S), NEW k \in 0 .. Len(s), NEW t, t = SubSeq(s, 1, k)
    PROVE  IsFirst(S, s, k, t)
<1>1. k \in Nat /\ k <= Len(s) /\ 0 \in Nat /\ 0 + 1 = 1
  OBVIOUS
<1>2. t = SubSeq(s, 0 + 1, k)
  BY <1>1
<1>3. IsCut(S, s, 0, k, t)
  BY <1>1, <1>2, Cut, Zenon
<1>4. k - 0 = k /\ \A i \in 1 .. k : 0 + i = i
  BY <1>1
<1>5. t \in Seq(S) /\ Len(t) = k
  BY <1>1, <1>3, <1>4 DEF IsCut
<1>6. ASSUME NEW i \in 1 .. k PROVE t[i] = s[i]
  <2>1. i \in 1 .. k - 0 /\ 0 + i = i
    BY <1>1
  <2>2. QED
    BY <1>3, <2>1 DEF IsCut
<1>7. QED
  BY <1>5, <1>6 DEF IsFirst

LEMMA FirstGrows ==
    ASSUME NEW S, NEW s \in Seq(S), NEW k \in 0 .. Len(s) - 1
    PROVE  SubSeq(s, 1, k + 1) = Append(SubSeq(s, 1, k), s[k + 1])
<1> DEFINE before == SubSeq(s, 1, k)
<1> DEFINE after == SubSeq(s, 1, k + 1)
<1>1. k \in Nat /\ k \in 0 .. Len(s) /\ k + 1 \in 0 .. Len(s) /\ s[k + 1] \in S
  OBVIOUS
<1>2. IsFirst(S, s, k, before) /\ IsFirst(S, s, k + 1, after)
  BY <1>1, FirstIs
<1>3. /\ before \in Seq(S) /\ Len(before) = k /\ \A i \in 1 .. k : before[i] = s[i]
      /\ after \in Seq(S) /\ Len(after) = k + 1 /\ \A i \in 1 .. k + 1 : after[i] = s[i]
  BY <1>2 DEF IsFirst
<1> HIDE DEF before, after
<1> DEFINE e == s[k + 1]
<1> DEFINE more == Append(before, e)
<1>4. /\ more \in Seq(S) /\ Len(more) = k + 1
      /\ \A i \in 1 .. k : more[i] = before[i]
      /\ more[k + 1] = e
  BY <1>1, <1>3, AppendProperties
<1> HIDE DEF more
<1>5. \A i \in 1 .. k + 1 : more[i] = after[i]
  BY <1>1, <1>3, <1>4
<1>6. more = after
  BY <1>3, <1>4, <1>5, SeqEqual
<1>7. QED
  BY <1>6 DEF more, before, after

LEMMA FirstIsPrefix ==
    ASSUME NEW S, NEW s \in Seq(S), NEW k \in 0 .. Len(s), NEW t, t = SubSeq(s, 1, k)
    PROVE  Monitor!IsPrefix(t, s)
<1>1. t \in Seq(S) /\ Len(t) = k
  BY FirstIs DEF IsFirst
<1>2. SubSeq(t, 1, k) = t
  BY <1>1, SubSeqFull
<1>3. k <= Len(s)
  OBVIOUS
<1>4. QED
  BY <1>1, <1>2, <1>3, Zenon DEF Monitor!IsPrefix

\* Where the tokens of each register end on a line, whole or cut.
Own(pairs, styles, k) == Monitor!Written(pairs[k], styles[k])
All(pairs, styles) == Monitor!FlattenSeq([i \in DOMAIN pairs |-> Monitor!Written(pairs[i], styles[i])])
Printing(pairs, styles, cut) ==
    IF All(pairs, styles) = <<>> THEN All(pairs, styles)
    ELSE SubSeq(All(pairs, styles), 1, Len(All(pairs, styles)) - cut)

Ends(pairs, styles, cut, tokens, ends) ==
    /\ ends \in [0 .. Len(pairs) -> Nat]
    /\ ends[0] = 0
    /\ Len(tokens) \in Nat
    /\ Len(pairs) > 0 => Len(tokens) = ends[Len(pairs)] - cut
    /\ Len(pairs) = 0 => Len(tokens) = 0
    /\ \A k \in 0 .. Len(pairs) - 1 :
         /\ ends[k + 1] = ends[k] + Len(Own(pairs, styles, k + 1))
         /\ Len(Own(pairs, styles, k + 1)) \in 1 .. 3
         /\ ends[k + 1] <= ends[Len(pairs)]
         /\ \A j \in 1 .. Len(Own(pairs, styles, k + 1)) :
              ends[k] + j <= Len(tokens) => tokens[ends[k] + j] = Own(pairs, styles, k + 1)[j]

LEMMA EndsAre ==
    ASSUME NEW pairs \in Seq(Monitor!Registers), NEW styles \in [DOMAIN pairs -> Styles],
           NEW cut \in 0 .. 1, NEW tokens, tokens = Printing(pairs, styles, cut)
    PROVE  \E ends : Ends(pairs, styles, cut, tokens, ends)
<1> DEFINE n == Len(pairs)
<1> DEFINE seqs == [i \in DOMAIN pairs |-> Monitor!Written(pairs[i], styles[i])]
<1> DEFINE all == Monitor!FlattenSeq(seqs)
<1>1. n \in Nat /\ DOMAIN pairs = 1 .. n
  OBVIOUS
<1>2. ASSUME NEW i \in 1 .. n
      PROVE  /\ Own(pairs, styles, i) \in Seq(Token) /\ Len(Own(pairs, styles, i)) \in 1 .. 3
             /\ seqs[i] = Own(pairs, styles, i)
  <2>1. pairs[i] \in Monitor!Registers /\ styles[i] \in Styles
    BY <1>1
  <2>2. seqs[i] = Own(pairs, styles, i)
    BY <1>1 DEF Own
  <2>3. QED
    BY <2>1, <2>2, WrittenIs DEF Own
<1>3. seqs \in Seq(Seq(Token)) /\ Len(seqs) = n
  <2>1. seqs = [i \in 1 .. n |-> seqs[i]]
    BY <1>1
  <2>2. \A i \in 1 .. n : seqs[i] \in Seq(Token)
    BY <1>2
  <2> DEFINE T == Seq(Token)
  <2> HIDE DEF seqs, T, n
  <2>3. seqs \in Seq(T) /\ Len(seqs) = n
    BY <1>1, <2>1, <2>2 DEF T
  <2>4. QED
    BY <2>3 DEF T
<1> HIDE DEF seqs
<1>4. PICK laid : Laid(Token, seqs, laid) /\ all = laid[n]
  BY <1>3, LaidIsThere
<1>5. ASSUME NEW k \in 0 .. n - 1 PROVE Holds(seqs, laid, k, n)
  <2>1. k \in 0 .. Len(seqs) - 1
    BY <1>3
  <2>2. Holds(seqs, laid, k, Len(seqs))
    BY <1>3, <1>4, <2>1, LaidHolds
  <2>3. QED
    BY <1>3, <2>2
<1>6. /\ \A i \in 0 .. n : laid[i] \in Seq(Token)
      /\ laid[0] = <<>>
  BY <1>3, <1>4 DEF Laid
<1> DEFINE ends == [i \in 0 .. n |-> Len(laid[i])]
<1>7. ends \in [0 .. n -> Nat] /\ ends[0] = 0 /\ \A i \in 0 .. n : ends[i] = Len(laid[i])
  <2>1. \A i \in 0 .. n : Len(laid[i]) \in Nat
    BY <1>6
  <2>2. Len(laid[0]) = 0
    BY <1>6
  <2> HIDE DEF n
  <2>3. QED
    BY <1>1, <2>1, <2>2
<1>8. all \in Seq(Token) /\ Len(all) = ends[n] /\ Len(all) \in Nat
  <2>1. n \in 0 .. n
    BY <1>1
  <2>2. all \in Seq(Token)
    BY <1>4, <1>6, <2>1
  <2>3. Len(all) = ends[n]
    BY <1>4, <1>7, <2>1
  <2> HIDE DEF all, ends
  <2>4. QED
    BY <2>2, <2>3
<1>9. tokens = IF all = <<>> THEN all ELSE SubSeq(all, 1, Len(all) - cut)
  BY Zenon DEF Printing, All, seqs
<1> HIDE DEF all, ends, n
<1>10. ASSUME NEW k \in 0 .. n - 1
       PROVE  /\ ends[k + 1] = ends[k] + Len(Own(pairs, styles, k + 1))
              /\ Len(Own(pairs, styles, k + 1)) \in 1 .. 3
              /\ ends[k + 1] <= ends[n] /\ ends[k] \in Nat /\ ends[n] \in Nat
              /\ \A j \in 1 .. Len(Own(pairs, styles, k + 1)) : all[ends[k] + j] = Own(pairs, styles, k + 1)[j]
  <2>1. k \in 0 .. n /\ k + 1 \in 0 .. n /\ k + 1 \in 1 .. n /\ n \in 0 .. n
    BY <1>1
  <2>2. seqs[k + 1] = Own(pairs, styles, k + 1) /\ Len(Own(pairs, styles, k + 1)) \in 1 .. 3
    BY <1>2, <2>1
  <2>3. /\ Len(laid[k + 1]) = Len(laid[k]) + Len(seqs[k + 1])
        /\ Len(laid[k + 1]) <= Len(laid[n])
        /\ \A j \in 1 .. Len(seqs[k + 1]) : laid[n][Len(laid[k]) + j] = seqs[k + 1][j]
    BY <1>5 DEF Holds
  <2>4. ends[k] = Len(laid[k]) /\ ends[k + 1] = Len(laid[k + 1]) /\ ends[n] = Len(laid[n])
    BY <1>7, <2>1
  <2>5. ends[k] \in Nat /\ ends[n] \in Nat
    BY <1>7, <2>1
  <2>6. QED
    BY <1>4, <2>2, <2>3, <2>4, <2>5, Zenon
<1>11. CASE n = 0
  <2>1. Len(all) = 0
    BY <1>7, <1>8, <1>11
  <2>2. all = <<>>
    BY <1>8, <2>1, EmptySeq
  <2>3. tokens = <<>> /\ Len(tokens) = 0
    BY <1>9, <2>2
  <2>4. Ends(pairs, styles, cut, tokens, ends)
    BY <1>7, <1>11, <2>3 DEF Ends, n
  <2>5. QED
    BY <2>4
<1>12. CASE n > 0
  <2>1. ends[n] >= 1
    <3>1. n - 1 \in 0 .. n - 1 /\ (n - 1) + 1 = n
      BY <1>1, <1>12
    <3>2. /\ ends[n] = ends[n - 1] + Len(Own(pairs, styles, n)) /\ ends[n - 1] \in Nat
          /\ Len(Own(pairs, styles, n)) \in 1 .. 3
      <4> DEFINE k == n - 1
      <4>1. k \in 0 .. n - 1 /\ k + 1 = n
        BY <3>1
      <4> HIDE DEF k
      <4>2. /\ ends[n] = ends[k] + Len(Own(pairs, styles, n)) /\ ends[k] \in Nat
            /\ Len(Own(pairs, styles, n)) \in 1 .. 3
        BY <1>10, <4>1
      <4>3. QED
        BY <4>2 DEF k
    <3> DEFINE a == ends[n - 1]
    <3> DEFINE b == ends[n]
    <3> DEFINE w == Len(Own(pairs, styles, n))
    <3>3. b = a + w /\ a \in Nat /\ w \in 1 .. 3
      BY <3>2
    <3> HIDE DEF a, b, w
    <3>4. b >= 1
      BY <3>3
    <3>5. QED
      BY <3>4 DEF b
  <2>2. all # <<>>
    <3>1. Len(all) # 0
      BY <1>8, <2>1
    <3>2. QED
      BY <3>1
  <2> DEFINE m == Len(all) - cut
  <2>3. m \in 0 .. Len(all) /\ m = ends[n] - cut
    BY <1>8, <2>1
  <2>4. tokens = SubSeq(all, 1, m)
    BY <1>9, <2>2
  <2> HIDE DEF m
  <2>5. IsFirst(Token, all, m, tokens)
    BY <1>8, <2>3, <2>4, FirstIs
  <2>6. Len(tokens) = m /\ m \in Nat /\ \A i \in 1 .. m : tokens[i] = all[i]
    BY <2>3, <2>5 DEF IsFirst
  <2>7. ASSUME NEW k \in 0 .. n - 1, NEW j \in 1 .. Len(Own(pairs, styles, k + 1)),
               ends[k] + j <= Len(tokens)
        PROVE  tokens[ends[k] + j] = Own(pairs, styles, k + 1)[j]
    <3>1. ends[k] \in Nat /\ j \in Nat /\ 1 <= j /\ all[ends[k] + j] = Own(pairs, styles, k + 1)[j]
      BY <1>10
    <3>2. ends[k] + j \in 1 .. m
      BY <2>6, <2>7, <3>1
    <3>3. QED
      BY <2>6, <3>1, <3>2
  <2>8. Len(tokens) \in Nat /\ Len(tokens) = ends[n] - cut
    BY <2>3, <2>6
  <2>9. Ends(pairs, styles, cut, tokens, ends)
    <3>1. n = 0 => Len(tokens) = 0
      BY <1>12
    <3>2. /\ ends \in [0 .. Len(pairs) -> Nat]
          /\ ends[0] = 0
          /\ Len(tokens) \in Nat
          /\ Len(pairs) > 0 => Len(tokens) = ends[Len(pairs)] - cut
          /\ Len(pairs) = 0 => Len(tokens) = 0
      BY <1>7, <2>8, <3>1, Zenon DEF n
    <3>3. ASSUME NEW k \in 0 .. Len(pairs) - 1
          PROVE  /\ ends[k + 1] = ends[k] + Len(Own(pairs, styles, k + 1))
                 /\ Len(Own(pairs, styles, k + 1)) \in 1 .. 3
                 /\ ends[k + 1] <= ends[Len(pairs)]
                 /\ \A j \in 1 .. Len(Own(pairs, styles, k + 1)) :
                      ends[k] + j <= Len(tokens) => tokens[ends[k] + j] = Own(pairs, styles, k + 1)[j]
      BY <1>10, <2>7, Zenon DEF n
    <3>4. QED
      BY <3>2, <3>3, Zenon DEF Ends
  <2>10. QED
    BY <2>9
<1>13. QED
  BY <1>1, <1>11, <1>12

\* The loop, between two registers of a line or stopped at one.
Between(pairs, ends, k) == Going(ends[k] + 1, SubSeq(pairs, 1, k))
StoppedAt(pairs, ends, k) == Stopped(ends[k] + 1, SubSeq(pairs, 1, k))
Reached(pairs, ends) ==
    {Between(pairs, ends, k) : k \in 0 .. Len(pairs)} \cup {StoppedAt(pairs, ends, k) : k \in 0 .. Len(pairs)}

LEMMA TurnGoes ==
    ASSUME NEW pairs \in Seq(Monitor!Registers), NEW styles \in [DOMAIN pairs -> Styles],
           NEW cut \in 0 .. 1, NEW tokens, NEW ends, Ends(pairs, styles, cut, tokens, ends),
           NEW k \in 0 .. Len(pairs) - 1
    PROVE  /\ ends[k + 1] <= Len(tokens) =>
                Monitor!TakePair(tokens, Between(pairs, ends, k)) = Between(pairs, ends, k + 1)
           /\ cut = 0 => ends[k + 1] <= Len(tokens)
           /\ ~(ends[k + 1] <= Len(tokens)) =>
                Monitor!TakePair(tokens, Between(pairs, ends, k)) \in
                  {Between(pairs, ends, k), StoppedAt(pairs, ends, k)}
<1> DEFINE n == Len(pairs)
<1> DEFINE own == Own(pairs, styles, k + 1)
<1> DEFINE before == ends[k]
<1> DEFINE after == ends[k + 1]
<1> DEFINE first == SubSeq(pairs, 1, k)
<1> DEFINE pair == pairs[k + 1]
<1>1. /\ n \in Nat /\ n > 0 /\ DOMAIN pairs = 1 .. n /\ k + 1 \in 1 .. n /\ k \in 0 .. n /\ k + 1 \in 0 .. n /\ n \in 0 .. n
  OBVIOUS
<1>2. pair \in Monitor!Registers /\ styles[k + 1] \in Styles
  BY <1>1
<1>3. IsWritten(pair, styles[k + 1], own) /\ Len(own) \in 1 .. 3
  BY <1>2, WrittenIs DEF Own
<1>4. /\ \A i \in 0 .. n : ends[i] \in Nat
      /\ Len(tokens) \in Nat
      /\ Len(tokens) = ends[n] - cut
  BY <1>1 DEF Ends
<1>5. /\ after = before + Len(own) /\ after <= ends[n]
      /\ \A j \in 1 .. Len(own) : before + j <= Len(tokens) => tokens[before + j] = own[j]
  BY Zenon DEF Ends
<1>6. before \in Nat /\ after \in Nat /\ ends[n] \in Nat
  BY <1>1, <1>4
<1>7. SubSeq(pairs, 1, k + 1) = Append(first, pair)
  BY FirstGrows, Zenon
<1> DEFINE last == ends[n]
<1> DEFINE len == Len(tokens)
<1> DEFINE w == Len(own)
<1>8. /\ last \in Nat /\ len \in Nat /\ len = last - cut /\ after = before + w /\ after <= last
      /\ before \in Nat /\ after \in Nat /\ w \in 1 .. 3
  BY <1>3, <1>4, <1>5, <1>6
<1> HIDE DEF own, before, after, first, pair, n, last, len, w
<1>9. /\ cut = 0 => after <= len
      /\ ~(after <= len) => before + w = len + 1
      /\ after <= len => before + w <= len
      /\ (before + 1) + w = after + 1
  BY <1>8
<1>10. ASSUME after <= len
       PROVE  Monitor!TakePair(tokens, Between(pairs, ends, k)) = Between(pairs, ends, k + 1)
  <2>1. \A j \in 1 .. w : before + j <= len
    BY <1>8, <1>9, <1>10
  <2>2. \A j \in 1 .. Len(own) : tokens[before + j] = own[j]
    BY <1>5, <2>1 DEF w, len
  <2>3. before + Len(own) <= Len(tokens) /\ Len(tokens) \in Nat /\ before \in Nat
    BY <1>8, <1>9, <1>10 DEF w, len
  <2>4. Monitor!TakePair(tokens, Going(before + 1, first)) =
          Going((before + 1) + Len(own), Append(first, pair))
    <3> DEFINE style == styles[k + 1]
    <3>1. pair \in Monitor!Registers /\ style \in Styles /\ IsWritten(pair, style, own) /\ Len(own) \in 1 .. 3
      BY <1>2, <1>3
    <3> HIDE DEF style
    <3>2. QED
      BY ONLY <2>2, <2>3, <3>1, PairIsTaken
  <2>5. Going((before + 1) + Len(own), Append(first, pair)) = Between(pairs, ends, k + 1)
    BY <1>7, <1>9, Zenon DEF Between, after, w
  <2>6. Going(before + 1, first) = Between(pairs, ends, k)
    BY DEF Between, before, first
  <2>7. QED
    BY <2>4, <2>5, <2>6, Zenon
<1>11. ASSUME ~(after <= len)
       PROVE  Monitor!TakePair(tokens, Between(pairs, ends, k)) \in
                {Between(pairs, ends, k), StoppedAt(pairs, ends, k)}
  <2>1. \A j \in 1 .. w - 1 : j \in 1 .. w /\ before + j <= len
    BY <1>8, <1>9, <1>11
  <2>2. \A j \in 1 .. Len(own) - 1 : tokens[before + j] = own[j]
    BY <1>5, <2>1 DEF w, len
  <2>3. before + Len(own) = Len(tokens) + 1 /\ Len(tokens) \in Nat /\ before \in Nat
    BY <1>8, <1>9, <1>11 DEF w, len
  <2>4. Monitor!TakePair(tokens, Going(before + 1, first)) \in
          {Going(before + 1, first), Stopped(before + 1, first)}
    BY <1>2, <1>3, <2>2, <2>3, CutIsRefused, Zenon
  <2>5. /\ Going(before + 1, first) = Between(pairs, ends, k)
        /\ Stopped(before + 1, first) = StoppedAt(pairs, ends, k)
    BY DEF Between, StoppedAt, before, first
  <2>6. QED
    BY <2>4, <2>5, Zenon
<1>12. QED
  BY <1>9, <1>10, <1>11, Zenon DEF after, len

\* Whatever the loop comes to, it stays within what it can reach.
LEMMA TurnStays ==
    ASSUME NEW pairs \in Seq(Monitor!Registers), NEW styles \in [DOMAIN pairs -> Styles],
           NEW cut \in 0 .. 1, NEW tokens, NEW ends, Ends(pairs, styles, cut, tokens, ends)
    PROVE  /\ \A s \in Reached(pairs, ends) : Monitor!TakePair(tokens, s) \in Reached(pairs, ends)
           /\ Monitor!TakePair(tokens, Between(pairs, ends, Len(pairs))) = Between(pairs, ends, Len(pairs))
<1> DEFINE n == Len(pairs)
<1>1. n \in Nat
  OBVIOUS
<1>2. \A k \in 0 .. n : Between(pairs, ends, k) \in Reached(pairs, ends) /\ StoppedAt(pairs, ends, k) \in Reached(pairs, ends)
  BY Zenon DEF Reached
<1>3. Len(tokens) \in Nat /\ \A k \in 0 .. n : ends[k] \in Nat
  BY DEF Ends
<1>4. ends[n] + 1 > Len(tokens) /\ ends[n] + 1 \in Nat
  <2>1. n \in 0 .. n
    BY <1>1
  <2>2. ends[n] \in Nat
    BY <1>3, <2>1
  <2>3. CASE n = 0
    <3>1. Len(tokens) = 0
      BY <2>3 DEF Ends
    <3>2. QED
      BY <2>2, <3>1
  <2>4. CASE n > 0
    <3>1. Len(tokens) = ends[n] - cut
      BY <2>4 DEF Ends
    <3> DEFINE last == ends[n]
    <3> DEFINE len == Len(tokens)
    <3>2. len = last - cut /\ last \in Nat /\ len \in Nat
      BY <1>3, <2>2, <3>1
    <3> HIDE DEF last, len
    <3>3. last + 1 > len /\ last + 1 \in Nat
      BY <3>2
    <3>4. QED
      BY <3>3 DEF last, len
  <2>5. QED
    BY <1>1, <2>3, <2>4
<1>5. Monitor!TakePair(tokens, Between(pairs, ends, n)) = Between(pairs, ends, n)
  <2> DEFINE at == ends[n] + 1
  <2>1. at \in Nat /\ at > Len(tokens) /\ Len(tokens) \in Nat
    BY <1>3, <1>4
  <2> HIDE DEF at
  <2>2. Monitor!TakePair(tokens, Going(at, SubSeq(pairs, 1, n))) = Going(at, SubSeq(pairs, 1, n))
    BY <2>1, NothingLeft, Zenon
  <2>3. QED
    BY <2>2, Zenon DEF Between, at
<1>6. ASSUME NEW k \in 0 .. n
      PROVE  Monitor!TakePair(tokens, StoppedAt(pairs, ends, k)) = StoppedAt(pairs, ends, k)
  <2> DEFINE at == ends[k] + 1
  <2>1. at \in Nat /\ Len(tokens) \in Nat
    BY <1>3
  <2> HIDE DEF at
  <2>2. Monitor!TakePair(tokens, Stopped(at, SubSeq(pairs, 1, k))) = Stopped(at, SubSeq(pairs, 1, k))
    BY <2>1, NothingLeft, Zenon
  <2>3. QED
    BY <2>2, Zenon DEF StoppedAt, at
<1>7. ASSUME NEW k \in 0 .. n
      PROVE  Monitor!TakePair(tokens, Between(pairs, ends, k)) \in Reached(pairs, ends)
  <2>1. CASE k = n
    BY <1>2, <1>5, <2>1, Zenon
  <2>2. CASE k # n
    <3>1. k \in 0 .. Len(pairs) - 1 /\ k + 1 \in 0 .. n
      BY <1>1, <2>2
    <3>2. Monitor!TakePair(tokens, Between(pairs, ends, k)) \in
            {Between(pairs, ends, k), StoppedAt(pairs, ends, k), Between(pairs, ends, k + 1)}
      <4>1. /\ ends[k + 1] <= Len(tokens) =>
                 Monitor!TakePair(tokens, Between(pairs, ends, k)) = Between(pairs, ends, k + 1)
            /\ ~(ends[k + 1] <= Len(tokens)) =>
                 Monitor!TakePair(tokens, Between(pairs, ends, k)) \in
                   {Between(pairs, ends, k), StoppedAt(pairs, ends, k)}
        BY <3>1, TurnGoes
      <4>2. QED
        BY <4>1, Zenon
    <3>3. QED
      BY <1>2, <3>1, <3>2, Zenon
  <2>3. QED
    BY <2>1, <2>2, Zenon
<1> HIDE DEF n
<1>8. ASSUME NEW s \in Reached(pairs, ends) PROVE Monitor!TakePair(tokens, s) \in Reached(pairs, ends)
  <2>1. \E k \in 0 .. n : s = Between(pairs, ends, k) \/ s = StoppedAt(pairs, ends, k)
    BY <1>8, Zenon DEF Reached, n
  <2>2. PICK k \in 0 .. n : s = Between(pairs, ends, k) \/ s = StoppedAt(pairs, ends, k)
    BY <2>1, Zenon
  <2>3. QED
    BY <1>2, <1>6, <1>7, <2>2, Zenon
<1>9. QED
  BY <1>5, <1>8, Zenon DEF n

\* The loop's states, from the first token on.
Looped(pairs, ends, tokens, loop) ==
    /\ loop[0] = Between(pairs, ends, 0)
    /\ \A m \in 1 .. Len(tokens) : loop[m] = Monitor!TakePair(tokens, loop[m - 1])

LEMMA LoopIsThere ==
    ASSUME NEW pairs \in Seq(Monitor!Registers), NEW styles \in [DOMAIN pairs -> Styles],
           NEW cut \in 0 .. 1, NEW tokens, NEW ends, Ends(pairs, styles, cut, tokens, ends)
    PROVE  \E loop : /\ Looped(pairs, ends, tokens, loop)
                     /\ Monitor!parse_register_pairs(tokens) = loop[Len(tokens)]
<1> DEFINE len == Len(tokens)
<1> DEFINE first == Going(1, <<>>)
<1> DEFINE T == Reached(pairs, ends)
<1> DEFINE turn(s) == Monitor!TakePair(tokens, s)
<1> DEFINE Is(f) == f = [n \in 0 .. len |-> IF n = 0 THEN first ELSE turn(f[n - 1])]
<1> DEFINE loop == CHOOSE f : Is(f)
<1>1. len \in Nat
  BY DEF Ends
<1>2. Monitor!parse_register_pairs(tokens) = loop[len]
  BY Zenon DEF Monitor!parse_register_pairs, Going
<1>3. first = Between(pairs, ends, 0) /\ first \in T
  <2>1. ends[0] = 0 /\ 0 \in 0 .. Len(pairs)
    BY DEF Ends
  <2>2. SubSeq(pairs, 1, 0) = <<>> /\ ends[0] + 1 = 1
    BY <2>1, SubSeqEmpty
  <2>3. first = Between(pairs, ends, 0)
    BY <2>2, Zenon DEF Between
  <2>4. Between(pairs, ends, 0) \in T
    BY <2>1, Zenon DEF Reached
  <2>5. QED
    BY <2>3, <2>4
<1>4. \A s \in T : turn(s) \in T
  BY TurnStays, Zenon
<1> HIDE DEF first, turn, T, len
<1>5. \E f : Is(f)
  <2> DEFINE step == [m \in 1 .. len |-> [s \in T |-> turn(s)]]
  <2>1. step \in [1 .. len -> [T -> T]] /\ \A m \in 1 .. len : \A s \in T : step[m][s] = turn(s)
    BY <1>4
  <2> HIDE DEF step
  <2>2. PICK f : Follows(f, len, T, first, step)
    BY <1>1, <1>3, <2>1, Recursion
  <2>3. f \in [0 .. len -> T] /\ f[0] = first /\ \A m \in 1 .. len : f[m] = step[m][f[m - 1]]
    BY <2>2 DEF Follows
  <2>4. \A m \in 1 .. len : f[m] = turn(f[m - 1])
    BY <1>1, <2>1, <2>3
  <2>5. \A m \in 0 .. len : f[m] = IF m = 0 THEN first ELSE turn(f[m - 1])
    BY <1>1, <2>3, <2>4
  <2>6. Is(f)
    BY <2>3, <2>5
  <2> HIDE DEF Is
  <2>7. QED
    BY <2>6
<1> HIDE DEF Is
<1>6. Is(loop)
  BY <1>5
<1> HIDE DEF loop
<1>7. loop[0] = first /\ \A m \in 1 .. len : loop[m] = turn(loop[m - 1])
  BY <1>1, <1>6 DEF Is
<1>8. Looped(pairs, ends, tokens, loop)
  BY <1>3, <1>7 DEF Looped, turn, len
<1>9. QED
  BY <1>2, <1>8 DEF len

LEMMA LoopEnds ==
    ASSUME NEW pairs \in Seq(Monitor!Registers), NEW styles \in [DOMAIN pairs -> Styles],
           NEW cut \in 0 .. 1, NEW tokens, NEW ends, Ends(pairs, styles, cut, tokens, ends),
           NEW loop, Looped(pairs, ends, tokens, loop)
    PROVE  /\ loop[Len(tokens)] \in Reached(pairs, ends)
           /\ cut = 0 => loop[Len(tokens)] = Between(pairs, ends, Len(pairs))
<1> DEFINE n == Len(pairs)
<1> DEFINE len == Len(tokens)
<1> DEFINE T == Reached(pairs, ends)
<1> DEFINE turn(s) == Monitor!TakePair(tokens, s)
<1> DEFINE B(k) == Between(pairs, ends, k)
<1>1. n \in Nat /\ len \in Nat
  BY DEF Ends
<1>2. loop[0] = B(0) /\ \A m \in 1 .. len : loop[m] = turn(loop[m - 1])
  BY DEF Looped
<1>3. (\A s \in T : turn(s) \in T) /\ turn(B(n)) = B(n)
  BY TurnStays, Zenon
<1>4. B(0) \in T
  <2>1. 0 \in 0 .. Len(pairs)
    BY <1>1
  <2>2. QED
    BY <2>1, Zenon DEF Reached
<1>5. ASSUME NEW k \in 0 .. n - 1, cut = 0 PROVE turn(B(k)) = B(k + 1)
  <2>1. /\ ends[k + 1] <= Len(tokens) => turn(B(k)) = B(k + 1)
        /\ ends[k + 1] <= Len(tokens)
    BY <1>5, TurnGoes
  <2>2. QED
    BY <2>1, Zenon
<1>6. cut = 0 => n <= len
  <2> SUFFICES ASSUME cut = 0 PROVE n <= len
    OBVIOUS
  <2> DEFINE S == {k \in 0 .. n : ends[k] \in Nat /\ k <= ends[k]}
  <2>1. 0 \in S
    BY <1>1 DEF Ends
  <2>2. ASSUME NEW k \in 0 .. n - 1, k \in S PROVE k + 1 \in S
    <3> DEFINE w == Len(Own(pairs, styles, k + 1))
    <3> DEFINE a == ends[k]
    <3> DEFINE b == ends[k + 1]
    <3>1. b = a + w /\ w \in 1 .. 3
      BY DEF Ends
    <3>2. a \in Nat /\ k <= a /\ k \in Nat /\ k + 1 \in 0 .. n
      BY <1>1, <2>2
    <3> HIDE DEF a, b, w
    <3>3. b \in Nat /\ k + 1 <= b
      BY <3>1, <3>2
    <3>4. QED
      BY <3>2, <3>3 DEF b
  <2> HIDE DEF S, n
  <2>3. \A k \in 0 .. n - 1 : k \in S => k + 1 \in S
    BY <2>2
  <2>4. \A k \in 0 .. n : k \in S
    BY <1>1, <2>1, <2>3, Induction
  <2>5. n \in S
    BY <1>1, <2>4
  <2>6. ends[n] \in Nat /\ n <= ends[n]
    BY <2>5 DEF S
  <2>7. /\ n > 0 => len = ends[n] - cut
        /\ n = 0 => len = 0
    BY DEF Ends, n
  <2>8. CASE n = 0
    BY <1>1, <2>8
  <2>9. CASE n > 0
    <3> DEFINE last == ends[n]
    <3>1. last \in Nat /\ n <= last /\ len = last - 0
      BY <2>6, <2>7, <2>9
    <3> HIDE DEF last, len
    <3>2. QED
      BY <1>1, <3>1
  <2>10. QED
    BY <1>1, <2>8, <2>9
<1> HIDE DEF T, turn, B, n, len
<1>7. loop[len] \in T
  <2> DEFINE S == {m \in 0 .. len : loop[m] \in T}
  <2>1. 0 \in S
    BY <1>1, <1>2, <1>4
  <2>2. ASSUME NEW m \in 0 .. len - 1, m \in S PROVE m + 1 \in S
    <3>1. m + 1 \in 1 .. len /\ (m + 1) - 1 = m
      BY <1>1
    <3>2. loop[m + 1] = turn(loop[m])
      BY <1>2, <3>1
    <3>3. QED
      BY <1>3, <2>2, <3>1, <3>2
  <2> HIDE DEF S
  <2>3. \A m \in 0 .. len : m \in S
    BY <1>1, <2>1, <2>2, Induction
  <2>4. QED
    BY <1>1, <2>3 DEF S
<1>8. ASSUME cut = 0 PROVE loop[len] = B(n)
  <2> DEFINE S == {m \in 0 .. len : loop[m] = IF m <= n THEN B(m) ELSE B(n)}
  <2>1. 0 \in S
    BY <1>1, <1>2
  <2>2. ASSUME NEW m \in 0 .. len - 1, m \in S PROVE m + 1 \in S
    <3>1. m + 1 \in 1 .. len /\ (m + 1) - 1 = m /\ m + 1 \in 0 .. len /\ m \in Nat
      BY <1>1
    <3>2. loop[m + 1] = turn(loop[m])
      BY <1>2, <3>1
    <3>3. CASE m < n
      <4>1. loop[m] = B(m) /\ m \in 0 .. n - 1 /\ m + 1 <= n
        BY <1>1, <2>2, <3>1, <3>3
      <4>2. loop[m + 1] = B(m + 1)
        BY <1>5, <1>8, <3>2, <4>1
      <4>3. QED
        BY <3>1, <4>1, <4>2
    <3>4. CASE ~(m < n)
      <4>1. loop[m] = B(n)
        <5>1. CASE m = n
          BY <2>2, <1>1, <5>1
        <5>2. CASE m # n
          BY <2>2, <1>1, <3>1, <3>4, <5>2
        <5>3. QED
          BY <5>1, <5>2
      <4>2. loop[m + 1] = B(n) /\ ~(m + 1 <= n)
        BY <1>1, <1>3, <3>1, <3>2, <3>4, <4>1
      <4>3. QED
        BY <3>1, <4>2
    <3>5. QED
      BY <3>3, <3>4
  <2> HIDE DEF S
  <2>3. \A m \in 0 .. len : m \in S
    BY <1>1, <2>1, <2>2, Induction
  <2>4. len \in S
    BY <1>1, <2>3
  <2>5. loop[len] = IF len <= n THEN B(len) ELSE B(n)
    BY <2>4 DEF S
  <2>6. len <= n => len = n
    BY <1>1, <1>6, <1>8
  <2>7. QED
    BY <2>5, <2>6
<1>9. QED
  BY <1>7, <1>8, Zenon DEF T, B, n, len

PairsInv ==
    /\ job.pairs \in Seq(Monitor!Registers) /\ job.cut \in 0 .. 1
    /\ \E styles \in [DOMAIN job.pairs -> Styles] : job.tokens = Printing(job.pairs, styles, job.cut)

LEMMA PairsShow == PairsInv => Monitor!RegistersAreThose
<1> SUFFICES ASSUME PairsInv PROVE Monitor!RegistersAreThose
  OBVIOUS
<1> DEFINE pairs == job.pairs
<1> DEFINE cut == job.cut
<1> DEFINE tokens == job.tokens
<1> DEFINE parsed == Monitor!parse_register_pairs(tokens)
<1>1. pairs \in Seq(Monitor!Registers) /\ cut \in 0 .. 1
  BY DEF PairsInv
<1>2. PICK styles \in [DOMAIN pairs -> Styles] : tokens = Printing(pairs, styles, cut)
  BY DEF PairsInv
<1> HIDE DEF pairs, cut, tokens
<1>3. PICK ends : Ends(pairs, styles, cut, tokens, ends)
  BY <1>1, <1>2, EndsAre
<1>4. PICK loop : Looped(pairs, ends, tokens, loop) /\ parsed = loop[Len(tokens)]
  BY <1>1, <1>3, LoopIsThere
<1> HIDE DEF parsed
<1>5. parsed \in Reached(pairs, ends) /\ (cut = 0 => parsed = Between(pairs, ends, Len(pairs)))
  <2>1. /\ loop[Len(tokens)] \in Reached(pairs, ends)
        /\ cut = 0 => loop[Len(tokens)] = Between(pairs, ends, Len(pairs))
    BY <1>1, <1>3, <1>4, LoopEnds
  <2>2. QED
    BY <1>4, <2>1
<1>6. \A k : /\ Between(pairs, ends, k).ok /\ Between(pairs, ends, k).pairs = SubSeq(pairs, 1, k)
             /\ ~StoppedAt(pairs, ends, k).ok
  BY DEF Between, StoppedAt, Going, Stopped
<1>7. cut = 0 => parsed.ok /\ parsed.pairs = pairs
  <2>1. SubSeq(pairs, 1, Len(pairs)) = pairs
    BY <1>1, SubSeqFull
  <2>2. QED
    BY <1>5, <1>6, <2>1, Zenon
<1>8. parsed.ok => Monitor!IsPrefix(parsed.pairs, pairs)
  <2> SUFFICES ASSUME parsed.ok PROVE Monitor!IsPrefix(parsed.pairs, pairs)
    OBVIOUS
  <2>1. \E k \in 0 .. Len(pairs) : parsed = Between(pairs, ends, k) \/ parsed = StoppedAt(pairs, ends, k)
    BY <1>5, Zenon DEF Reached
  <2>2. PICK k \in 0 .. Len(pairs) : parsed = Between(pairs, ends, k) \/ parsed = StoppedAt(pairs, ends, k)
    BY <2>1, Zenon
  <2>3. parsed.pairs = SubSeq(pairs, 1, k)
    BY <1>6, <2>2, Zenon
  <2>4. QED
    BY <1>1, <2>3, FirstIsPrefix
<1>9. IF cut = 0 THEN parsed.ok /\ parsed.pairs = pairs
      ELSE parsed.ok => Monitor!IsPrefix(parsed.pairs, pairs)
  BY <1>7, <1>8
<1>10. QED
  BY <1>9, Zenon DEF Monitor!RegistersAreThose, parsed, tokens, cut, pairs

\* Each text of the monitor has its own invariant.
MonitorInv ==
    /\ job.kind = "report" => ReportInv
    /\ job.kind = "leaves" => LeavesInv
    /\ job.kind = "flags" => FlagsInv
    /\ job.kind = "pairs" => PairsInv
    /\ job.kind = "xp" => XpInv

LEMMA BoundedIs ==
    ASSUME NEW S, NEW bound, NEW s \in Monitor!SeqOf(S, bound)
    PROVE  s \in Seq(S) /\ \E n \in Nat : s \in [1 .. n -> S]
<1>1. PICK n \in 0 .. bound : s \in [1 .. n -> S]
  BY DEF Monitor!SeqOf
<1>2. n \in Nat
  BY <1>1
<1>3. s \in Seq(S)
  BY <1>1, <1>2
<1>4. QED
  BY <1>1, <1>2, <1>3

LEMMA MonitorBegins == Monitor!Init => MonitorInv
<1> SUFFICES ASSUME Monitor!Init PROVE MonitorInv
  OBVIOUS
<1>1. CASE \E report \in Monitor!Reports : \E text \in Monitor!SeqOf(Monitor!Lines(report), MaxReportLines) :
             job = Monitor!Report(report, text)
  <2>1. PICK report \in Monitor!Reports : \E text \in Monitor!SeqOf(Monitor!Lines(report), MaxReportLines) :
             job = Monitor!Report(report, text)
    BY <1>1
  <2>2. PICK text \in Monitor!SeqOf(Monitor!Lines(report), MaxReportLines) : job = Monitor!Report(report, text)
    BY <2>1
  <2>3. PICK n \in Nat : text \in [1 .. n -> Monitor!Lines(report)]
    BY <2>2, BoundedIs
  <2>4. ReportInv
    BY <2>2, <2>3, ReportStarts
  <2>5. job.kind = "report"
    BY <2>2 DEF Monitor!Report
  <2>6. QED
    BY <2>4, <2>5 DEF MonitorInv
<1>2. CASE \E sizes \in Monitor!SeqOf({1, 2, 8}, MaxPages) : job = [kind |-> "leaves", sizes |-> sizes]
  <2>1. PICK sizes \in Monitor!SeqOf({1, 2, 8}, MaxPages) : job = [kind |-> "leaves", sizes |-> sizes]
    BY <1>2
  <2>2. job.kind = "leaves" /\ job.sizes \in Seq({1, 2, 8})
    BY <2>1, BoundedIs
  <2>3. QED
    BY <2>2 DEF MonitorInv, LeavesInv
<1>3. CASE \E text \in Monitor!SeqOf(Monitor!ToSet(Monitor!Columns) \cup {"-"}, Len(Monitor!Columns) + 1) :
             job = [kind |-> "flags", text |-> text]
  <2> DEFINE Letters == Monitor!ToSet(Monitor!Columns) \cup {"-"}
  <2> DEFINE most == Len(Monitor!Columns) + 1
  <2>1. PICK text \in Monitor!SeqOf(Letters, most) : job = [kind |-> "flags", text |-> text]
    BY <1>3
  <2>2. Letters = {"X", "G", "P", "D", "-"}
    BY DEF Monitor!ToSet, Monitor!Columns
  <2> HIDE DEF Letters, most
  <2>3. job.kind = "flags" /\ job.text \in Seq(Letters)
    BY <2>1, BoundedIs
  <2>4. QED
    BY <2>2, <2>3 DEF MonitorInv, FlagsInv
<1>4. CASE \E pairs \in Monitor!SeqOf(Monitor!Registers, MaxPairs) :
             \E styles \in [DOMAIN pairs -> {"joined", "padded", "apart"}] : \E cut \in 0 .. 1 :
               job = [kind |-> "pairs", pairs |-> pairs, cut |-> cut, tokens |->
                        LET all == Monitor!FlattenSeq([i \in DOMAIN pairs |-> Monitor!Written(pairs[i], styles[i])])
                        IN  IF all = <<>> THEN all ELSE SubSeq(all, 1, Len(all) - cut)]
  <2>1. PICK pairs \in Monitor!SeqOf(Monitor!Registers, MaxPairs) :
             \E styles \in [DOMAIN pairs -> Styles] : \E cut \in 0 .. 1 :
               job = [kind |-> "pairs", pairs |-> pairs, cut |-> cut, tokens |-> Printing(pairs, styles, cut)]
    BY <1>4, Zenon DEF Printing, All, Styles
  <2>2. PICK styles \in [DOMAIN pairs -> Styles] : \E cut \in 0 .. 1 :
               job = [kind |-> "pairs", pairs |-> pairs, cut |-> cut, tokens |-> Printing(pairs, styles, cut)]
    BY <2>1
  <2>3. PICK cut \in 0 .. 1 :
               job = [kind |-> "pairs", pairs |-> pairs, cut |-> cut, tokens |-> Printing(pairs, styles, cut)]
    BY <2>2
  <2>4. pairs \in Seq(Monitor!Registers)
    BY BoundedIs
  <2>5. /\ job.kind = "pairs" /\ job.pairs = pairs /\ job.cut = cut
        /\ job.tokens = Printing(pairs, styles, cut)
    BY <2>3
  <2>6. PairsInv
    BY <2>4, <2>5 DEF PairsInv
  <2>7. QED
    BY <2>5, <2>6 DEF MonitorInv
<1>5. CASE \E address \in {1, 6}, count \in 0 .. MaxCount : job = Monitor!Xp(address, count)
  <2>1. PICK address \in {1, 6}, count \in 0 .. MaxCount : job = Monitor!Xp(address, count)
    BY <1>5
  <2>2. address \in Nat /\ count \in Nat
    BY <2>1
  <2>3. XpInv
    BY <2>1, <2>2, XpStarts
  <2>4. job.kind = "xp"
    BY <2>1 DEF Monitor!Xp
  <2>5. QED
    BY <2>3, <2>4 DEF MonitorInv
<1>6. QED
  BY <1>1, <1>2, <1>3, <1>4, <1>5, Zenon DEF Monitor!Init

LEMMA MonitorKeep ==
    ASSUME MonitorInv, [Monitor!Next]_job, HasKind, HasKind', job'.kind = job.kind
    PROVE  MonitorInv'
<1>1. CASE UNCHANGED job
  BY <1>1 DEF MonitorInv, ReportInv, LeavesInv, FlagsInv, PairsInv, XpInv
<1>2. CASE Monitor!Next
  <2>1. job.kind \in {"report", "xp"}
    BY <1>2, MonitorStep DEF Stays
  <2>2. CASE job.kind = "report"
    <3>1. ReportInv'
      BY <1>2, <2>2, ReportKeeps DEF MonitorInv
    <3>2. QED
      BY <2>2, <3>1 DEF MonitorInv
  <2>3. CASE job.kind = "xp"
    <3>1. XpInv'
      BY <1>2, <2>3, XpKeeps DEF MonitorInv
    <3>2. QED
      BY <2>3, <3>1 DEF MonitorInv
  <2>4. QED
    BY <2>1, <2>2, <2>3
<1>3. QED
  BY <1>1, <1>2

LEMMA MonitorShow == MonitorInv => Monitor!MonitorIsUnderstood
<1> SUFFICES ASSUME MonitorInv PROVE Monitor!MonitorIsUnderstood
  OBVIOUS
<1>1. Monitor!NothingIsSkipped
  <2>1. CASE job.kind = "report"
    BY <2>1, ReportShows DEF MonitorInv
  <2>2. QED
    BY <2>1 DEF Monitor!NothingIsSkipped
<1>2. Monitor!GranularityIsStride
  <2>1. CASE job.kind = "leaves"
    BY <2>1, LeavesShow DEF MonitorInv
  <2>2. QED
    BY <2>1 DEF Monitor!GranularityIsStride
<1>3. Monitor!FlagsAreColumns
  <2>1. CASE job.kind = "flags"
    BY <2>1, FlagsShow DEF MonitorInv
  <2>2. QED
    BY <2>1 DEF Monitor!FlagsAreColumns
<1>4. Monitor!RegistersAreThose
  <2>1. CASE job.kind = "pairs"
    BY <2>1, PairsShow DEF MonitorInv
  <2>2. QED
    BY <2>1 DEF Monitor!RegistersAreThose
<1>5. Monitor!BytesAreMemory
  <2>1. CASE job.kind = "xp"
    BY <2>1, XpShows DEF MonitorInv
  <2>2. QED
    BY <2>1 DEF Monitor!BytesAreMemory
<1>6. QED
  BY <1>1, <1>2, <1>3, <1>4, <1>5 DEF Monitor!MonitorIsUnderstood
-----------------------------------------------------------------------------
(* The debugged machine. *)

LEMMA WalkIsRead ==
    (job.kind = "walk" => WalkInv) => Pages!WalkIsTranslation /\ Pages!HoleIsExplained
<1>1. CASE job.kind = "walk"
  BY <1>1, WalkShows
<1>2. CASE job.kind # "walk"
  BY <1>2 DEF Pages!WalkIsTranslation, Pages!HoleIsExplained, Pages!Done
<1>3. QED
  BY <1>1, <1>2

MachineInv == HasKind /\ (job.kind = "walk" => WalkInv) /\ TablesInv /\ MonitorInv

LEMMA MachineStarts == InspectionInit => MachineInv
<1> SUFFICES ASSUME InspectionInit PROVE MachineInv
  OBVIOUS
<1>1. HasKind
  BY JobsStart
<1>2. job.kind = "walk" => WalkInv
  BY JobsStart, WalkStarts
<1>3. TablesInv
  <2>1. CASE job.kind \in TableKinds
    BY <2>1, JobsStart, TablesBegin
  <2>2. QED
    BY <2>1 DEF TablesInv, TableKinds
<1>4. MonitorInv
  <2>1. CASE job.kind \in MonitorKinds
    BY <2>1, JobsStart, MonitorBegins
  <2>2. QED
    BY <2>1 DEF MonitorInv, MonitorKinds
<1>5. QED
  BY <1>1, <1>2, <1>3, <1>4 DEF MachineInv

LEMMA MachineKeeps == MachineInv /\ [InspectionNext]_job => MachineInv'
<1> SUFFICES ASSUME MachineInv, [InspectionNext]_job PROVE MachineInv'
  OBVIOUS
<1>1. /\ HasKind /\ HasKind' /\ job'.kind = job.kind
      /\ job.kind = "walk" => [Pages!Next]_job
      /\ job.kind \in TableKinds => [Tables!Next]_job
      /\ job.kind \in MonitorKinds => [Monitor!Next]_job
  BY JobsStay DEF MachineInv
<1>2. job'.kind = "walk" => WalkInv'
  BY <1>1, WalkKeeps DEF MachineInv
<1>3. TablesInv'
  <2>1. CASE job.kind \in TableKinds
    BY <1>1, <2>1, TablesKeep DEF MachineInv
  <2>2. CASE job.kind \notin TableKinds
    BY <1>1, <2>2 DEF TablesInv, TableKinds
  <2>3. QED
    BY <2>1, <2>2
<1>4. MonitorInv'
  <2>1. CASE job.kind \in MonitorKinds
    BY <1>1, <2>1, MonitorKeep DEF MachineInv
  <2>2. CASE job.kind \notin MonitorKinds
    BY <1>1, <2>2 DEF MonitorInv, MonitorKinds
  <2>3. QED
    BY <2>1, <2>2
<1>5. QED
  BY <1>1, <1>2, <1>3, <1>4 DEF MachineInv

\* For any page tables, descriptor tables and texts of the monitor, of any size, and a memory
\* that may differ from one reading to the next (pagetable.rs, descriptor.rs, monitor.rs,
\* capability.rs): a walk gives the processor's translation and visits no table twice, a hole
\* is where the path shown leads, every descriptor is read at the slot it begins in, no line of
\* a report is skipped, a set of flags is read from one text alone, a line of registers gives
\* those that were printed and a cut one gives none a wrong value, and the bytes of the physical
\* memory are those asked for.
THEOREM MachineStaysRead == InspectionSpec => []MachineIsRead
<1>1. MachineInv => MachineIsRead
  BY WalkIsRead, TablesShow, MonitorShow DEF MachineInv, MachineIsRead
<1>2. QED
  BY <1>1, MachineStarts, MachineKeeps, PTL DEF InspectionSpec

-----------------------------------------------------------------------------
(* What is shown of an artifact. *)

\* For any line program, stack, symbol table and file, of any size, with a file that changes
\* and an artifact that is built again at any time (source.rs, symbol.rs, hex.rs, provider.rs,
\* disasm.rs): the two line tables agree, the frames are the stack that is there, the narrowest
\* symbol is named, the hex view shows the bytes of the file within its bound, and an artifact
\* that is opened again answers from no build before.
THEOREM ArtifactStaysShown == InspectionSpec => []ArtifactIsShown
<1>1. InspectionInit => ViewsInv
  <2> SUFFICES ASSUME InspectionInit PROVE ViewsInv
    OBVIOUS
  <2>1. CASE job.kind \in Views
    BY <2>1, JobsStart, ViewsStart
  <2>2. CASE job.kind \notin Views
    BY <2>2, JobsStart DEF ViewsInv, Views
  <2>3. QED
    BY <2>1, <2>2
<1>2. ViewsInv /\ [InspectionNext]_job => ViewsInv'
  <2> SUFFICES ASSUME ViewsInv, [InspectionNext]_job PROVE ViewsInv'
    OBVIOUS
  <2>1. HasKind' /\ job'.kind = job.kind /\ (job.kind \in Views => [Artifact!Next]_job)
    BY JobsStay DEF ViewsInv
  <2>2. CASE job.kind \in Views
    BY <2>1, <2>2, ViewsKeep
  <2>3. CASE job.kind \notin Views
    BY <2>1, <2>3 DEF ViewsInv, Views
  <2>4. QED
    BY <2>2, <2>3
<1>3. ViewsInv => ArtifactIsShown
  BY ViewsShow DEF ArtifactIsShown
<1>4. QED
  BY <1>1, <1>2, <1>3, PTL DEF InspectionSpec
=============================================================================
