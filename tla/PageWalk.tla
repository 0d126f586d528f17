------------------------------ MODULE PageWalk ------------------------------
(***************************************************************************)
(* The page-table walk of princess-bin (pagetable.rs) over a guest memory  *)
(* (guestmem.rs) that the guest may change while it is read: an entry is   *)
(* whatever the memory answers at the moment of the read.                  *)
(*                                                                         *)
(* Addresses are scaled down: an index has one bit, a page holds no        *)
(* offset, a word has WordBits bits.  A physical address is the number of  *)
(* its frame, so a 2M leaf covers 2 frames and a 1G leaf 4.                *)
(***************************************************************************)
EXTENDS Naturals, Sequences, SequencesExt, FiniteSets

CONSTANTS
    Addresses,  \* the virtual addresses asked for, words
    Entries,    \* what an entry can read as: [p, ps : BOOLEAN, to : frame]
    RamFrames   \* GuestMemory::ram_size, in frames

VARIABLE job

WordBits == 7
Words == 0..(2^WordBits - 1)
Level == [Pml5 |-> 4, Pml4 |-> 3, Pdpt |-> 2, Pd |-> 1, Pt |-> 0]   \* lowest address bit of its index
Levels(la57) == (IF la57 THEN <<"Pml5">> ELSE <<>>) \o <<"Pml4", "Pdpt", "Pd", "Pt">>

Bit(word, n) == (word \div 2^n) % 2
Index(va, level) == Bit(va, Level[level])

\* Sign-extending the low bits gives the word back.
Canonical(va, bits) == \A n \in bits..(WordBits - 1) : Bit(va, n) = Bit(va, bits - 1)

IsRam(frame) == frame < RamFrames

huge_page_allowed(level) == level \in {"Pdpt", "Pd"}

\* The bits below the size of the leaf are not address bits.
FourKiloMask(level, entry) == entry.to    \* mutant
LeafBase(level, entry) ==
    entry.to - (entry.to % (IF entry.ps THEN 2^Level[level] ELSE 1))
Offset(level, va) == va % 2^Level[level]

-----------------------------------------------------------------------------
\* Walker::new and walk_from_registers: what must hold before the first read.
Refusal(regs, va) ==
    CASE ~regs.pg -> "PagingDisabled"
      [] ~regs.efer -> "EferMissing"
      [] ~regs.lma -> "NotLongMode"
      [] ~Canonical(va, IF regs.la57 THEN 5 ELSE 4) -> "NonCanonical"
      [] OTHER -> "none"

Init ==
    \E regs \in [pg : BOOLEAN, efer : BOOLEAN, lma : BOOLEAN, la57 : BOOLEAN, cr3 : {0, RamFrames}],
       va \in Addresses, running \in BOOLEAN :
        /\ ~regs.efer => ~regs.lma
        /\ job = [kind |-> "walk", regs |-> regs, va |-> va, running |-> running, pass |-> 1,
                  pc |-> IF Refusal(regs, va) = "none" THEN "table" ELSE "done",
                  result |-> Refusal(regs, va), at |-> "none", physical |-> 0,
                  table |-> regs.cr3, visited |-> <<>>, path |-> <<>>, hole |-> <<>>]

level ==
    Levels(job.regs.la57)[Len(job.path) + 1]
End(result) == job' = [job EXCEPT !.pc = "done", !.result = result, !.at = level]

\* Both guards of a table, before it is read; walk and partial_path have them.
Table ==
    /\ job.kind = "walk" /\ job.pc = "table"
    /\ IF ~IsRam(job.table) THEN End("TableNotInRam")
       ELSE IF job.table \in ToSet(job.visited) THEN End("Cycle")
       ELSE job' = [job EXCEPT !.pc = "read", !.visited = Append(@, job.table)]

\* A stopped guest answers the second reading as it did the first.
Again(answer) == job.pass = 2 /\ ~job.running => answer = job.hole[Len(job.path) + 1]

\* read_u64: what the memory holds now.
Read ==
    /\ job.kind = "walk" /\ job.pc = "read"
    /\ \E entry \in Entries :
         /\ Again(entry)
         /\ job' = [job EXCEPT !.pc = "look", !.path = Append(@, entry)]

\* It fails on its own: a dead session, an answer that is no number.
ReadFails ==
    /\ job.kind = "walk" /\ job.pc = "read" /\ (job.pass = 2 => job.running)
    /\ End("Memory")

here == Levels(job.regs.la57)[Len(job.path)]
last == Last(job.path)

LeafOf(entry) ==
    LET physical == LeafBase(here, entry) + Offset(here, job.va)
    IN  [job EXCEPT !.pc = "done", !.at = here, !.physical = physical,
                    !.result = IF IsRam(physical) THEN "ok" ELSE "LeafOutOfRange"]

\* walk: what the entry just read means.  PS is looked at before P.
Look ==
    /\ job.kind = "walk" /\ job.pc = "look" /\ job.pass = 1
    /\ job' = CASE last.ps /\ ~huge_page_allowed(here) ->
                        [job EXCEPT !.pc = "done", !.result = "ReservedPageSizeBit", !.at = here]
                [] last.ps /\ huge_page_allowed(here) -> LeafOf(last)
                [] ~last.ps /\ ~last.p ->
                        [job EXCEPT !.pc = "hole", !.result = "NotPresent", !.at = here]
                [] ~last.ps /\ last.p /\ here = "Pt" -> LeafOf(last)
                [] OTHER -> [job EXCEPT !.pc = "table", !.table = last.to]

\* walk_or_explain: the path to the hole is read again, from the top.
Explain ==
    /\ job.kind = "walk" /\ job.pc = "hole"
    /\ job' = [job EXCEPT !.pc = "table", !.pass = 2, !.table = job.regs.cr3,
                          !.visited = <<>>, !.hole = job.path, !.path = <<>>]

\* partial_path: no bit is looked at, down to the level of the hole, which is popped.
Retrace ==
    /\ job.kind = "walk" /\ job.pc = "look" /\ job.pass = 2
    /\ job' = IF here = job.at
              THEN [job EXCEPT !.pc = "done", !.result = "Explained", !.path = Front(@)]
              ELSE [job EXCEPT !.pc = "table", !.table = last.to]

Next == Table \/ Read \/ ReadFails \/ Look \/ Explain \/ Retrace

Spec == Init /\ [][Next]_job

-----------------------------------------------------------------------------
(* Properties. *)

Done(result) == job.kind = "walk" /\ job.pc = "done" /\ job.result = result

\* What the processor makes of the entries on the path: a leaf of n low bits takes
\* them from the virtual address and the others from the entry.
IsTranslation(physical) ==
    /\ physical \in Words
    /\ \A n \in 0..(WordBits - 1) :
         Bit(physical, n) = IF n < Level[job.at] /\ last.ps THEN Bit(job.va, n) ELSE Bit(last.to, n)

\* A walk that answers gives the processor's translation, over tables that were all
\* present, all different and all in memory; a refused one has read nothing.
WalkIsTranslation ==
    /\ Done("ok") =>
         /\ IsTranslation(job.physical) /\ IsRam(job.physical)
         /\ \A i \in DOMAIN Front(job.path) : job.path[i].p /\ ~job.path[i].ps
         /\ IsInjective(job.visited) /\ \A i \in DOMAIN job.visited : IsRam(job.visited[i])
         /\ last.p \/ last.ps
    /\ \A why \in {"PagingDisabled", "EferMissing", "NotLongMode", "NonCanonical"} :
         Done(why) => job.path = <<>>

\* A hole shown to the user is where the path shown leads: with the guest stopped,
\* every level above it is a present table, and they are those of the first reading.
HoleIsExplained ==
    Done("Explained") /\ ~job.running =>
        /\ job.path = Front(job.hole) /\ ~Last(job.hole).p
        /\ \A i \in DOMAIN job.path : job.path[i].p /\ ~job.path[i].ps

\* Stated by the comment of WalkError::NotPresent: P = 0 stops the mapping.  Not so
\* for an entry that also has PS set.
AbsentIsUnmapped == Done("ok") => last.p

\* Not so while the guest runs: the second reading may lead elsewhere.
HoleIsOneReading == Done("Explained") => job.path = Front(job.hole)

=============================================================================
