---------------------------- MODULE Descriptors ----------------------------
(***************************************************************************)
(* The descriptor tables of princess-bin (descriptor.rs): the GDT is read  *)
(* slot by slot, a system descriptor may take a second slot, and the IDT   *)
(* gate by gate.  The fields of a word are scaled down to a few bits, and  *)
(* so is the vector of a gate: the last is MaxVector and not 255.          *)
(***************************************************************************)
EXTENDS Naturals, Sequences, SequencesExt

CONSTANTS
    Slots,      \* what a slot can hold: [s : BOOLEAN, type : Types, zero : BOOLEAN]
    Gates,      \* what a gate can hold: [type, zero, p : BOOLEAN, dpl : 0..3]
    MaxSlots, MaxGates,
    MaxVector   \* u8::MAX

VARIABLE job

Types == 0..15
is_16_bytes(type) == type \in {9, 11, 2, 12}
IsTss(type) == type \in {9, 11, 1, 3}
is_busy(type) == type \in {3, 11}

-----------------------------------------------------------------------------
(* A segment or system descriptor: base in three fields of 2, 1 and 1 bits, limit *)
(* in two of 2 and 1 bits, counted in units of 2 bytes when G is set.             *)

Word(base, limit, g) ==
    [base_low |-> base % 4, base_mid |-> (base \div 4) % 2, base_high |-> base \div 8,
     limit_low |-> limit % 4, limit_high |-> limit \div 4, g |-> g]

Unscaled(w) == w.limit_high * 4 + w.limit_low    \* mutant
Limit(w) ==
    LET field == w.limit_high * 4 + w.limit_low IN IF w.g THEN field * 2 + 1 ELSE field
Base(w) == w.base_high * 8 + w.base_mid * 4 + w.base_low

\* The second slot gives the upper half of the base: its own upper half, in this code.
SystemBase(w, high) == Base(w) + 16 * (IF high = <<>> THEN 0 ELSE high[1].upper)

\* Tss64::read: a bitmap starts inside the segment.
has_io_bitmap(io_map_base, limit) == io_map_base <= limit

Fields ==
    \E base \in 0..15, limit \in 0..7, g \in BOOLEAN, upper \in {0, 3} :
        job = [kind |-> "fields", base |-> base, limit |-> limit, g |-> g, upper |-> upper]

-----------------------------------------------------------------------------
(* The tables.  A read outside of memory ends them. *)

Table(kind, contents, readable) ==
    [kind |-> kind, contents |-> contents, readable |-> readable, index |-> 0,
     entries |-> <<>>, state |-> "reading"]

Init ==
    \/ \E contents \in SeqOf(Slots, MaxSlots) : \E readable \in 0..Len(contents) :
         job = Table("gdt", contents, readable)
    \/ \E contents \in SeqOf(Gates, MaxGates) : \E readable \in 0..Len(contents) :
         job = Table("idt", contents, readable)
    \/ Fields

Ends(state) == job' = [job EXCEPT !.state = state]
Reading(kind) == job.kind = kind /\ job.state = "reading"
Readable(kind) == Reading(kind) /\ job.index < job.readable
Here == job.contents[job.index + 1]
Entry(is, slot, type) == [is |-> is, slot |-> slot, type |-> type]
TakeSlots(entries) ==
    job' = [job EXCEPT !.entries = @ \o entries, !.index = @ + Len(entries)]

End ==
    /\ Reading("gdt") \/ Reading("idt")
    /\ job.index = Len(job.contents)
    /\ Ends("done")

Unreadable ==
    /\ Reading("gdt") \/ Reading("idt")
    /\ job.index < Len(job.contents) /\ job.index >= job.readable
    /\ Ends("memory")

ReadNull ==
    /\ Readable("gdt") /\ job.index = 0 /\ Here.zero
    /\ TakeSlots(<<Entry("null", 0, 0)>>)

ReadSegment ==
    /\ Readable("gdt") /\ Here.s /\ ~(job.index = 0 /\ Here.zero)
    /\ TakeSlots(<<Entry("segment", job.index, Here.type)>>)

HighIsNext(type) == FALSE    \* mutant
TakesTwo(type) == is_16_bytes(type) /\ job.index + 1 < Len(job.contents)
ReadSystem ==
    /\ Readable("gdt") /\ ~Here.s /\ ~(job.index = 0 /\ Here.zero)
    /\ IF ~TakesTwo(Here.type) THEN TakeSlots(<<Entry("system", job.index, Here.type)>>)
       ELSE IF job.index + 1 >= job.readable THEN Ends("memory")
       ELSE TakeSlots(<<Entry("system", job.index, Here.type),
                        Entry("high", job.index + 1, job.index)>>)

\* find: the first entry at one of these places, or none.
First(places) == {job.entries[i] : i \in {k \in places : \A n \in places : k <= n}}

\* The first TSS that the table describes.
tss == First({i \in DOMAIN job.entries : job.entries[i].is = "system" /\ IsTss(job.entries[i].type)})
entry_for_selector(selector) ==
    First({i \in DOMAIN job.entries : job.entries[i].slot = selector \div 8})

\* A gate of no known type fails the table, unless nothing is in it.
GateTypes == {14, 15, 5}
ReadGate ==
    /\ Readable("idt")
    /\ IF Here.type \notin GateTypes /\ ~Here.zero THEN Ends("type")
       ELSE TakeSlots(<<[vector |-> IF job.index <= MaxVector THEN job.index ELSE MaxVector,
                         p |-> Here.p, dpl |-> Here.dpl]>>)
user_accessible_vectors ==
    {job.entries[i].vector : i \in {k \in DOMAIN job.entries :
                                       job.entries[k].p /\ job.entries[k].dpl = 3}}

Next == End \/ Unreadable \/ ReadNull \/ ReadSegment \/ ReadSystem \/ ReadGate

Spec == Init /\ [][Next]_job

-----------------------------------------------------------------------------
(* Properties. *)

\* Which slots start a descriptor, as the processor lays them out.
Starts ==
    LET start[i \in 0..Len(job.contents)] ==
          \/ i = 0
          \/ /\ i > 0
             /\ ~(start[i - 1] /\ ~job.contents[i].s /\ is_16_bytes(job.contents[i].type))
    IN  {i \in 0..(Len(job.contents) - 1) : start[i]}

\* The upper half of a 16-byte descriptor is never offered as a descriptor of its own,
\* whatever its bits look like; every other slot is, once, and a selector finds it
\* whatever its RPL.
TableIsPartition ==
    job.kind = "gdt" /\ job.state = "done" =>
        /\ Len(job.entries) = Len(job.contents)
        /\ \A i \in DOMAIN job.entries :
             /\ job.entries[i].slot = i - 1
             /\ job.entries[i].is = "high" <=> (i - 1) \notin Starts
             /\ \A rpl \in 0..3 :
                  entry_for_selector((i - 1) * 8 + rpl) = {job.entries[i]}
        /\ \A entry \in tss : entry.slot \in Starts

\* The fields of a word are put together as they were taken apart, and the limit in
\* units is that of its last byte.
FieldsAreJoined ==
    job.kind = "fields" =>
        LET w == Word(job.base, job.limit, job.g)
        IN  /\ Base(w) = job.base /\ SystemBase(w, <<>>) = job.base
            /\ Limit(w) + 1 = (job.limit + 1) * (IF job.g THEN 2 ELSE 1)
            /\ ~has_io_bitmap(Limit(w) + 1, Limit(w))

\* The vectors listed as open to user code are those of the gates.  Only in a table
\* of no more gates than there are vectors: the last vector stands for all the others.
OpenVectorsAreGates ==
    job.kind = "idt" /\ job.state = "done" /\ Len(job.contents) <= MaxVector + 1 =>
        user_accessible_vectors =
            {v \in 0..(Len(job.contents) - 1) :
               job.contents[v + 1].p /\ job.contents[v + 1].dpl = 3}

TablesAreRead == TableIsPartition /\ FieldsAreJoined /\ OpenVectorsAreGates

\* Not so: the base of a 64-bit TSS is in the lower half of its second slot.
TssBaseIsWhole ==
    job.kind = "fields" =>
        SystemBase(Word(job.base, job.limit, job.g), <<[lower |-> job.upper, upper |-> 0]>>)
            = job.base + 16 * job.upper

\* Not so for a table with more gates than vectors.
VectorIsUnique ==
    job.kind = "idt" => IsInjective([i \in DOMAIN job.entries |-> job.entries[i].vector])

=============================================================================
