---------------------------- MODULE MonitorText ----------------------------
(***************************************************************************)
(* What is made of the text of a QEMU monitor: the reports of monitor.rs   *)
(* in princess-bin, where a line that is not understood must not be        *)
(* skipped, and the physical memory that capability.rs in princess-debug   *)
(* reads with xp through gdb.                                              *)
(*                                                                         *)
(* A line is its shape: what each check of its parser would say of it.     *)
(* Memory is scaled: xp prints 4 bytes on a line, in words of 4, 2 or 1.   *)
(***************************************************************************)
EXTENDS Naturals, Integers, Sequences, SequencesExt, FiniteSets

CONSTANTS
    MaxLines,   \* bound on the lines of a report
    MaxPages,   \* bound on the leaves of an info tlb
    MaxPairs,   \* bound on the registers on a line
    MaxCount    \* bound on the bytes read

VARIABLE job

-----------------------------------------------------------------------------
\* Where each of a row of things starts that have these sizes.
Starts(sizes) ==
    LET at[i \in 1..Len(sizes)] == IF i = 1 THEN 0 ELSE at[i - 1] + sizes[i - 1]
    IN  at

-----------------------------------------------------------------------------
(* Reports.  A parser makes its checks of a line in an order; the first that fails is *)
(* its error, and the report is refused.                                              *)

MemChecks == <<"ascii", "fields", "range", "bounds", "size", "permissions", "three">>
TlbChecks == <<"physical", "flags", "trailing", "colon", "hex", "letters">>
CpuChecks == <<"prefix", "colon", "index", "thread_id", "number">>
RegisterChecks == <<"CPU#", "limits", "shape">>
Checks == [mem |-> MemChecks, tlb |-> TlbChecks, cpus |-> CpuChecks, registers |-> RegisterChecks]
Reports == DOMAIN Checks

Good == [is |-> "good", fails |-> {}, size |-> 2]
Lines(report) ==
    {Good, [is |-> "blank", fails |-> {}, size |-> 1]}
    \cup {[is |-> "bad", fails |-> f, size |-> 3] : f \in {{c} : c \in ToSet(Checks[report])}
                                                      \cup {ToSet(Checks[report])}}
    \* "PG disabled" is the whole report; a line of FPU state is not modelled there;
    \* a line of one character is split after its second.
    \cup (IF report = "mem" THEN {[is |-> "off", fails |-> {}, size |-> 2]} ELSE {})
    \cup (IF report = "registers" THEN {[is |-> w, fails |-> {}, size |-> 2] :
                                          w \in {"ignorable", "short"}} ELSE {})

NoError == [line |-> 0, offset |-> 0, check |-> "none"]
Report(report, text) ==
    [kind |-> "report", report |-> report, text |-> text, line |-> 1, offset |-> 0,
     entries |-> <<>>, error |-> NoError, state |-> "reading"]

Current == job.text[job.line]
EveryLineCounts(l) == job.offset + l.size    \* the terminator included
OnlyEntriesCount(l) == IF l.is = "blank" THEN job.offset ELSE job.offset + l.size    \* mutant
NextOffset(l) == EveryLineCounts(l)

FirstFailed(report, fails) ==
    LET failed == {i \in DOMAIN Checks[report] : Checks[report][i] \in fails}
    IN  Checks[report][CHOOSE i \in failed : \A j \in failed : i <= j]

\* One line: lines_with_offsets, then the parser of the report.
ParseLine ==
    /\ job.kind = "report" /\ job.state = "reading" /\ job.line <= Len(job.text)
    /\ LET next == [job EXCEPT !.line = @ + 1, !.offset = NextOffset(Current)]
       IN  job' = CASE Current.is \in {"blank", "ignorable"} -> next
                    [] Current.is = "off" ->
                         [job EXCEPT !.state = "done", !.entries = <<>>]
                    [] Current.is = "short" -> [job EXCEPT !.state = "panicked"]
                    [] Current.is = "good" -> [next EXCEPT !.entries = Append(@, job.line)]
                    [] OTHER ->
                         [job EXCEPT !.state = "failed",
                                     !.error = [line |-> job.line, offset |-> job.offset,
                                       check |-> FirstFailed(job.report, Current.fails)]]

EndOfReport ==
    /\ job.kind = "report" /\ job.state = "reading" /\ job.line > Len(job.text)
    /\ job' = [job EXCEPT !.state = "done"]

-----------------------------------------------------------------------------
(* resolve_granularities: 4K leaves are 1 unit, 2M leaves 2, 1G leaves 8. *)

Leaves(sizes) ==
    [i \in DOMAIN sizes |-> [va |-> Starts(sizes)[i], ps |-> sizes[i] > 1]]

ByFlag(leaves, i) == IF leaves[i].ps THEN 2 ELSE 1    \* mutant
Granularity(leaves, i) ==
    LET later == {j \in (i + 1)..Len(leaves) : leaves[j].va > leaves[i].va}
        next == CHOOSE j \in later : \A k \in later : j <= k
    IN  IF ~leaves[i].ps THEN 1
        ELSE IF later # {} /\ leaves[next].va - leaves[i].va >= 8 THEN 8 ELSE 2

\* decode_tlb_flags: a letter in its own column, or a dash.
Columns == <<"X", "G", "P", "D">>
decode_tlb_flags(text) ==
    IF /\ Len(text) = Len(Columns)
       /\ \A i \in DOMAIN text : text[i] \in {Columns[i], "-"}
    THEN {Columns[i] : i \in {k \in DOMAIN text : text[k] # "-"}}
    ELSE {"refused"}

-----------------------------------------------------------------------------
(* parse_register_pairs, over the tokens of a line. *)

\* How QEMU prints a register: RAX=v, "R8 =v", or "R8 = v".
Written(pair, style) ==
    CASE style = "joined" -> <<[name |-> pair[1], eq |-> TRUE, value |-> pair[2]]>>
      [] style = "padded" -> <<[name |-> pair[1], eq |-> FALSE, value |-> ""],
                               [name |-> "", eq |-> TRUE, value |-> pair[2]]>>
      [] style = "apart" -> <<[name |-> pair[1], eq |-> FALSE, value |-> ""],
                              [name |-> "", eq |-> TRUE, value |-> ""],
                              [name |-> pair[2], eq |-> FALSE, value |-> ""]>>

Registers == {<<"R8", "1f">>, <<"RAX", "0">>}
is_hex(text) == text \in {pair[2] : pair \in Registers}

\* One turn of the loop: a token or more, from the one that it has come to.
Refused(s) == [s EXCEPT !.ok = FALSE]
Take(s, name, value, count) ==
    IF name # "" /\ is_hex(value)
    THEN [s EXCEPT !.at = @ + count, !.pairs = Append(@, <<name, value>>)]
    ELSE Refused(s)
TakePair(tokens, s) ==
    LET Has(n) == s.at + n <= Len(tokens)
        token(n) == tokens[s.at + n]
    IN  IF ~s.ok \/ ~Has(0) THEN s
        ELSE IF token(0).eq THEN Take(s, token(0).name, token(0).value, 1)
        ELSE IF ~Has(1) THEN Refused(s)
        ELSE IF ~token(1).eq \/ token(1).name # "" THEN Refused(s)
        ELSE IF token(1).value # "" THEN Take(s, token(0).name, token(1).value, 2)
        ELSE IF ~Has(2) THEN Refused(s)
        ELSE IF token(2).eq THEN Refused(s)
        ELSE Take(s, token(0).name, token(2).name, 3)

parse_register_pairs(tokens) ==
    LET loop[n \in 0..Len(tokens)] ==
          IF n = 0 THEN [at |-> 1, pairs |-> <<>>, ok |-> TRUE] ELSE TakePair(tokens, loop[n - 1])
    IN  loop[Len(tokens)]

-----------------------------------------------------------------------------
(* read_physical_memory. *)

Memory(address) == address    \* every byte is told from every other

WordSize(width) ==
    IF width >= 4 /\ width % 4 = 0 THEN 4 ELSE IF width >= 2 /\ width % 2 = 0 THEN 2 ELSE 1

\* What xp prints: words, most significant byte first, and no more than were asked for.
Printed(cursor, width, words) ==
    [i \in 1..words |->
       [address |-> cursor + (i - 1) * WordSize(width),
        digits |-> [k \in 1..WordSize(width) |-> Memory(cursor + i * WordSize(width) - k)]]]

AsPrinted(word) == word.digits    \* mutant
LittleEndian(word) == Reverse(word.digits)

\* parse_monitor_xp: the words are laid side by side from the first address on; what
\* lies between them is zero.
parse_monitor_xp(words, start) ==
    LET last == {w.address + Len(w.digits) : w \in ToSet(words)}
        end == CHOOSE e \in last : \A f \in last : e >= f
        Byte(a) ==
            LET covering == {w \in ToSet(words) : a \in w.address..(w.address + Len(w.digits) - 1)}
            IN  IF covering = {} THEN 0
                ELSE LET w == CHOOSE w \in covering : TRUE
                     IN  LittleEndian(w)[a - w.address + 1]
    IN  IF words = <<>> THEN <<>> ELSE [i \in 1..(end - start) |-> Byte(start + i - 1)]

Xp(address, count) ==
    [kind |-> "xp", address |-> address, count |-> count, bytes |-> <<>>, state |-> "asking"]

\* The target has no monitor: no virtual read is put in its place.
NoMonitor ==
    /\ job.kind = "xp" /\ job.state = "asking" /\ job.bytes = <<>> /\ job.count > 0
    /\ job' = [job EXCEPT !.state = "unavailable"]

Ask ==
    /\ job.kind = "xp" /\ job.state = "asking" /\ Len(job.bytes) < job.count
    /\ LET cursor == job.address + Len(job.bytes)
           remaining == job.count - Len(job.bytes)
           width == IF remaining > 4 THEN 4 ELSE remaining
       IN  \/ \E words \in 0..(width \div WordSize(width)) :
                LET parsed == parse_monitor_xp(Printed(cursor, width, words), cursor)
                IN  job' = IF parsed = <<>> THEN [job EXCEPT !.state = "failed"]
                           ELSE [job EXCEPT !.bytes = @ \o parsed]
           \/ job' = [job EXCEPT !.state = "failed"]

Answered ==
    /\ job.kind = "xp" /\ job.state = "asking" /\ Len(job.bytes) >= job.count
    /\ job' = [job EXCEPT !.state = "done"]

-----------------------------------------------------------------------------
Init ==
    \/ \E report \in Reports : \E text \in SeqOf(Lines(report), MaxLines) :
         job = Report(report, text)
    \/ \E sizes \in SeqOf({1, 2, 8}, MaxPages) : job = [kind |-> "leaves", sizes |-> sizes]
    \/ \E text \in SeqOf(ToSet(Columns) \cup {"-"}, Len(Columns) + 1) :
         job = [kind |-> "flags", text |-> text]
    \/ \E pairs \in SeqOf(Registers, MaxPairs) :
         \E styles \in [DOMAIN pairs -> {"joined", "padded", "apart"}] :
           \E cut \in 0..1 :
             job = [kind |-> "pairs", pairs |-> pairs, cut |-> cut, tokens |->
                      LET all == FlattenSeq([i \in DOMAIN pairs |-> Written(pairs[i], styles[i])])
                      IN  IF all = <<>> THEN all ELSE SubSeq(all, 1, Len(all) - cut)]
    \/ \E address \in {1, 6}, count \in 0..MaxCount : job = Xp(address, count)

Next == ParseLine \/ EndOfReport \/ NoMonitor \/ Ask \/ Answered

Spec == Init /\ [][Next]_job

-----------------------------------------------------------------------------
(* Properties. *)

\* Nothing is skipped: a report that is accepted has made an entry of every line that
\* is one, and one that is not says where its first bad line starts and what is wrong.
NothingIsSkipped ==
    job.kind = "report" =>
        LET Numbers(is) == {i \in DOMAIN job.text : job.text[i].is = is}
            sizes == [i \in DOMAIN job.text |-> job.text[i].size]
        IN  /\ job.state = "done" =>
                 /\ \A i \in Numbers("bad") : \E j \in Numbers("off") : j < i
                 /\ Numbers("off") = {} =>
                      /\ ToSet(job.entries) = Numbers("good")
                      /\ \A i, j \in DOMAIN job.entries : i < j => job.entries[i] < job.entries[j]
            /\ job.state = "failed" =>
                 /\ job.error.line \in Numbers("bad")
                 /\ \A i \in Numbers("bad") : job.error.line <= i
                 /\ job.error.offset = Starts(sizes)[job.error.line]
                 /\ job.error.check \in job.text[job.error.line].fails

\* In a map without holes every leaf but the last gets its own size.
GranularityIsStride ==
    job.kind = "leaves" =>
        \A i \in 1..(Len(job.sizes) - 1) : Granularity(Leaves(job.sizes), i) = job.sizes[i]

\* A set of flags is read from exactly one text, and nothing else is read.
FlagsAreColumns ==
    job.kind = "flags" =>
        LET set == decode_tlb_flags(job.text)
        IN  set # {"refused"} <=>
              job.text = [i \in DOMAIN Columns |-> IF Columns[i] \in set THEN Columns[i] ELSE "-"]

\* However a line pads its registers, it gives the registers that were printed; of a
\* line that is cut, no register gets the value of another.
RegistersAreThose ==
    job.kind = "pairs" =>
        LET parsed == parse_register_pairs(job.tokens)
        IN  IF job.cut = 0 THEN parsed.ok /\ parsed.pairs = job.pairs
            ELSE parsed.ok => IsPrefix(parsed.pairs, job.pairs)

\* Not so: split_at(2) in parse_segment_line panics on a line of one character.
NeverPanics == job.kind = "report" => job.state # "panicked"

\* The bytes returned are those of the memory, from the address on, exactly as many as
\* were asked for, however the words are cut and however few of them an answer holds.
BytesAreMemory ==
    job.kind = "xp" =>
        /\ job.bytes = [i \in DOMAIN job.bytes |-> Memory(job.address + i - 1)]
        /\ job.state = "done" => Len(job.bytes) = job.count

MonitorIsUnderstood ==
    /\ NothingIsSkipped /\ GranularityIsStride /\ FlagsAreColumns
    /\ RegistersAreThose /\ BytesAreMemory

=============================================================================
