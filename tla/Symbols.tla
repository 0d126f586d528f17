------------------------------- MODULE Symbols -------------------------------
(***************************************************************************)
(* The views of an artifact: lines of addresses (source.rs of princess-bin *)
(* and dwarf.rs of princess-symbol), symbols and frame chains (symbol.rs), *)
(* the windows of the hex view (hex.rs), and what they have cached when    *)
(* the artifact is built again under them (provider.rs, disasm.rs).        *)
(***************************************************************************)
EXTENDS Naturals, Sequences, SequencesExt, FiniteSets

CONSTANTS
    Top,        \* addresses are 0..Top - 1
    Lines,      \* lines of the source
    MaxFrames,  \* max_frames of a walk
    Capacity,   \* windows the hex view keeps
    MaxChanges  \* bound on the changes of a file

VARIABLE job

Addresses == 0..Top - 1
Hole == "hole"
Limit(a, b) == IF a < b THEN a ELSE b

-----------------------------------------------------------------------------
(* The line program: the line of every address, a hole where there is none,*)
(* and the addresses at which a row begins.                                *)

Program(line, begins) == [kind |-> "lines", line |-> line, begins |-> begins, segments |-> <<>>, pc |-> "built"]

\* A row begins at least wherever the line changes.
IsProgram(line, begins) ==
    /\ begins # {}
    /\ \A a \in Addresses :
         /\ line[a] = Hole => a \notin begins
         /\ (line[a] # Hole /\ (a = 0 \/ line[a - 1] # line[a])) => a \in begins

Following(a) == {b \in job.begins : b > a}
EndOf(a) == CHOOSE e \in a + 1..Top :
    /\ \A x \in a..e - 1 : job.line[x] = job.line[a] /\ (x > a => x \notin job.begins)
    /\ e = Top \/ e \in job.begins \/ job.line[e] = Hole

\* row_for of the symbol crate: a row, with its own length, that covers the address.
row_for(a) == {job.line[s] : s \in {b \in job.begins : b <= a /\ a < EndOf(b)}}

\* build_segments of the binary crate: a row ends where the next one begins, whatever its
\* length; the last is one byte long; a row that goes on with the same line is joined to it.
Starts == CHOOSE s \in [1..Cardinality(job.begins) -> job.begins] :
              \A i, j \in DOMAIN s : i < j => s[i] < s[j]
NextStart(i) == IF i < Len(Starts) THEN Starts[i + 1] ELSE Starts[i] + 1
Touches(segments, start, line) == segments # <<>> /\ Last(segments).end = start
GoesOn(segments, start, line) == Touches(segments, start, line) /\ Last(segments).line = line
coalesce(segments, i) ==
    IF GoesOn(segments, Starts[i], job.line[Starts[i]])
    THEN [segments EXCEPT ![Len(segments)].end = NextStart(i)]
    ELSE Append(segments, [start |-> Starts[i], end |-> NextStart(i), line |-> job.line[Starts[i]]])
build_segments ==
    LET upto[n \in 0..Len(Starts)] == IF n = 0 THEN <<>> ELSE coalesce(upto[n - 1], n)
    IN  upto[Len(Starts)]

BuildSegments ==
    /\ job.kind = "lines" /\ job.pc = "built"
    /\ job' = [job EXCEPT !.segments = build_segments, !.pc = "done"]

line_range_for_address(a) ==
    {job.segments[i].line : i \in {k \in 1..Len(job.segments) :
        job.segments[k].start <= a /\ a < job.segments[k].end}}

-----------------------------------------------------------------------------
(* walk_frame_pointer_chain: [next, ret] of a frame, where it can be read. *)

Frames == {[next |-> n, ret |-> r] : n \in Addresses, r \in {0, 1}}
Walk(stack, rbp) == [kind |-> "frames", stack |-> stack, rbp |-> rbp, fp |-> rbp, out |-> <<>>, pc |-> "walk"]

Advances == job.out = <<>> \/ job.fp > Last(job.out)
NoSentinel(frame) == FALSE    \* mutant
Outermost(frame) == frame.ret = 0
IsLast(frame) == Outermost(frame) \/ frame.next <= job.fp
WalkFrame ==
    /\ job.kind = "frames" /\ job.pc = "walk"
    /\ IF Len(job.out) < MaxFrames /\ job.fp # 0 /\ Advances /\ job.fp \in DOMAIN job.stack
       THEN LET frame == job.stack[job.fp]
            IN  job' = [job EXCEPT !.out = Append(@, job.fp), !.fp = frame.next,
                                   !.pc = IF IsLast(frame) THEN "done" ELSE "walk"]
       ELSE job' = [job EXCEPT !.pc = "done"]

\* The frames a debugger would call the stack.
TrueStack(stack, rbp) ==
    LET chain[n \in 0..MaxFrames] ==
          IF n = 0 THEN <<>>
          ELSE LET before == chain[n - 1]
                   at == IF n = 1 THEN rbp ELSE stack[Last(before)].next
               IN  CASE n > 1 /\ Len(before) < n - 1 -> before
                     [] n > 1 /\ stack[Last(before)].ret = 0 -> before
                     [] at \notin DOMAIN stack \/ at = 0 -> before
                     [] n > 1 /\ at <= Last(before) -> before
                     [] OTHER -> Append(before, at)
    IN  chain[MaxFrames]

-----------------------------------------------------------------------------
(* coarse_location: [at, size] of every symbol, in the order of the table. *)

Symbols == [at : Addresses, size : 0..2]
Covers(symbol, a) == IF symbol.size = 0 THEN a = symbol.at
                     ELSE symbol.at <= a /\ a < symbol.at + symbol.size
Width(symbol) == IF symbol.size = 0 THEN 1 ELSE symbol.size
Best(table, a) ==
    LET best[n \in 0..Len(table)] ==
          IF n = 0 THEN <<>>
          ELSE IF ~Covers(table[n], a) THEN best[n - 1]
          ELSE IF best[n - 1] = <<>> \/ Width(table[n]) <= Width(best[n - 1][1]) THEN <<table[n]>>
          ELSE best[n - 1]
    IN  best[Len(table)]
Lookup(table, a) == [kind |-> "symbol", table |-> table, address |-> a, found |-> <<>>, pc |-> "ask"]
coarse_location ==
    /\ job.kind = "symbol" /\ job.pc = "ask"
    /\ job' = [job EXCEPT !.found = Best(job.table, job.address), !.pc = "done"]

-----------------------------------------------------------------------------
(* HexReader: windows of two bytes, the last used first.  A byte of the    *)
(* file is the number of the change that wrote it.                         *)

WindowSize == 2
Reader(size) ==
    [kind |-> "hex", file |-> [i \in 1..size |-> 0], changes |-> 0, cache |-> <<>>,
     known |-> size, ask |-> <<>>, got |-> <<>>, moved |-> FALSE, pc |-> "idle"]

OnDisk(index) == SubSeq(job.file, index * WindowSize + 1,
                        Limit((index + 1) * WindowSize, Len(job.file)))
Cached(index) == {k \in 1..Len(job.cache) : job.cache[k].index = index}

KeepAll(cache) == cache    \* mutant
\* trim: the window that was used longest ago goes.
trim(cache) == IF Len(cache) > Capacity THEN Front(cache) ELSE cache

\* window: from the cache, or one pread.
window(index) ==
    IF Cached(index) # {}
    THEN LET k == CHOOSE x \in Cached(index) : TRUE
         IN  <<job.cache[k]>> \o RemoveAt(job.cache, k)
    ELSE trim(<<[index |-> index, bytes |-> OnDisk(index)]>> \o job.cache)

\* read_range: window by window, with the file free to change between two of them.
Ask ==
    /\ job.kind = "hex" /\ job.pc = "idle"
    /\ \E from \in 0..Top - 1, len \in 1..3 :
         job' = [job EXCEPT !.ask = [from |-> from, len |-> len], !.got = <<>>, !.pc = "reading"]
ReadWindow ==
    /\ job.kind = "hex" /\ job.pc = "reading"
    /\ LET at == job.ask.from + Len(job.got)
           index == at \div WindowSize
           cache == window(index)
           bytes == SubSeq(cache[1].bytes, at - index * WindowSize + 1,
                           Limit(Len(cache[1].bytes), job.ask.from + job.ask.len - index * WindowSize))
       IN  job' = [job EXCEPT !.cache = cache, !.got = @ \o bytes,
                    !.pc = IF bytes = <<>> \/ Len(job.got) + Len(bytes) = job.ask.len
                           THEN "answered" ELSE "reading"]
Answered == /\ job.kind = "hex" /\ job.pc = "answered"
            /\ job' = [job EXCEPT !.pc = "idle", !.ask = <<>>, !.got = <<>>]

clear_cache == /\ job.kind = "hex" /\ job.pc = "idle"
               /\ job' = [job EXCEPT !.cache = <<>>, !.moved = FALSE, !.known = Len(job.file)]
refresh_len == /\ job.kind = "hex" /\ job.pc = "idle" /\ job' = [job EXCEPT !.known = Len(job.file)]

\* The emulator writes, extends or truncates its image.
FileChanges ==
    /\ job.kind = "hex" /\ job.changes < MaxChanges
    /\ \E file \in {Append(job.file, job.changes + 1)}
                   \cup {Front(job.file) : k \in 1..Limit(1, Len(job.file))}
                   \cup {[job.file EXCEPT ![k] = job.changes + 1] : k \in DOMAIN job.file} :
         job' = [job EXCEPT !.file = file, !.changes = @ + 1, !.moved = TRUE]

-----------------------------------------------------------------------------
(* A provider and an artifact that is built again.  Each part is the number *)
(* of the build it was read from, 0 before it is read: the header, the      *)
(* line table of the provider, and the segments, the symbols (tables) and   *)
(* the line table (rows) of the disassembler it keeps.                      *)

Opened(build) == [kind |-> "artifact", disk |-> build, opened |-> build, header |-> build,
                  lines |-> 0, tables |-> 0, rows |-> 0, answer |-> {}]
Rebuild == /\ job.kind = "artifact" /\ job.disk <= MaxChanges
           /\ job' = [job EXCEPT !.disk = @ + 1]

\* The parts that are read from the artifact: whole, when they are first needed.
read_header == job.disk
read_sections == job.disk
read_symbols == job.disk
load(part) == IF part = 0 THEN job.disk ELSE part

\* open: the header is read, and every cache is emptied.
KeepLines == job.lines    \* mutant
ForgetLines == 0
open == /\ job.kind = "artifact"
        /\ job' = [job EXCEPT !.opened = job.disk, !.header = read_header, !.lines = ForgetLines,
                              !.tables = 0, !.rows = 0, !.answer = {}]
set_syntax == /\ job.kind = "artifact" /\ job' = [job EXCEPT !.tables = 0, !.rows = 0, !.answer = {}]

\* The tables and rows are kept, the bytes between them are read anew.
disassembler_mut == load(job.tables)
decode == job.disk
disassemble_with_source ==
    /\ job.kind = "artifact"
    /\ job' = [job EXCEPT !.tables = disassembler_mut, !.rows = load(job.rows),
                          !.answer = {disassembler_mut, decode, load(job.rows)}]
\* disassemble builds a disassembler for the call.
disassemble == job.kind = "artifact" /\ job' = [job EXCEPT !.answer = {read_symbols, decode}]
sections == job.kind = "artifact" /\ job' = [job EXCEPT !.answer = {read_sections}]
source_line_for_address ==
    /\ job.kind = "artifact"
    /\ job' = [job EXCEPT !.lines = load(job.lines), !.answer = {load(job.lines)}]

Init ==
    \/ \E line \in [Addresses -> Lines \cup {Hole}], begins \in SUBSET Addresses :
         IsProgram(line, begins) /\ job = Program(line, begins)
    \/ \E readable \in SUBSET (Addresses \ {0}) : \E stack \in [readable -> Frames], rbp \in {0, 1, 2} :
         job = Walk(stack, rbp)
    \/ \E table \in SeqOf(Symbols, 2), a \in Addresses : job = Lookup(table, a)
    \/ \E size \in 0..3 : job = Reader(size)
    \/ job = Opened(1)
Next ==
    \/ BuildSegments \/ WalkFrame \/ coarse_location
    \/ Ask \/ ReadWindow \/ Answered \/ clear_cache \/ refresh_len \/ FileChanges
    \/ Rebuild \/ open \/ set_syntax \/ disassemble_with_source
    \/ disassemble \/ sections \/ source_line_for_address
Spec == Init /\ [][Next]_job

-----------------------------------------------------------------------------
\* The two line tables agree on every address a row covers, but for the tail of the last row;
\* the segments are in order and share no address.
LineTablesAgree ==
    (job.kind = "lines" /\ job.pc = "done") =>
        /\ \A a \in Addresses :
             (row_for(a) # {} /\ (Following(a) # {} \/ a \in job.begins))
                => line_range_for_address(a) = row_for(a)
        /\ \A i \in 1..Len(job.segments) - 1 : job.segments[i].end <= job.segments[i + 1].start

\* The walk ends, never climbs down and finds the stack that is there.
WalkIsTheStack ==
    job.kind = "frames" =>
        /\ \A i \in 1..Len(job.out) - 1 : job.out[i] < job.out[i + 1]
        /\ job.pc = "done" => job.out = TrueStack(job.stack, job.rbp)

\* The symbol that is named covers the address, and none that covers it is narrower.
NarrowestIsNamed ==
    (job.kind = "symbol" /\ job.pc = "done") =>
        LET covering == {s \in ToSet(job.table) : Covers(s, job.address)}
        IN  /\ job.found = <<>> <=> covering = {}
            /\ \A s \in ToSet(job.found) : s \in covering /\ \A t \in covering : Width(s) <= Width(t)

\* The hex view keeps to its bound, holds no window twice, and until the file changes under
\* its cache it answers with the bytes of the file, however the windows come and go.
HexIsTheFile ==
    job.kind = "hex" =>
        /\ Len(job.cache) <= Capacity
        /\ IsInjective([k \in 1..Len(job.cache) |-> job.cache[k].index])
        /\ (job.pc = "answered" /\ ~job.moved) =>
              job.got = SubSeq(job.file, job.ask.from + 1,
                               Limit(job.ask.from + job.ask.len, Len(job.file)))

\* Once an artifact is opened again, nothing answers from a build before that.
ReopenForgets ==
    job.kind = "artifact" => \A build \in job.answer \cup {job.header} : build >= job.opened

ArtifactIsShown ==
    LineTablesAgree /\ WalkIsTheStack /\ NarrowestIsNamed /\ HexIsTheFile /\ ReopenForgets

\* Not run, and false: an address no row covers has no line; a hex view that has been
\* refreshed shows the file; an answer is of one build.
HolesHaveNoLine ==
    (job.kind = "lines" /\ job.pc = "done") =>
        \A a \in Addresses : row_for(a) = {} => line_range_for_address(a) = {}
RefreshedIsFresh ==
    (job.kind = "hex" /\ job.pc = "answered" /\ job.known = Len(job.file)) =>
        job.got = SubSeq(job.file, job.ask.from + 1, Limit(job.ask.from + job.ask.len, Len(job.file)))
AnswerIsOfOneBuild == job.kind = "artifact" => Cardinality(job.answer) <= 1
=============================================================================
