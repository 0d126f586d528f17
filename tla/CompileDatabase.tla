--------------------------- MODULE CompileDatabase ---------------------------
(***************************************************************************)
(* What clangd is given to read (clangd.rs of princess-build): the compile *)
(* database, collected from the records of the wrapper shim or normalised  *)
(* from what bear wrote, and the configuration .clangd, generated or       *)
(* checked.                                                                *)
(*                                                                         *)
(* A call of the compiler is a sequence of words, each with what the       *)
(* compiler makes of it: a flag, the value of the flag before it, or a     *)
(* file.  The records hold the words alone.  All calls run in BuildDir.  A *)
(* line of .clangd is its indent, what it is, and which of the texts       *)
(* looked for it contains.                                                 *)
(***************************************************************************)
EXTENDS Naturals, Sequences, SequencesExt, Functions

CONSTANTS
    Calls,          \* calls of the compiler: sequences of words
    MaxCalls,       \* bound on the calls of a build
    BuildFiles,     \* the files of the build directory
    ConfigLines,    \* lines of a .clangd
    MaxConfigLines  \* bound on the lines of one

VARIABLE job

-----------------------------------------------------------------------------
(* Paths: a sequence of names, with .. among them. *)

Path(absolute, names) == [absolute |-> absolute, names |-> names]
Root(names) == Path(TRUE, names)
BuildDir == Root(<<"b">>)

normalize(names) ==
    LET kept[n \in 0..Len(names)] ==
          IF n = 0 THEN <<>>
          ELSE IF names[n] # ".." THEN Append(kept[n - 1], names[n])
          ELSE IF kept[n - 1] = <<>> THEN <<>> ELSE Front(kept[n - 1])
    IN  kept[Len(names)]
absolutise(path, base) ==
    IF path.absolute THEN Root(normalize(path.names)) ELSE Root(normalize(base.names \o path.names))

-----------------------------------------------------------------------------
(* The records of the shim become a database. *)

VALUE_TAKING_FLAGS == {"-o", "-MF", "-MT", "-MQ", "-I", "-isystem", "-include", "-x"}
Flags == VALUE_TAKING_FLAGS \cup {"-c", "-S", "-T", "-Wall"}
CSources == {"main.c", "util.c", "util.h"}

Argv(call) == <<"cc">> \o [i \in DOMAIN call |-> call[i].text]
Entry(directory, arguments, file) == [directory |-> directory, arguments |-> arguments, file |-> file]

looks_like_c_compilation(entry) ==
    /\ entry.arguments # <<>> /\ ToSet(entry.arguments) \cap {"-c", "-S", "-o"} # {}
    /\ entry.file.names # <<>> /\ Last(entry.file.names) \in CSources

AppendNew(db, entry) == IF entry \in ToSet(db) THEN db ELSE Append(db, entry)
AppendCompilation(db, entry) == IF looks_like_c_compilation(entry) THEN AppendNew(db, entry) ELSE db

\* A garbled line is one that two compilers wrote at once: it is no JSON.
Garbled == <<"garbled">>
ShimInit ==
    \E lines \in SeqOf({Argv(call) : call \in Calls} \cup {Garbled}, MaxCalls) :
        job = [kind |-> "database", from |-> "shim", lines |-> lines, at |-> 1,
               word |-> 2, skip |-> FALSE, db |-> <<>>, state |-> "reading"]

Reading(from) ==
    job.kind = "database" /\ job.from = from /\ job.state = "reading" /\ job.at <= Len(job.lines)
Line == job.lines[job.at]
NextLine(db) == [job EXCEPT !.db = db, !.at = @ + 1, !.word = 2, !.skip = FALSE]

SkipLine == Reading("shim") /\ Line = Garbled /\ job' = NextLine(job.db)

\* translation_unit, word by word.
Word == Line[job.word]
InWords == Reading("shim") /\ Line # Garbled /\ job.word <= Len(Line)
AnyFile(word, skip) == word \notin Flags /\ word \in BuildFiles    \* mutant
IsUnit(word, skip) == word \notin Flags /\ ~skip /\ word \in BuildFiles

PassWord ==
    /\ InWords /\ ~IsUnit(Word, job.skip)
    /\ job' = [job EXCEPT !.word = @ + 1, !.skip = ~job.skip /\ Word \in VALUE_TAKING_FLAGS]

TakeUnit ==
    /\ InWords /\ IsUnit(Word, job.skip)
    /\ job' = NextLine(AppendCompilation(
                 job.db, Entry(BuildDir, Line, absolutise(Path(FALSE, <<Word>>), BuildDir))))

NoUnit == Reading("shim") /\ Line # Garbled /\ job.word > Len(Line) /\ job' = NextLine(job.db)

-----------------------------------------------------------------------------
(* What bear wrote becomes a database. *)

RawEntries ==
    {Entry(directory, arguments, file) :
        directory \in {BuildDir, Path(FALSE, <<>>), Path(FALSE, <<"..", "gone">>)},
        arguments \in {<<>>, <<"cc", "-c", "main.c">>, <<"cc", "main.o">>},
        file \in {Path(FALSE, <<"main.c">>), Path(FALSE, <<"sub", "..", "main.c">>),
                  Root(<<"b", "main.c">>), Path(FALSE, <<"boot.S">>), Path(FALSE, <<>>)}}

BearInit ==
    \E lines \in SeqOf(RawEntries, MaxCalls) :
        job = [kind |-> "database", from |-> "bear", lines |-> lines, at |-> 1,
               word |-> 2, skip |-> FALSE, db |-> <<>>, state |-> "reading"]

Normalised(raw) ==
    LET directory == absolutise(raw.directory, BuildDir)
    IN  Entry(directory, raw.arguments, absolutise(raw.file, directory))

NormaliseEntry ==
    /\ Reading("bear")
    /\ job' = NextLine(IF looks_like_c_compilation(Line) THEN AppendNew(job.db, Normalised(Line))
                       ELSE job.db)

\* An empty database is not written.
Write ==
    /\ job.kind = "database" /\ job.state = "reading" /\ job.at > Len(job.lines)
    /\ job' = [job EXCEPT !.state = IF job.db = <<>> THEN "left" ELSE "written"]

\* validate_compile_commands.
Directories == {BuildDir}
Problems(db) ==
    (IF db = <<>> THEN {"empty"} ELSE {})
    \cup UNION {(IF e.arguments = <<>> THEN {"no arguments"} ELSE {})
                \cup (IF ~e.directory.absolute THEN {"relative directory"}
                      ELSE IF e.directory \notin Directories THEN {"gone"} ELSE {})
                \cup (IF ~e.file.absolute THEN {"relative file"} ELSE {}) : e \in ToSet(db)}

-----------------------------------------------------------------------------
(* validate_dot_clangd. *)

ConfigLine(indent, is, says) == [indent |-> indent, is |-> is, says |-> says]
GCC_ONLY_FLAG_BLACKLIST == {"-fconserve-stack", "-mpreferred-stack-boundary=*"}    \* of six
Wanted == {"--target=", "-nostdlibinc"} \cup GCC_ONLY_FLAG_BLACKLIST

\* DotClangd::new, what follows `CompileFlags:'.
Generated(includes) ==
    <<ConfigLine(2, "comment", {}), ConfigLine(2, "scalar", {}), ConfigLine(2, "key", {}),
      ConfigLine(4, "item", {"--target="}), ConfigLine(4, "item", {"-nostdlibinc"})>>
    \o [i \in 1..includes |-> ConfigLine(4, "item", {"-I"})]
    \o <<ConfigLine(2, "comment", {"-W*"}), ConfigLine(2, "key", {})>>
    \o <<ConfigLine(4, "item", {"-fconserve-stack"}),
         ConfigLine(4, "item", {"-mpreferred-stack-boundary=*"})>>

Check(flags, lines, generated) ==
    [kind |-> "clangd", flags |-> flags, lines |-> lines, generated |-> generated,
     at |-> 1, direct |-> FALSE, child |-> FALSE, state |-> "walking", problems |-> {}]
ClangdInit ==
    \/ \E includes \in 0..2 : job = Check(TRUE, Generated(includes), TRUE)
    \/ \E flags \in BOOLEAN, lines \in SeqOf(ConfigLines, MaxConfigLines) :
         job = Check(flags, lines, FALSE)

\* The walk of the block, whose key has no indent.
InBlock ==
    /\ job.flags /\ job.at <= Len(job.lines) /\ ~job.direct
    /\ job.lines[job.at].is = "comment" \/ job.lines[job.at].indent > 0
IsChild(line) == line.indent = 2 /\ line.is = "key"
WalkLine ==
    /\ job.kind = "clangd" /\ job.state = "walking" /\ InBlock
    /\ LET line == job.lines[job.at]
       IN  job' = [job EXCEPT !.at = @ + 1, !.child = @ \/ IsChild(line),
                              !.direct = line.indent = 2 /\ line.is = "item"]

Mentioned == UNION {line.says : line \in ToSet(job.lines)}
Globs(line) ==
    line.is = "item" /\ "-W*" \in line.says
Verdict ==
    /\ job.kind = "clangd" /\ job.state = "walking" /\ ~InBlock
    /\ job' = [job EXCEPT !.state = "checked",
         !.problems =
            (IF ~job.flags THEN {"no CompileFlags"} ELSE {})
            \cup (IF job.direct THEN {"a sequence"} ELSE {})
            \cup (IF job.flags /\ ~job.child THEN {"no child key"} ELSE {})
            \cup (Wanted \ Mentioned)
            \cup (IF "-nostdinc" \in Mentioned THEN {"-nostdinc"} ELSE {})
            \cup (IF \E line \in ToSet(job.lines) : Globs(line) THEN {"a wildcard"} ELSE {})]

Init == ShimInit \/ BearInit \/ ClangdInit
Next ==
    \/ SkipLine \/ PassWord \/ TakeUnit \/ NoUnit \/ NormaliseEntry \/ Write
    \/ WalkLine \/ Verdict

Spec == Init /\ [][Next]_job

-----------------------------------------------------------------------------
(* Properties. *)

\* A call whose flags with values are all known to the code.
Known(call) ==
    \A i \in DOMAIN call : call[i].is = "value" => call[i - 1].text \in VALUE_TAKING_FLAGS
\* The files that the compiler reads, and the first of them.
FilesOf(call) == {i \in DOMAIN call : call[i].is = "file" /\ call[i].text \in BuildFiles}
Source(call) == call[CHOOSE i \in FilesOf(call) : \A j \in FilesOf(call) : i <= j].text
Compilations(calls) ==
    {entry \in {Entry(BuildDir, Argv(call), Root(<<"b", Source(call)>>)) :
                    call \in {c \in calls : FilesOf(c) # {}}} :
        looks_like_c_compilation(entry)}

\* The database of the shim has, once each, the calls that compile a C file, under the file
\* that the compiler reads as its first: not under a value of a flag that is also a file.
EveryUnitOnce ==
    job.kind = "database" =>
        /\ IsInjective(job.db)
        /\ job.from = "shim" =>
             LET seen == {c \in Calls : \E i \in 1..(job.at - 1) : job.lines[i] = Argv(c)}
                 known == Compilations({c \in seen : Known(c)})
             IN  /\ known \subseteq ToSet(job.db)
                 /\ (\A c \in seen : Known(c)) => ToSet(job.db) = known

\* What is written is what the code's own check accepts, but for a directory that is gone.
WrittenIsUsable ==
    job.kind = "database" /\ job.state = "written" => Problems(job.db) \subseteq {"gone"}

\* A configuration that is accepted is one that clangd reads: below CompileFlags is a
\* dictionary, and no entry takes the warnings or clangd's own headers away.  What is
\* generated is accepted.
Block ==
    LET Within(i) == \A k \in 1..i : job.lines[k].is = "comment" \/ job.lines[k].indent > 0
    IN  {job.lines[i] : i \in {k \in DOMAIN job.lines : Within(k) /\ job.lines[k].is # "comment"}}
AcceptedIsRead ==
    job.kind = "clangd" /\ job.state = "checked" =>
        /\ job.problems = {} =>
             /\ job.flags
             /\ \E line \in Block : line.indent = 2 /\ line.is = "key"
             /\ \A line \in Block : line.indent = 2 => line.is # "item"
             /\ \A line \in ToSet(job.lines) :
                  "-nostdinc" \notin line.says /\ (line.is = "item" => "-W*" \notin line.says)
        /\ job.generated => job.problems = {}

ClangdIsServed == EveryUnitOnce /\ WrittenIsUsable /\ AcceptedIsRead

\* Not so: the value of a flag that VALUE_TAKING_FLAGS does not list, and which is a file, is
\* taken for the source, and the call is dropped: `cc -c -T link.ld main.c' (clangd.rs 594).
EveryCallIsRead ==
    job.kind = "database" /\ job.from = "shim" /\ job.state # "reading" =>
        Compilations({c \in Calls : Argv(c) \in ToSet(job.lines)}) \subseteq ToSet(job.db)

\* Not so: a text that is wanted counts wherever it stands, in a comment too.
TargetIsPinned ==
    job.kind = "clangd" /\ job.state = "checked" /\ job.problems = {} =>
        \E line \in Block : line.is = "item" /\ "--target=" \in line.says

=============================================================================
