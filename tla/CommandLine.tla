---------------------------- MODULE CommandLine ----------------------------
(***************************************************************************)
(* What the command line (princess-cli) makes of its surroundings before   *)
(* and after an operation: the arguments (args.rs), the exit code          *)
(* (main.rs), the tool chain (env.rs), the artifacts and the boot medium   *)
(* (project.rs), and the argument vectors of the children (build.rs,       *)
(* run.rs).                                                                *)
(***************************************************************************)
EXTENDS Naturals, Sequences, SequencesExt, FiniteSets

CONSTANTS
    Tokens,     \* the words of a command line: [is |-> "word"/"flag"/"help", name, inline]
    MaxTokens,  \* bound on their number
    Dirs,       \* directories that a search path can name
    MaxItems    \* bound on the files, directories and emulator arguments

VARIABLE job

None == "none"
Indices(s, Test(_)) == SelectSeq([i \in DOMAIN s |-> i], Test)

-----------------------------------------------------------------------------
(* args::parse: a token at a time, commands before their options. *)

Commands == {"doctor", "build", "run", "symbolicate", "events"}
Anywhere == Commands \cup {None}
Option(value, number, owners) == [value |-> value, number |-> number, owners |-> owners]
Options ==
    [project |-> Option(TRUE, FALSE, Anywhere), record |-> Option(TRUE, FALSE, Anywhere),
     op_id |-> Option(TRUE, FALSE, Anywhere), quiet |-> Option(FALSE, FALSE, Anywhere),
     strict |-> Option(FALSE, FALSE, Anywhere), target |-> Option(TRUE, FALSE, {"build"}),
     timeout_ms |-> Option(TRUE, TRUE, {"build", "run"}),
     cancel_after_ms |-> Option(TRUE, TRUE, {"run"}), no_build |-> Option(FALSE, FALSE, {"run"}),
     keep_qemu_log |-> Option(FALSE, FALSE, {"run"}), rip |-> Option(TRUE, FALSE, {"symbolicate"}),
     from_log |-> Option(TRUE, FALSE, {"symbolicate"}), elf |-> Option(TRUE, FALSE, {"symbolicate"}),
     file |-> Option(TRUE, FALSE, {"events"})]
Numbers == {"7"}

Parse(tokens) ==
    [kind |-> "args", tokens |-> tokens, at |-> 1, command |-> None, help |-> FALSE,
     set |-> <<>>, state |-> "reading"]

Reading == job.kind = "args" /\ job.state = "reading" /\ job.at <= Len(job.tokens)
Token == job.tokens[job.at]
UsageError == job' = [job EXCEPT !.state = "usage"]

TakeHelp == Reading /\ Token.is = "help" /\ job' = [job EXCEPT !.help = TRUE, !.at = @ + 1]

TakeCommand ==
    /\ Reading /\ Token.is = "word"
    /\ IF job.command # None \/ Token.name \notin Commands THEN UsageError
       ELSE job' = [job EXCEPT !.command = Token.name, !.at = @ + 1]

\* The value, inline or the next token whatever it is; <<>> when there is none.
Value ==
    IF Token.inline # None THEN <<Token.inline, job.at + 1>>
    ELSE IF job.at < Len(job.tokens) THEN <<job.tokens[job.at + 1].name, job.at + 2>>
    ELSE <<>>

\* A number is read before it is asked whose option it is; both refuse the line.
TakeOption ==
    /\ Reading /\ Token.is = "flag"
    /\ IF Token.name \notin DOMAIN Options THEN UsageError
       ELSE LET option == Options[Token.name]
            IN  IF job.command \notin option.owners THEN UsageError
                ELSE IF ~option.value
                     THEN job' = [job EXCEPT !.set = Append(@, <<Token.name, None>>), !.at = @ + 1]
                ELSE IF Value = <<>> \/ (option.number /\ Value[1] \notin Numbers) THEN UsageError
                ELSE job' = [job EXCEPT !.set = Append(@, <<Token.name, Value[1]>>),
                                        !.at = Value[2]]

EndOfArgs ==
    /\ job.kind = "args" /\ job.state = "reading" /\ job.at > Len(job.tokens)
    /\ job' = [job EXCEPT !.state = "parsed"]

-----------------------------------------------------------------------------
(* main: what a shell sees of it. *)

FinishLax(failed, strict) == 0    \* mutant
finish(failed, strict) == IF failed /\ strict THEN 1 ELSE 0
dispatch(command, failed, strict) ==
    IF command = "doctor" THEN 0 ELSE finish(command \in {"build", "run"} /\ failed, strict)
ExitCode(parsed, outcome) ==
    CASE parsed.state = "usage" -> 2
      [] parsed.state # "usage" /\ parsed.help -> 0
      [] parsed.state # "usage" /\ ~parsed.help /\ parsed.command = None -> 2
      [] OTHER -> IF outcome = "error" THEN 1
                  ELSE dispatch(parsed.command, outcome = "failed",
                                <<"strict", None>> \in ToSet(parsed.set))

-----------------------------------------------------------------------------
(* Toolchain::discover: the directories of the workspace come before PATH. *)

Distinct(path) ==    \* join_paths: the first mention of a directory stays
    LET kept == Indices(path, LAMBDA i : \A j \in 1..(i - 1) : path[j] # path[i])
    IN  [n \in DOMAIN kept |-> path[kept[n]]]
LastMention(path) == Reverse(Distinct(Reverse(path)))    \* mutant
join_paths(path) == Distinct(path)

\* An exported root wins when it is one, then the nearest above the project, then the
\* one the program was built in.
workspace_root(explicit, project, manifest) ==
    LET roots == SelectSeq(<<explicit, project, manifest>>, LAMBDA r : r # None)
    IN  IF roots = <<>> THEN None ELSE roots[1]

\* A hint that is no directory is discarded.
qemu_data_dir(hint, dirs, root) ==
    IF hint \in dirs THEN hint ELSE IF root # None /\ root \in dirs THEN root ELSE None

which(path, holders) ==
    LET here == {i \in DOMAIN path : path[i] \in holders}
    IN  IF here = {} THEN None ELSE path[CHOOSE i \in here : \A j \in here : i <= j]

-----------------------------------------------------------------------------
(* discover_artifacts and the choice of what to boot. *)

ScanDepth == 3
Files == [kind : {"iso", "image", "elf", "other"}, depth : {1, 4}, declared : BOOLEAN,
          there : BOOLEAN]
\* In the order of their paths; the model has one path per position.
discover_artifacts(files) ==
    SelectSeq([i \in DOMAIN files |-> files[i] @@ [path |-> i]],
              LAMBDA f : f.there /\ (f.declared \/ (f.depth <= ScanDepth /\ f.kind # "other")))

FirstOf(artifacts, kind) == SelectSeq(artifacts, LAMBDA a : a.kind = kind)
kernel_elf(kernel, artifacts, symbols) ==
    LET elfs == FirstOf(artifacts, "elf")
        Shallowest == CHOOSE i \in DOMAIN elfs : \A j \in DOMAIN elfs :
                        \/ elfs[i].depth < elfs[j].depth
                        \/ elfs[i].depth = elfs[j].depth /\ i <= j
    IN  IF kernel THEN <<"kernel">>
        ELSE IF elfs # <<>> THEN <<"artifact", elfs[Shallowest].path>>
        ELSE IF symbols THEN <<"symbols">> ELSE <<>>

boot_medium(kernel, artifacts, symbols) ==
    IF FirstOf(artifacts, "iso") # <<>> THEN <<"iso", FirstOf(artifacts, "iso")[1].path>>
    ELSE IF FirstOf(artifacts, "image") # <<>> THEN <<"disk", FirstOf(artifacts, "image")[1].path>>
    ELSE IF kernel_elf(kernel, artifacts, symbols) # <<>>
         THEN <<"elf">> \o kernel_elf(kernel, artifacts, symbols)
    ELSE <<"not found">>

-----------------------------------------------------------------------------
(* Argument vectors. *)

\* partition_args of run.rs: a flag of the engine's own is dropped, and the word after it.
Engine == {"-serial", "-nographic"}
IsWord(token) == token \in {"512", "stdio"}
KeepValues(args) == SelectSeq(args, LAMBDA t : t \notin Engine)    \* mutant
partition_args(args) ==
    LET Dropped(i) == args[i] \in Engine \/ (i > 1 /\ IsWord(args[i]) /\ args[i - 1] \in Engine)
        kept == Indices(args, LAMBDA i : ~Dropped(i))
    IN  [n \in DOMAIN kept |-> args[kept[n]]]

\* What a user writes: each item whole.
Items == {<<"-serial", "stdio">>, <<"-nographic">>, <<"-m", "512">>, <<"-s">>}

\* plan_build: the command, then the targets asked for, or else the project's own.
plan_build(command, backend, targets, own) ==
    LET selected == IF targets # <<>> THEN targets ELSE own
        base == IF command # <<>> THEN command
                ELSE IF backend = "custom" THEN <<>>
                ELSE IF backend = "cmake" THEN <<"cmake", "--build", ".">> ELSE <<"make">>
    IN  IF base = <<>> THEN <<"refused">>
        ELSE base \o IF backend = "cmake"
                     THEN FlattenSeq([i \in DOMAIN selected |-> <<"--target", selected[i]>>])
                     ELSE selected

-----------------------------------------------------------------------------
Init ==
    \/ \E tokens \in SeqOf(Tokens, MaxTokens) : job = Parse(tokens)
    \/ \E path \in SeqOf(Dirs, MaxItems), holders \in SUBSET Dirs :
         \E roots \in [1..3 -> {None} \cup Dirs], hint \in {None} \cup Dirs :
           /\ path = <<>> \/ roots = <<None, None, None>>    \* the two are independent
           /\ job = [kind |-> "env", path |-> path, holders |-> holders, roots |-> roots,
                     hint |-> hint]
    \/ \E files \in SeqOf(Files, 2), kernel, symbols \in BOOLEAN :
         job = [kind |-> "medium", files |-> files, kernel |-> kernel, symbols |-> symbols]
    \/ \E items \in SeqOf(Items, MaxItems) : job = [kind |-> "run args", items |-> items]
    \/ \E command \in {<<>>, <<"ninja">>}, backend \in {"make", "cmake", "custom"},
          targets \in SeqOf({"a", "b"}, 2), own \in SeqOf({"all"}, 1) :
         job = [kind |-> "build args", command |-> command, backend |-> backend,
                targets |-> targets, own |-> own]

Next == TakeHelp \/ TakeCommand \/ TakeOption \/ EndOfArgs

Spec == Init /\ [][Next]_job

-----------------------------------------------------------------------------
(* Properties. *)

\* An accepted line has been used up: what is not the value of the option before it is
\* the command, a --help, or an option of that command, and none of these is ignored.
ArgsAreUsedUp ==
    job.kind = "args" /\ job.state = "parsed" =>
        LET IsOption(i) == job.tokens[i].is = "flag"
            Needs(i) == IsOption(i) /\ job.tokens[i].inline = None
                          /\ job.tokens[i].name \in DOMAIN Options
                          /\ Options[job.tokens[i].name].value
            taken[i \in 0..Len(job.tokens)] ==
                i > 1 /\ ~taken[i - 1] /\ Needs(i - 1)
            Free(is) == Indices(job.tokens, LAMBDA i : ~taken[i] /\ job.tokens[i].is = is)
        IN  /\ [n \in DOMAIN job.set |-> job.set[n][1]] =
                 [n \in DOMAIN Free("flag") |-> job.tokens[Free("flag")[n]].name]
            /\ [n \in DOMAIN Free("word") |-> job.tokens[Free("word")[n]].name] =
                 IF job.command = None THEN <<>> ELSE <<job.command>>
            /\ job.help <=> Free("help") # <<>>
            /\ \A i \in DOMAIN job.set : job.command \in Options[job.set[i][1]].owners

\* With --strict a zero means that everything went well; without it, that the program
\* ran to its end.
ZeroIsHonest ==
    job.kind = "args" /\ job.state # "reading" =>
        \A outcome \in {"ok", "failed", "error"} :
            ExitCode(job, outcome) = 0 /\ ~job.help =>
                /\ job.state = "parsed" /\ job.command # None /\ outcome # "error"
                /\ <<"strict", None>> \in ToSet(job.set) /\ job.command \in {"build", "run"} =>
                     outcome = "ok"

\* Dropping the repeated directories of a search path changes nothing of what is found
\* in it, and the tools of the workspace come first.
FoundIsFirst ==
    job.kind = "env" =>
        /\ which(join_paths(job.path), job.holders) = which(job.path, job.holders)
        /\ IsInjective(join_paths(job.path))
        /\ LET root == workspace_root(job.roots[1], job.roots[2], job.roots[3])
           IN  /\ root # None => root \in Range(job.roots)
               /\ qemu_data_dir(job.hint, job.holders, root) \in job.holders \cup {None}

\* What is booted is there, is the first of its kind, and an ISO before a disk before a
\* kernel.
MediumIsBest ==
    job.kind = "medium" =>
        LET artifacts == discover_artifacts(job.files)
            medium == boot_medium(job.kernel, artifacts, job.symbols)
            Has(kind) == \E i \in DOMAIN artifacts : artifacts[i].kind = kind
        IN  /\ medium[1] = "iso" <=> Has("iso")
            /\ medium[1] = "disk" <=> Has("image") /\ ~Has("iso")
            /\ medium = <<"not found">> => ~Has("elf") /\ ~job.kernel /\ ~job.symbols
            /\ medium[1] \in {"iso", "disk"} => job.files[medium[2]].there

\* The user's emulator arguments reach the emulator as they are, the engine's own do
\* not, and every target asked for is built.
ArgumentsArePassed ==
    /\ job.kind = "run args" =>
         partition_args(FlattenSeq(job.items)) =
             FlattenSeq(SelectSeq(job.items, LAMBDA item : item[1] \notin Engine))
    /\ job.kind = "build args" =>
         LET argv == plan_build(job.command, job.backend, job.targets, job.own)
             asked == IF job.targets = <<>> THEN job.own ELSE job.targets
         IN  argv # <<"refused">> =>
               SelectSeq(argv, LAMBDA a : a \in {"a", "b", "all"}) = asked

CommandLineIsKept ==
    /\ ArgsAreUsedUp /\ ZeroIsHonest /\ FoundIsFirst /\ MediumIsBest /\ ArgumentsArePassed

=============================================================================
