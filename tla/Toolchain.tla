------------------------------ MODULE Toolchain ------------------------------
(***************************************************************************)
(* The tools of a build: how they are looked for (toolchain.rs and `which' *)
(* of process.rs), what a plan is made of them (MakeBackend::plan and what *)
(* it calls in backend.rs), and what the child is told of them             *)
(* (build_env).                                                            *)
(*                                                                         *)
(* A file is a pair of the place it is found at and its name: "launcher"   *)
(* is the directory of launchers of the workspace, "path" the directories  *)
(* of PATH, and "itself" is for a name with a slash, which is its own      *)
(* place.  A host maps the executable files it has to "runs" or "broken":  *)
(* a broken one prints no version.                                         *)
(***************************************************************************)
EXTENDS Naturals, Sequences, SequencesExt, FiniteSets

CONSTANTS
    Hosts,      \* the hosts: functions from files to "runs" or "broken"
    Pins,       \* the [toolchain] sections: functions from "gcc", "ld" and "as" to names
    Slashed     \* the names that contain a slash

VARIABLE job

-----------------------------------------------------------------------------
(* What is looked for. *)

CrossPrefixed == [gcc |-> <<"x86_64-elf-gcc", "x86_64-linux-gnu-gcc", "x86_64-pc-elf-gcc", "gcc">>,
                  ld |-> <<"x86_64-elf-ld", "x86_64-linux-gnu-ld", "x86_64-pc-elf-ld", "ld">>]

candidates(tool) ==
    CASE tool = "make" -> <<"make", "gmake">>
      [] tool = "gcc" -> CrossPrefixed.gcc \o <<"clang", "cc">>
      [] tool = "ld" -> CrossPrefixed.ld \o <<"ld.lld", "ld">>
      [] tool = "nasm" -> <<"nasm", "yasm">>
      [] OTHER -> <<tool>>

\* ToolRole::required: driver, compiler and linker.
Required == {"make", "gcc", "ld"}

kernel_tool_specs == <<"make", "gcc", "ld", "nasm", "bear", "clangd-16">>
tool_specs_from_manifest(cdb_generation, lsp) ==
    <<"make", "gcc", "ld", "nasm">> \o (IF cdb_generation THEN <<"bear">> ELSE <<>>) \o <<lsp>>

\* A plan is made of the kernel's tools; tools of a manifest are only detected.
Init ==
    \E host \in Hosts, pins \in Pins, assembles \in BOOLEAN :
      \E specs \in {kernel_tool_specs, tool_specs_from_manifest(FALSE, "clangd-16")} :
        job = [kind |-> "tools", host |-> host, pins |-> pins, specs |-> specs,
               assembles |-> assembles, at |-> 1, candidate |-> 1,
               found |-> [i \in DOMAIN specs |-> <<>>],
               outcome |-> "detecting", missing |-> {}, argv |-> <<>>]

-----------------------------------------------------------------------------
(* ToolchainDetector. *)

There(file) == file \in DOMAIN job.host
Runs(file) == There(file) /\ job.host[file] = "runs"

\* resolve: the launchers win the race; <<>> if there is no such file.
FirstThere(files) ==
    IF \E i \in DOMAIN files : There(files[i])
    THEN files[CHOOSE i \in DOMAIN files :
                 There(files[i]) /\ \A j \in 1..(i - 1) : ~There(files[j])]
    ELSE <<>>
Places(name) ==
    IF name \in Slashed THEN <<<<"itself", name>>>>
    ELSE <<<<"launcher", name>>, <<"path", name>>>>
PathFirst(name) == FirstThere(Reverse(Places(name)))    \* mutant
resolve(name) == FirstThere(Places(name))

\* detect_one: the pin first.  The assembler is pinned by another name than its own.
OverrideKey(tool) == IF tool = "nasm" THEN "as" ELSE tool
Candidates(tool) ==
    (IF OverrideKey(tool) \in DOMAIN job.pins THEN <<job.pins[OverrideKey(tool)]>> ELSE <<>>)
    \o candidates(tool)

Detecting == job.kind = "tools" /\ job.outcome = "detecting" /\ job.at <= Len(job.specs)
Tool == job.specs[job.at]
Untried == job.candidate <= Len(Candidates(Tool))
Candidate == resolve(Candidates(Tool)[job.candidate])

\* version: what is there must also run.
AnswersAnyway(file) == There(file)    \* mutant
Answers(file) == Runs(file)

Find ==
    /\ Detecting /\ Untried /\ Answers(Candidate)
    /\ job' = [job EXCEPT !.found[job.at] = Candidate, !.at = @ + 1, !.candidate = 1]

Fail ==
    /\ Detecting /\ Untried /\ ~Answers(Candidate)
    /\ job' = [job EXCEPT !.candidate = @ + 1]

Unavailable ==
    /\ Detecting /\ ~Untried
    /\ job' = [job EXCEPT !.at = @ + 1, !.candidate = 1]

Detected == job.kind = "tools" /\ job.outcome = "detecting" /\ job.at > Len(job.specs)
Found(tool) == job.found[CHOOSE i \in DOMAIN job.specs : job.specs[i] = tool]
Available(tool) == Found(tool) # <<>>

\* missing_required.
missing_required == {tool \in Required : ~Available(tool)}

-----------------------------------------------------------------------------
(* MakeBackend. *)

\* project_needs_nasm: it has sources in that syntax, or a pin that is called so.
NamedNasm == {"nasm", "./nasm"}
project_needs_nasm ==
    job.assembles \/ ("as" \in DOMAIN job.pins /\ job.pins["as"] \in NamedNasm)

\* require_tools_for.
RequiredOnly == missing_required    \* mutant
Missing ==
    missing_required \cup (IF project_needs_nasm /\ ~Available("nasm") THEN {"nasm"} ELSE {})

Planning == Detected /\ job.specs = kernel_tool_specs

\* E_TOOLCHAIN_MISSING, with a fix for each.
Refuse ==
    /\ Planning /\ Missing # {}
    /\ job' = [job EXCEPT !.outcome = "refused", !.missing = Missing]

\* [build] command after shell_split: none, nothing but quotes, make, or something else.
Commands == {<<>>, <<"quotes">>, <<"make", "-f">>, <<"script">>}

\* make is run by the path it was found at.
Argv(command, targets) ==
    IF command = <<>> THEN <<Found("make")>> \o targets
    ELSE (IF Head(command) = "make" THEN <<Found("make")>> ELSE <<Head(command)>>)
         \o Tail(command) \o targets

plan ==
    /\ Planning /\ Missing = {}
    /\ \E command \in Commands, targets \in {<<>>, <<"target">>} :
         job' = IF command = <<"quotes">> THEN [job EXCEPT !.outcome = "E_INVALID_CONFIG"]
                ELSE [job EXCEPT !.outcome = "planned", !.argv = Argv(command, targets)]

Next == Find \/ Fail \/ Unavailable \/ Refuse \/ plan

Spec == Init /\ [][Next]_job

\* build_env: where the child looks first, and the pins it is told of.
build_env ==
    [path |-> <<"launcher", "path">>,
     tools |-> [tool \in DOMAIN job.pins \cap {"gcc", "ld"} |-> job.pins[tool]]]

-----------------------------------------------------------------------------
(* Properties. *)

\* What is reported as available is one of the tool's spellings or its pin, is there and runs,
\* and no better candidate would have run; what is reported as missing has no candidate
\* that would.
AvailableRuns ==
    job.kind = "tools" =>
        \A i \in 1..(job.at - 1) :
            LET names == Candidates(job.specs[i])
                Good == {n \in DOMAIN names : Runs(resolve(names[n]))}
            IN  job.found[i] = IF Good = {} THEN <<>>
                               ELSE resolve(names[CHOOSE n \in Good : \A m \in Good : n <= m])

\* A plan is refused for the tools it cannot do without, all of them named, and a plan that is
\* made has them all, and runs the make that was found.
RefusedOrComplete ==
    job.kind = "tools" =>
        LET lacking == {tool \in Required \cup (IF project_needs_nasm THEN {"nasm"} ELSE {}) :
                            \A n \in DOMAIN Candidates(tool) :
                                ~Runs(resolve(Candidates(tool)[n]))}
        IN  /\ job.outcome = "refused" => job.missing = lacking /\ lacking # {}
            /\ job.outcome = "planned" =>
                 lacking = {} /\ (job.argv[1] = "script" \/ Runs(job.argv[1]))

\* A pin that runs is the tool that is reported, and the file that the child finds when it
\* looks for the name it is told along the path it is given.
ChildFinds(name) ==
    FirstThere(IF name \in Slashed THEN <<<<"itself", name>>>>
               ELSE [n \in DOMAIN build_env.path |-> <<build_env.path[n], name>>])
PinsAreUsed ==
    job.kind = "tools" =>
        \A i \in 1..(job.at - 1) :
            job.specs[i] \in DOMAIN build_env.tools =>
                LET told == ChildFinds(build_env.tools[job.specs[i]])
                IN  Runs(told) => job.found[i] = told

ToolsAreTruthful == AvailableRuns /\ RefusedOrComplete /\ PinsAreUsed

\* Not so: a pin that does not run is replaced by another candidate in the report, and is
\* exported to the child all the same (backend.rs 252).
PinRuns ==
    job.kind = "tools" /\ job.outcome = "planned" =>
        \A tool \in DOMAIN build_env.tools : Runs(ChildFinds(build_env.tools[tool]))

\* Not so: a pin of GNU as answers for nasm (toolchain.rs 399), so a project with sources in
\* nasm's syntax is planned on a host that has no nasm.
NasmIsNasm ==
    job.kind = "tools" /\ job.outcome = "planned" /\ project_needs_nasm =>
        Found("nasm")[2] \in ToSet(candidates("nasm")) \cup NamedNasm

=============================================================================
