----------------------------- MODULE MCWorkbench -----------------------------
(* One run for both compositions: a job is one of Inspection or one of Workbench.  Then *)
(* the small tables, streams and command lines of the run.                             *)
EXTENDS Inspection, Workbench

AllInit == InspectionInit \/ Init
AllNext == InspectionNext \/ Next
AllSpec == AllInit /\ [][AllNext]_job

PageEntry(p, ps, to) == [p |-> p, ps |-> ps, to |-> to]
MCEntries == {PageEntry(TRUE, FALSE, n) : n \in {0, 1, 3, 8}}
             \cup {PageEntry(TRUE, TRUE, 5), PageEntry(TRUE, TRUE, 2), PageEntry(FALSE, TRUE, 7)}
             \cup {PageEntry(FALSE, FALSE, 3)}

Slot(s, type, zero) == [s |-> s, type |-> type, zero |-> zero]
MCSlots == {Slot(FALSE, 0, TRUE), Slot(TRUE, 9, FALSE)} \cup {Slot(FALSE, t, FALSE) : t \in {2, 9, 3}}
Gate(type, zero, p, dpl) == [type |-> type, zero |-> zero, p |-> p, dpl |-> dpl]
MCGates == {Gate(0, TRUE, FALSE, 0), Gate(14, FALSE, TRUE, 0), Gate(15, FALSE, TRUE, 3),
            Gate(9, FALSE, FALSE, 0)}

MCBlocks ==
    {<<block>> : block \in {<<"data">>, <<"note">>, <<"done">>, <<"note", "data">>, <<"data", "data">>}}
    \cup {<<<<"data">>, block, <<"data", "note">>>> : block \in {<<"done">>, <<"note">>, <<"data">>}}
    \cup {<<<<"data">>, <<"done">>>>}
MCBodies ==
    {<<>>, <<<<"b">>>>, <<<<>>, <<"b", "b">>>>, <<<<"LF", "LF">>, <<"b">>>>,
     <<<<"b">>, <<"CR", "LF", "b">>, <<"LF">>>>}

Word(name) == [is |-> "word", name |-> name, inline |-> "none"]
Flag(name, value) == [is |-> "flag", name |-> name, inline |-> value]
MCTokens ==
    {[is |-> "help", name |-> "-h", inline |-> "none"], Word("build"), Word("run"), Word("7"),
     Flag("strict", "none"), Flag("target", "none"), Flag("target", "7"),
     Flag("timeout_ms", "none"), Flag("timeout_ms", "x"), Flag("rip", "none"),
     Flag("unknown", "none")}

\* What is there of the compilers, running or broken, and of the tools with one place.
MCVaried == {<<"launcher", "gcc">>, <<"path", "gcc">>, <<"path", "x86_64-elf-gcc">>, <<"itself", "./cc">>}
MCGiven == {<<"path", "make">>, <<"path", "ld.lld">>, <<"path", "nasm">>, <<"path", "as">>}
MCCompilers ==
    UNION {[files -> {"runs", "broken"}] : files \in SUBSET MCVaried}
MCHosts ==
    {[file \in DOMAIN varied \cup given |-> IF file \in given THEN "runs" ELSE varied[file]] :
        varied \in MCCompilers, given \in SUBSET MCGiven}
MCPins == {<<>>, [gcc |-> "./cc"], [gcc |-> "gcc", as |-> "as"],
           [gcc |-> "x86_64-elf-gcc", as |-> "nasm"]}

\* The words of a call: a flag, the value of one, or a file.
OfCall(text, is) == [text |-> text, is |-> is]
F(text) == OfCall(text, "flag")
V(text) == OfCall(text, "value")
S(text) == OfCall(text, "file")
MCCalls ==
    {<<F("-c"), S("main.c")>>, <<F("-c"), S("main.c"), F("-o"), V("kernel.o")>>,
     <<F("-o"), V("kernel.o"), F("-c"), S("util.c")>>,
     <<F("-include"), V("util.h"), F("-c"), S("util.c")>>,
     <<F("-c"), S("boot.S")>>, <<S("kernel.o"), F("-o"), V("kernel.elf")>>,
     <<F("-Wall"), S("main.c")>>, <<F("-c"), S("gone.c")>>,
     <<F("-c"), F("-T"), V("link.ld"), S("main.c")>>}
ConfigText(indent, is, says) == [indent |-> indent, is |-> is, says |-> says]
\* A line that holds all of these stands for as many lines.
MCItems == {"--target=", "-nostdlibinc", "-fconserve-stack", "-mpreferred-stack-boundary=*"}
MCConfigLines ==
    {ConfigText(0, "key", {}), ConfigText(2, "key", {}), ConfigText(2, "scalar", {}),
     ConfigText(2, "item", MCItems), ConfigText(4, "item", MCItems), ConfigText(4, "item", {"-W*"}),
     ConfigText(4, "item", {"-nostdinc"}), ConfigText(2, "comment", {"-W*"}),
     ConfigText(0, "comment", {"--target="}), ConfigText(4, "item", MCItems \ {"--target="}),
     ConfigText(4, "key", {}), ConfigText(0, "item", MCItems), ConfigText(4, "scalar", {"-nostdlibinc"})}
=============================================================================
