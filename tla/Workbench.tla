------------------------------ MODULE Workbench ------------------------------
(***************************************************************************)
(* The parts of the program that take one job and finish it: a transcript  *)
(* of a compiler, a command line, a project's files, a detection of tools, *)
(* a window of the front end.  Each module beside this one models one of   *)
(* them and holds its job in `job'; here they share it, so that one run    *)
(* checks them all.  A step of one module is never enabled by the job of   *)
(* another: the kinds of jobs are disjoint.                                *)
(***************************************************************************)
EXTENDS Jobs, Sequences

Streams  == INSTANCE Framing WITH Blocks <- StreamBlocks
Pump     == INSTANCE CliPump
Command  == INSTANCE CommandLine
Output   == INSTANCE OutputText
Project  == INSTANCE ProjectFiles
Contract == INSTANCE EventContract
Window   == INSTANCE FrontEnd
Tools    == INSTANCE Toolchain
Clangd   == INSTANCE CompileDatabase

\* What a compiler makes of the words of a call: a word with a dash is a flag, unless it is the
\* value of the flag before it, and a flag of VALUE_TAKING_FLAGS has one.
ASSUME CallsAreRead ==
    \A call \in Calls :
        /\ call \in Seq({call[i] : i \in DOMAIN call})
        /\ \A i \in DOMAIN call :
             /\ call[i].is \in {"flag", "value", "file"}
             /\ call[i].is # "value" => (call[i].is = "flag" <=> call[i].text \in Clangd!Flags)
             /\ call[i].is = "value" => i > 1 /\ call[i - 1].is = "flag"
             /\ i > 1 /\ call[i - 1].is = "flag" /\ call[i - 1].text \in Clangd!VALUE_TAKING_FLAGS
                  => call[i].is = "value"

\* The parent directory is no file.
ASSUME FilesHaveNames == ".." \notin BuildFiles

Init ==
    \/ Streams!Init \/ Pump!Init \/ Command!Init
    \/ Output!Init \/ Project!Init
    \/ Contract!Init \/ Window!Init
    \/ Tools!Init \/ Clangd!Init

Next ==
    \/ Streams!Next \/ Pump!Next \/ Command!Next
    \/ Output!Next \/ Project!Next
    \/ Contract!Next \/ Window!Next
    \/ Tools!Next \/ Clangd!Next

Spec == Init /\ [][Next]_job

-----------------------------------------------------------------------------
\* However a stream is cut into reads, what was written is what is decoded (sse.rs, framing.rs,
\* http.rs), and an event is typed, stamped and recorded as the contract says (event.rs); the
\* pump of the command line shows what came, in order, and reports how it ended (run.rs and
\* build.rs of princess-cli).
WireIsKept == Streams!DecodedAsWritten /\ Contract!ContractIsKept /\ Pump!PumpIsFaithful

\* A transcript of the tools becomes the diagnostics and the exceptions it holds
\* (diagnostics.rs, javac.rs, serial.rs).
OutputIsUnderstood == Output!OutputIsUnderstood

\* What is asked on the command line, in the project's files and in the environment is what
\* the engine is given (args.rs, env.rs, config.rs).
AskedIsGiven == Command!CommandLineIsKept /\ Project!ProjectIsUnderstood

\* The window shows one source of events and the answers that are current (app.ts).
WindowIsConsistent == Window!WindowIsConsistent

\* A tool that is reported is there, runs and is the one the build uses, and a build that is
\* planned lacks none (toolchain.rs, backend.rs of princess-build); clangd is given every
\* compilation once, in a form it reads, and a configuration that does not silence it
\* (clangd.rs).
ToolsAreTruthful == Tools!ToolsAreTruthful /\ Clangd!ClangdIsServed
=============================================================================
