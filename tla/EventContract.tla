---------------------------- MODULE EventContract ----------------------------
(***************************************************************************)
(* The event of the contract on its way from the engine to its readers:    *)
(* the payloads of princess-core (event.rs, types.rs), the check of the    *)
(* front end (parse.ts), the recorder and the two loaders of a recorded    *)
(* file, and the window of the event log of princess-view.                 *)
(***************************************************************************)
EXTENDS Naturals, Sequences, FiniteSets, FiniteSetsExt

CONSTANTS
    MaxWrites,  \* bound on the events of a recorded file
    MaxRows     \* bound on the rows of the event log

VARIABLE job

-----------------------------------------------------------------------------
(* A payload is a function from its fields to the JSON form of the value.  *)
(* "absent" is a field that is skipped.                                    *)

Words == {"string"}
Numbers == {"number"}

\* What serde writes: an Option is null, unless it is skipped when it is None.
Nullable(forms) == forms \cup {"null"}
Skippable(forms) == forms \cup {"absent"}

LogAppendPayload == [stream : Words, chunk : Words, encoding : Words]
BuildStartedPayload == [backend : Words, toolchainId : Words, argv : {"array"}, cwd : Words]
DiagnosticSource == {"clang", "gcc", "ld", "nasm"}
BuildDiagnosticPayload ==
    [severity : Words, file : Skippable(Words), line : Skippable(Numbers),
     col : Skippable(Numbers), message : Words, source : DiagnosticSource]
BuildFinishedPayload ==
    [status : Words, exitCode : Nullable(Numbers), durationMs : Numbers, artifacts : {"array"}]
RunStartedPayload == [qemuArgv : {"array"}, gdbStub : Nullable(Words)]
SymbolicatedLocation == {"object"}
RunFaultPayload ==
    [vector : Words, rip : Numbers, ripText : Words, errorCode : Numbers, regs : {"object"},
     symbolicated : Skippable(SymbolicatedLocation)]
RunExitedPayload ==
    [exitCode : Nullable(Numbers), reason : Words, uptimeMs : Numbers]
\* id, name, source and instructionPointer: not the frame of the front end.
StackFrame == {"frame"}
DebugStoppedPayload ==
    [reason : Words, threadId : Numbers, frame : StackFrame, regs : {"object"}]
SourceLocation == {"object"}
DebugBreakpointChangedPayload ==
    [id : Words, verified : {"boolean"}, location : Skippable(SourceLocation)]
DebugOutputPayload == [category : Words, text : Words]
SymbolsIndexedPayload ==
    [artifact : Words, buildId : Nullable(Words), symbolCount : Numbers]
ArtifactChangedPayload == [path : Words, kind : Words]
AiChunkPayload == [requestId : Words, text : Words]
AiFinishedPayload == [requestId : Words, usage : {"object"}]

EventBody ==
    [log_append |-> LogAppendPayload, build_started |-> BuildStartedPayload,
     build_diagnostic |-> BuildDiagnosticPayload, build_finished |-> BuildFinishedPayload,
     run_started |-> RunStartedPayload, run_fault |-> RunFaultPayload,
     run_exited |-> RunExitedPayload, debug_stopped |-> DebugStoppedPayload,
     debug_breakpoint_changed |-> DebugBreakpointChangedPayload,
     debug_output |-> DebugOutputPayload, symbols_indexed |-> SymbolsIndexedPayload,
     artifact_changed |-> ArtifactChangedPayload, ai_chunk |-> AiChunkPayload,
     ai_finished |-> AiFinishedPayload]
EventKind == DOMAIN EventBody

\* decode_payload: a field that is no Option must be there; null and absent are None.
None == {"null", "absent"}
Decoded(payload) == [field \in DOMAIN payload |->
                        IF payload[field] \in None THEN "absent" ELSE payload[field]]
MayBeNone(kind, field) == \E sample \in EventBody[kind] : sample[field] \in None
decode_payload(kind, payload) ==
    IF \A field \in DOMAIN payload : payload[field] \in None => MayBeNone(kind, field)
    THEN <<Decoded(payload)>> ELSE <<>>

\* PAYLOAD_SCHEMAS of the front end, where it is narrower than what the engine writes.
NarrowSchema ==
    [build_diagnostic |-> [file |-> Words, line |-> Numbers, col |-> Numbers,
                           source |-> DiagnosticSource \ {"gcc"}],
     build_finished |-> [exitCode |-> Numbers],
     run_started |-> [gdbStub |-> {"object", "null"}],
     run_fault |-> [rip |-> Words, errorCode |-> Words],
     run_exited |-> [exitCode |-> Numbers],
     debug_stopped |-> [frame |-> {"frame of the view"}],
     debug_breakpoint_changed |-> [id |-> Numbers, location |-> Words],
     symbols_indexed |-> [buildId |-> Words]]

\* parseEventEnvelope: every required field is there and of its form.
Lax(kind, payload) == kind # "run_fault"    \* mutant
PAYLOAD_SCHEMAS(kind, payload) ==
    kind \in DOMAIN NarrowSchema =>
        \A field \in DOMAIN NarrowSchema[kind] : payload[field] \in NarrowSchema[kind][field]

Sent(kind, payload) ==
    [kind |-> "event", of |-> kind, payload |-> payload, decoded |-> <<>>, shown |-> FALSE,
     pc |-> "wire"]

\* The same line, read back by the engine and taken by the live stream.
Receive ==
    /\ job.kind = "event" /\ job.pc = "wire"
    /\ job' = [job EXCEPT !.pc = "done", !.decoded = decode_payload(job.of, job.payload),
                          !.shown = PAYLOAD_SCHEMAS(job.of, job.payload)]

-----------------------------------------------------------------------------
(* EventRecorder.  The file is a sequence of writes: whole, torn inside    *)
(* the JSON, or whole but for the newline.                                 *)

Recorder == [kind |-> "recorder", file |-> <<>>, next_seq |-> 1, acknowledged |-> {},
             backward |-> FALSE, pc |-> "open"]

Write(seq, form) == Append(job.file, [seq |-> seq, form |-> form])
MayWrite == job.kind = "recorder" /\ job.pc = "open" /\ Len(job.file) < MaxWrites

\* emit_at: the number is taken before the write, which may fail or be cut short.
TakeAfterWrite(ok) == IF ok THEN job.next_seq + 1 ELSE job.next_seq    \* mutant
TakeSeq(ok) == job.next_seq + 1
emit_at ==
    /\ MayWrite
    /\ \/ job' = [job EXCEPT !.next_seq = TakeSeq(TRUE), !.file = Write(job.next_seq, "whole"),
                             !.acknowledged = @ \cup {job.next_seq}]
       \/ \E form \in {"torn", "unended", "whole"} :     \* whole: the flush failed
            job' = [job EXCEPT !.next_seq = TakeSeq(FALSE), !.file = Write(job.next_seq, form)]

\* record: an event that has its number is written as it is.
LeaveNext(seq) == job.next_seq    \* mutant
AdvancePast(seq) == Max({seq + 1, job.next_seq})
record ==
    /\ MayWrite
    /\ \E seq \in 1..MaxWrites :
         job' = [job EXCEPT !.next_seq = AdvancePast(seq), !.file = Write(seq, "whole"),
                            !.acknowledged = @ \cup {seq},
                            !.backward = @ \/ seq < job.next_seq]

Close == MayWrite /\ job.file # <<>> /\ job' = [job EXCEPT !.pc = "closed"]

\* A write that does not end its line runs into the next.
Starts(i) == i = 1 \/ job.file[i - 1].form = "whole"
IsParsable(i) ==
    /\ Starts(i)
    /\ job.file[i].form = "whole" \/ (job.file[i].form = "unended" /\ i = Len(job.file))
Lines == SelectSeq([i \in 1..Len(job.file) |-> i], Starts)

\* parse_ndjson of the engine: one bad line refuses the file.
ParseEngine ==
    IF \A i \in Range(Lines) : IsParsable(i) THEN <<[i \in 1..Len(Lines) |-> job.file[Lines[i]].seq]>>
    ELSE <<>>

\* parseNdjson of the front end: it keeps the good lines and counts the others.
Good == SelectSeq(Lines, IsParsable)
ParseFrontEnd ==
    [events |-> [i \in 1..Len(Good) |-> job.file[Good[i]].seq],
     violations |-> Len(Lines) - Len(Good)]

\* validate_stream.
StrictlyIncreasing(seqs) == \A i \in 1..Len(seqs) - 1 : seqs[i] < seqs[i + 1]

-----------------------------------------------------------------------------
(* EventLogBuilder: a window of the rows, from offset, at most limit.      *)

build(total, offset, limit) ==
    LET from == Min({offset, total})
        to == Min({from + limit, total})
    IN  SubSeq([i \in 1..total |-> i], from + 1, to)

\* A view scrolls through a log that grows meanwhile.
Scrolling(total, limit) ==
    [kind |-> "scroll", total |-> total, limit |-> limit, seen |-> <<>>, pc |-> "scroll"]
Scroll ==
    /\ job.kind = "scroll" /\ job.pc = "scroll"
    /\ LET page == build(job.total, Len(job.seen), job.limit)
       IN  job' = [job EXCEPT !.seen = @ \o page,
                              !.pc = IF page = <<>> THEN "done" ELSE "scroll"]
Grow ==
    /\ job.kind = "scroll" /\ job.pc = "scroll" /\ job.total < MaxRows
    /\ job' = [job EXCEPT !.total = @ + 1]

Init ==
    \/ \E kind \in EventKind : \E payload \in EventBody[kind] : job = Sent(kind, payload)
    \/ job = Recorder
    \/ \E total \in 0..MaxRows, limit \in 1..MaxRows : job = Scrolling(total, limit)
Next == Receive \/ emit_at \/ record \/ Close \/ Scroll \/ Grow
Spec == Init /\ [][Next]_job

-----------------------------------------------------------------------------
\* The kinds the front end shows whatever the engine puts into them.
AlwaysShown == {"log_append", "build_started", "debug_output", "artifact_changed",
                "ai_chunk", "ai_finished"}
NeverShown == {"run_fault", "debug_stopped", "debug_breakpoint_changed"}

\* The engine reads back what it wrote; the front end shows the six kinds whatever is in them,
\* never the three whose types differ, and the others when their optional fields are there.
WireIsUnderstood ==
    (job.kind = "event" /\ job.pc = "done") =>
        /\ job.decoded = <<Decoded(job.payload)>>
        /\ job.of \in AlwaysShown => job.shown
        /\ job.of \in NeverShown => ~job.shown
        /\ (job.of \in {"build_finished", "run_exited", "symbols_indexed"} =>
                (job.shown <=> \A field \in DOMAIN job.payload : job.payload[field] # "null"))

\* A number the recorder stamps is above every number that is in the file before it, also
\* when the write before it failed, so nothing is taken for a repetition of another event.
StampsAreFresh ==
    job.kind = "recorder" =>
        \A i \in 1..Len(job.file) : job.file[i].seq < job.next_seq

\* A file read back.  What the engine reads is all of the file; it refuses it when the front
\* end reports a bad line; and an acknowledged event the front end misses is a counted line.
\* The order of validate_stream is kept unless an event below the counter was recorded.
RecordingIsRead ==
    (job.kind = "recorder" /\ job.pc = "closed") =>
        /\ ParseEngine # <<>> => (/\ ParseFrontEnd.violations = 0
                                  /\ ParseFrontEnd.events = ParseEngine[1])
        /\ ParseEngine = <<>> => ParseFrontEnd.violations > 0
        /\ ~(job.acknowledged \subseteq Range(ParseFrontEnd.events))
             => ParseFrontEnd.violations > 0
        /\ ~job.backward => StrictlyIncreasing(ParseFrontEnd.events)

\* Scrolling page by page shows every row once and in order, however the log grows.
ScrollIsComplete ==
    job.kind = "scroll" =>
        /\ job.seen = [i \in 1..Len(job.seen) |-> i]
        /\ job.pc = "done" => Len(job.seen) = job.total

ContractIsKept == WireIsUnderstood /\ StampsAreFresh /\ RecordingIsRead /\ ScrollIsComplete

\* Not run, and false: every event of the engine is shown.
EverythingIsShown == (job.kind = "event" /\ job.pc = "done") => job.shown
=============================================================================
