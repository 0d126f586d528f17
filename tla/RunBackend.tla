----------------------------- MODULE RunBackend -----------------------------
(***************************************************************************)
(* The run backend (crates/princess-run/src/backend.rs, exit.rs, and       *)
(* classify_exit in princess-core/src/traits.rs) on top of the process     *)
(* runner: one call of launch_plan.  It announces the run, turns every     *)
(* chunk the runner pushes into events, and, when the runner has returned, *)
(* attributes a reason to the exit and announces that.                     *)
(*                                                                         *)
(* Some lines of the machine's serial text report a CPU fault; a line is a *)
(* range of units.  The observer sees the text chunk by chunk.             *)
(***************************************************************************)
EXTENDS RunProcess, FiniteSetsExt

CONSTANTS FaultLines,       \* the first and the last unit of each serial line
                            \* that reports a fault
          MaxFaultEvents    \* MAX_FAULT_EVENTS, 16 in the code

ASSUME TextAssumption ==
    /\ FaultLines \subseteq Nat \X Nat /\ IsFiniteSet(FaultLines)
    /\ MaxFaultEvents \in Nat

VARIABLES
    stage,      \* how far launch_plan is
    guest,      \* the evidence: the exit code of the leader, and whether the
                \* -d int,cpu_reset log has a triple fault in it
    emit_error, \* the sink has refused an event during the run
    reason,     \* the reason attributed to the exit
    events      \* what the sink has accepted

launch == <<stage, guest, emit_error, reason, events>>
allVars == <<vars, launch>>

\* An emulator that a signal ended has no exit code.
NoCode == 2
NoEvidence == [code |-> NoCode, triple_fault |-> FALSE]

Reasons == {"killed", "timeout", "triple-fault", "guest-shutdown"}
NoEvents == [started |-> FALSE, logged |-> [q \in Pipes |-> 0], faults |-> 0,
             exited |-> "none"]

\* launch_plan always gives the runner a deadline.
LaunchInit ==
    /\ Init /\ spec.timeout
    /\ stage = "start"
    /\ guest = NoEvidence
    /\ emit_error = FALSE /\ reason = "none" /\ events = NoEvents

-----------------------------------------------------------------------------
(* Before the run. *)

\* check_argv_contract refuses the plan, or the sink refuses run.started.
Refuse ==
    /\ stage = "start"
    /\ stage' = "err"
    /\ UNCHANGED <<vars, guest, emit_error, reason, events>>

Announce ==
    /\ stage = "start"
    /\ events' = [events EXCEPT !.started = TRUE]
    /\ stage' = "run"
    /\ UNCHANGED <<vars, guest, emit_error, reason>>

-----------------------------------------------------------------------------
(* During the run: the callback given to the runner. *)

\* The lines that are whole in the text after unit from and up to unit upto.
WholeLines(from, upto) == {l \in FaultLines : from < l[1] /\ l[2] <= upto}

\* The run.fault events a serial chunk gives rise to, up to the limit per run.
NewFaults(chunk) ==
    IF chunk.pipe = "serial"
    THEN Min({Cardinality(WholeLines(pushed["serial"], chunk.upto)),
              MaxFaultEvents - events.faults})
    ELSE 0

\* handle_chunk: log.append, then the faults found in the chunk, n of them.
Chunked(chunk, n) ==
    [events EXCEPT !.logged[chunk.pipe] = chunk.upto, !.faults = @ + n]

\* A sink failure is recorded and nothing more is emitted.
IgnoreErrors == FALSE    \* mutant
Silenced == emit_error

PushEvents ==
    /\ stage = "run" /\ Push
    /\ \/ Silenced /\ UNCHANGED <<emit_error, events>>
       \/ ~Silenced /\ events' = Chunked(cur, NewFaults(cur)) /\ UNCHANGED emit_error
       \/ ~Silenced /\ emit_error' = TRUE
          /\ \/ UNCHANGED events
             \/ \E n \in 0 .. NewFaults(cur) : events' = Chunked(cur, n)
    /\ UNCHANGED <<stage, guest, reason>>

\* Every other step of the run, and of run:stop, which may set the token after
\* the runner has returned.
RunStep ==
    /\ stage = "run"
    /\ \/ Machine \/ Outside \/ (Runner /\ ~Push)
       \/ \E q \in Pipes : Reader(q)
    /\ UNCHANGED launch

\* The machine and the readers do not stop with the call.
Aftermath ==
    /\ stage # "run"
    /\ Machine \/ \E q \in Pipes : Reader(q)
    /\ UNCHANGED launch

-----------------------------------------------------------------------------
(* After the run. *)

\* A sink failure comes first: no terminal event, the sink is gone.
SinkError ==
    /\ stage = "run" /\ pc = "done" /\ emit_error
    /\ stage' = "err"
    /\ UNCHANGED <<vars, guest, emit_error, reason, events>>

\* The runner failed: run.exited with reason killed, then the error.
GiveUp == stage' = "err" /\ UNCHANGED reason    \* mutant
ReportFailure == stage' = "fail" /\ reason' = "killed"

RunnerError ==
    /\ stage = "run" /\ pc = "done" /\ ~emit_error /\ result # "ok"
    /\ ReportFailure
    /\ UNCHANGED <<vars, guest, emit_error, events>>

\* classify_exit, on the evidence.
ByCodeFirst(c, t, triple, code) ==    \* mutant
    IF code = 0 THEN "guest-shutdown" ELSE IF c THEN "killed" ELSE IF t THEN "timeout"
    ELSE IF triple THEN "triple-fault" ELSE "killed"
ClassifyExit(c, t, triple, code) ==
    CASE c -> "killed"
      [] ~c /\ t -> "timeout"
      [] ~c /\ ~t /\ triple -> "triple-fault"
      [] OTHER -> IF code = 0 THEN "guest-shutdown" ELSE "killed"

\* The debug log is read, and the token once more, when the evidence is put
\* together.
Evidence ==
    /\ stage = "run" /\ pc = "done" /\ ~emit_error /\ result = "ok"
    /\ guest' \in [code : IF status = "exited" THEN {0, 1} ELSE {NoCode},
                   triple_fault : BOOLEAN]
    /\ reason' = ClassifyExit(cancelled \/ cancel, timed_out, guest'.triple_fault,
                             guest'.code)
    /\ stage' = "evidence"
    /\ UNCHANGED <<vars, emit_error, events>>

\* The terminal event is the last one; launch_plan then returns.
Terminal ==
    /\ stage \in {"evidence", "fail"}
    /\ events' = [events EXCEPT !.exited = reason]
    /\ stage' = IF stage = "evidence" THEN "ok" ELSE "err"
    /\ UNCHANGED <<vars, guest, emit_error, reason>>

\* A note before it, or run.exited itself, is refused: the error is returned.
TerminalRefused ==
    /\ stage \in {"evidence", "fail"}
    /\ emit_error' = TRUE
    /\ stage' = "err"
    /\ UNCHANGED <<vars, guest, reason, events>>

Backend ==
    \/ Refuse \/ Announce
    \/ SinkError \/ RunnerError \/ Evidence \/ Terminal \/ TerminalRefused

Returned == stage \in {"ok", "err"}
LaunchTerminating == Returned /\ UNCHANGED allVars

LaunchNext ==
    \/ Backend \/ PushEvents \/ RunStep \/ Aftermath \/ LaunchTerminating

\* The thread that calls launch_plan is the runner thread of RunProcess.
LaunchFairness ==
    /\ WF_allVars(Backend \/ PushEvents \/ (RunStep /\ Runner /\ ~ReapFails))
    /\ \A q \in Pipes : WF_allVars((RunStep \/ Aftermath) /\ Reader(q))
    /\ \A p \in Procs : WF_allVars((RunStep \/ Aftermath) /\ Die(p))

LaunchSpec == LaunchInit /\ [][LaunchNext]_allVars /\ LaunchFairness

-----------------------------------------------------------------------------
(* Properties. *)

LaunchTypeOK ==
    /\ TypeOK
    /\ stage \in {"start", "run", "fail", "evidence", "ok", "err"}
    /\ guest \in [code : {0, 1, NoCode}, triple_fault : BOOLEAN]
    /\ emit_error \in BOOLEAN /\ reason \in Reasons \cup {"none"}
    /\ events \in [started : BOOLEAN, logged : [Pipes -> Nat], faults : Nat,
                   exited : Reasons \cup {"none"}]

\* run.exited comes after everything: when the run has an outcome, every unit
\* the machine wrote has gone out as log.append before it (10-contracts.md
\* section 6 rule 5, backend.rs 236).
TerminalIsLast ==
    events.exited # "none" =>
        /\ events.started /\ pc = "done" /\ ~emit_error
        /\ result = "ok" => events.logged = written

\* The log on disk is ahead of the stream: a serial unit is in the log before
\* it goes out as log.append (10-contracts.md section 2).
DiskBeforeEvent == spec.tee => events.logged["serial"] <= teed

\* guest-shutdown and timeout are never said of a run that ended otherwise: the
\* exit code 0 of a triple fault, or of a machine that was told to stop, proves
\* no shutdown (exit.rs 8-24).
ReasonIsEarned ==
    /\ events.exited = "guest-shutdown" =>
         /\ status = "exited" /\ guest.code = 0 /\ ~guest.triple_fault
         /\ ~timed_out /\ ~cancelled
    /\ events.exited = "timeout" => timed_out /\ late /\ ~cancelled
    /\ events.exited = "triple-fault" => guest.triple_fault /\ ~timed_out /\ ~cancelled

\* A sink that has refused an event is not offered the next one, and nothing
\* follows run.exited.
NothingAfterTheEnd ==
    [][emit_error \/ events.exited # "none" => UNCHANGED events]_allVars

StreamIsWellFormed == []TerminalIsLast /\ NothingAfterTheEnd

\* A run whose runner has returned, with an outcome or with an error, is
\* announced as over, unless the sink refuses events (section 6 rule 5: the UI
\* is never left waiting).
EveryRunIsAnnounced ==
    (events.started /\ pc = "done") ~> (events.exited # "none" \/ emit_error)

\* Why the events are right: where launch_plan is, and how far the stream is
\* behind the runner.
Announced ==
    /\ stage \in {"run", "fail", "evidence", "ok"} => events.started
    /\ stage \in {"fail", "evidence", "ok"} => pc = "done"
    /\ stage \in {"start", "fail", "evidence", "ok"} => ~emit_error
    /\ events.exited # "none" =>
         stage \in {"ok", "err"} /\ events.started /\ pc = "done" /\ ~emit_error
    /\ \A q \in Pipes : /\ events.logged[q] <= pushed[q]
                        /\ ~emit_error => events.logged[q] = pushed[q]
    /\ events.faults <= MaxFaultEvents

\* Why the reason is right: it is attributed once, after the runner has
\* returned, and announced as it is.
Attributed ==
    /\ timed_out => late
    /\ events.exited \in {"none", reason}
    /\ reason # "none" => stage \in {"fail", "evidence", "ok", "err"}
    /\ reason = "guest-shutdown" =>
         /\ status = "exited" /\ guest.code = 0 /\ ~guest.triple_fault
         /\ ~timed_out /\ ~cancelled
    /\ reason = "timeout" => timed_out /\ ~cancelled
    /\ reason = "triple-fault" => guest.triple_fault /\ ~timed_out /\ ~cancelled

LaunchInductive == LaunchTypeOK /\ Inductive /\ Announced /\ Attributed

\* A fault the machine has printed has been reported by the time run.exited is:
\* the observer is fed "one complete line" at a time (serial.rs 163).  The code
\* does not keep this: a line that the idle timer of the chunker cuts in two
\* comes in two chunks, and neither half is a fault line.
FaultsAreReported ==
    events.exited # "none" /\ result = "ok" =>
        events.faults = Min({Cardinality(WholeLines(0, written["serial"])),
                             MaxFaultEvents})

=============================================================================
