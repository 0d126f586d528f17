----------------------------- MODULE RunProcess -----------------------------
(***************************************************************************)
(* The process runner of princess-run (crates/princess-run/src/process.rs):*)
(* one call of SystemRunner::run, from the spawn of the emulator in a      *)
(* process group of its own to the outcome handed back to the run backend. *)
(*                                                                         *)
(* Four kinds of actors interleave:                                        *)
(*   - the runner thread, which opens the serial log, polls the leader,    *)
(*     enforces cancellation and deadline, receives chunks, writes them to *)
(*     the log and pushes them to the caller;                              *)
(*   - one reader per pipe (a pump thread and a chunker thread joined by   *)
(*     an unbounded queue, modelled as one actor);                         *)
(*   - the machine: the group leader and the descendants it forks, which   *)
(*     write, close pipes, leave the group, exit, and die when killed;     *)
(*   - the outside: the cancel token, and the passing of time.             *)
(*                                                                         *)
(* Output is a stream of units per pipe.  A unit is a line or a piece of   *)
(* one; only how far each stage has got matters, so every stage keeps the  *)
(* cumulative number of units of a pipe it has seen, as TCP does with      *)
(* sequence numbers, and a chunk carries the number it reaches up to.      *)
(***************************************************************************)
EXTENDS Naturals, Sequences

CONSTANTS Helpers,    \* descendants that may be forked into the leader's group
          MaxUnits    \* per pipe, a bound on the units of output the machine writes

Leader == "leader"
Procs == {Leader} \cup Helpers
Pipes == {"serial", "emulator"}

ASSUME ModelAssumption == Leader \notin Helpers /\ MaxUnits \in [Pipes -> Nat]

VARIABLES
    spec,       \* the SpawnSpec: is a tee configured, is there a deadline
    \* the machine
    proc,       \* life of each process; "exited" and "killed" are dead
    group,      \* members of the leader's process group
    doomed,     \* processes that have been sent SIGKILL
    holds,      \* per pipe, the processes that hold its write end
    written,    \* per pipe, units written by the machine
    \* the outside
    cancel,     \* the cancel token
    late,       \* the deadline has passed
    grace,      \* drain_grace has elapsed since the last at_eof chunk
    \* the readers
    pumped,     \* per pipe, units taken from the pipe
    sent,       \* per pipe, units sent on the channel
    reader,     \* per pipe, the life of the reader
    chan,       \* the mpsc channel of chunks
    \* the runner thread
    pc,         \* where the runner thread is
    cur,        \* the chunk it has received
    status,     \* how the leader ended, once try_wait or wait has told
    timed_out, cancelled, kill_done,
    eof_seen,   \* the readers whose at_eof chunk has been received
    teed,       \* units of serial output in the serial log, on disk
    pushed,     \* per pipe, units handed to on_chunk
    result,     \* what the call returned
    group_dead  \* the group_dead field of the outcome

machine == <<proc, group, doomed, holds, written>>
outside == <<cancel, late, grace>>
readers == <<pumped, sent, reader, chan>>
flags == <<timed_out, cancelled, kill_done>>
sinks == <<teed, pushed>>
outcome == <<result, group_dead>>
vars == <<spec, machine, outside, readers, pc, cur, status, flags, eof_seen,
          sinks, outcome>>

Chunk == [pipe : Pipes, upto : Nat, at_eof : BOOLEAN]
NoChunk == [pipe |-> "serial", upto |-> 0, at_eof |-> FALSE]
LoopPoints == {"poll", "watch", "recv", "tee", "push", "check"}
Errors == {"spawn_error", "open_error", "wait_error", "write_error", "reap_error"}

Init ==
    /\ spec \in [tee : BOOLEAN, timeout : BOOLEAN]
    /\ proc = [p \in Procs |-> "unborn"]
    /\ group = {} /\ doomed = {}
    /\ holds = [q \in Pipes |-> {}]
    /\ written = [q \in Pipes |-> 0]
    /\ cancel \in BOOLEAN
    /\ late = FALSE /\ grace = FALSE
    /\ pumped = [q \in Pipes |-> 0]
    /\ sent = [q \in Pipes |-> 0]
    /\ reader = [q \in Pipes |-> "none"]
    /\ chan = <<>>
    /\ pc = "spawn" /\ cur = NoChunk /\ status = "none"
    /\ timed_out = FALSE /\ cancelled = FALSE /\ kill_done = FALSE
    /\ eof_seen = {}
    /\ teed = 0 /\ pushed = [q \in Pipes |-> 0]
    /\ result = "none" /\ group_dead = FALSE

Running(p) == proc[p] = "running"
Dead(p) == proc[p] \in {"exited", "killed"}

\* Has the group a running member?  Zombies do not count.
GroupAlive == \E p \in group : Running(p)

\* Every running member of the group, once the group has been sent SIGKILL.
\* SIGTERM always precedes SIGKILL without a pause that changes anything here.
KillLeader == doomed' = doomed \cup {p \in {Leader} : Running(p)}    \* mutant
KillGroup == doomed' = doomed \cup {p \in group : Running(p)}

Return(r) == pc' = "done" /\ result' = r

\* Has the leader ended, and how?  Asked until the answer is known.
WaitUnchecked == status' = IF status = "none" THEN proc[Leader] ELSE status \* mutant
Wait ==
    status' = IF status = "none" /\ Dead(Leader) THEN proc[Leader] ELSE status

\* No reader can send any more.
SerialGone == reader["serial"] = "done"    \* mutant
SendersGone == \A q \in Pipes : reader[q] = "done"

-----------------------------------------------------------------------------
(* The machine. *)

\* A running process forks: the child inherits the group and the pipes.  A
\* process with a SIGKILL pending does not return from fork.
Fork(parent, child) ==
    /\ Running(parent) /\ parent \notin doomed
    /\ proc[child] = "unborn"
    /\ proc' = [proc EXCEPT ![child] = "running"]
    /\ group' = IF parent \in group THEN group \cup {child} ELSE group
    /\ holds' = [q \in Pipes |->
                   IF parent \in holds[q] THEN holds[q] \cup {child} ELSE holds[q]]
    /\ UNCHANGED <<spec, doomed, written, outside, readers, pc, cur, status,
                   flags, eof_seen, sinks, outcome>>

\* A descendant moves to a group of its own (setsid, setpgid).
LeaveGroup(h) ==
    /\ Running(h) /\ h \in group /\ h \notin doomed
    /\ group' = group \ {h}
    /\ UNCHANGED <<spec, proc, doomed, holds, written, outside, readers, pc,
                   cur, status, flags, eof_seen, sinks, outcome>>

Write(p, q) ==
    /\ Running(p) /\ p \notin doomed /\ p \in holds[q]
    /\ written[q] < MaxUnits[q]
    /\ written' = [written EXCEPT ![q] = @ + 1]
    /\ UNCHANGED <<spec, proc, group, doomed, holds, outside, readers, pc, cur,
                   status, flags, eof_seen, sinks, outcome>>

ClosePipe(p, q) ==
    /\ Running(p) /\ p \notin doomed /\ p \in holds[q]
    /\ holds' = [holds EXCEPT ![q] = @ \ {p}]
    /\ UNCHANGED <<spec, proc, group, doomed, written, outside, readers, pc,
                   cur, status, flags, eof_seen, sinks, outcome>>

\* A process ends: by itself, or by the signals it was sent, of which it may
\* still handle SIGTERM and exit before SIGKILL takes it.
End(p, how) ==
    /\ Running(p)
    /\ proc' = [proc EXCEPT ![p] = how]
    /\ holds' = [q \in Pipes |-> holds[q] \ {p}]
    /\ UNCHANGED <<spec, group, doomed, written, outside, readers, pc, cur,
                   status, flags, eof_seen, sinks, outcome>>

Exit(p) == p \notin doomed /\ End(p, "exited")
Die(p) == p \in doomed /\ \E how \in {"exited", "killed"} : End(p, how)

Machine ==
    \/ \E parent \in Procs, child \in Helpers : Fork(parent, child)
    \/ \E h \in Helpers : LeaveGroup(h)
    \/ \E p \in Procs, q \in Pipes : Write(p, q) \/ ClosePipe(p, q)
    \/ \E p \in Procs : Exit(p) \/ Die(p)

-----------------------------------------------------------------------------
(* The outside. *)

\* Somebody holding the CancelToken cancels; it stays cancelled.  The token
\* outlives the call.
Cancel ==
    /\ ~cancel
    /\ cancel' = TRUE
    /\ UNCHANGED <<spec, machine, late, grace, readers, pc, cur, status, flags,
                   eof_seen, sinks, outcome>>

\* The deadline, fixed when the readers have been started, passes.
Deadline ==
    /\ ~late /\ spec.timeout /\ pc \notin {"spawn", "open", "done"}
    /\ late' = TRUE
    /\ UNCHANGED <<spec, machine, cancel, grace, readers, pc, cur, status,
                   flags, eof_seen, sinks, outcome>>

\* drain_grace passes since the last at_eof chunk.
GraceElapses ==
    /\ ~grace /\ eof_seen # {} /\ pc \in LoopPoints
    /\ grace' = TRUE
    /\ UNCHANGED <<spec, machine, cancel, late, readers, pc, cur, status, flags,
                   eof_seen, sinks, outcome>>

Outside == Cancel \/ Deadline \/ GraceElapses

-----------------------------------------------------------------------------
(* The reader of pipe q: pump thread, byte queue and chunker. *)

\* The pump reads what is in the pipe, or part of it.
Pump(q) ==
    /\ reader[q] = "reading"
    /\ \E upto \in pumped[q] + 1 .. written[q] :
          pumped' = [pumped EXCEPT ![q] = upto]
    /\ UNCHANGED <<spec, machine, outside, sent, reader, chan, pc, cur, status,
                   flags, eof_seen, sinks, outcome>>

Send(q, upto, at_eof) ==
    /\ chan' = Append(chan, [pipe |-> q, upto |-> upto, at_eof |-> at_eof])
    /\ sent' = [sent EXCEPT ![q] = upto]

\* The chunker flushes complete lines, or on an idle timer what it may show.
Flush(q) ==
    /\ reader[q] = "reading" /\ pc # "done"
    /\ \E upto \in sent[q] + 1 .. pumped[q] : Send(q, upto, FALSE)
    /\ UNCHANGED <<spec, machine, outside, pumped, reader, pc, cur, status,
                   flags, eof_seen, sinks, outcome>>

\* What is left for the at_eof chunk.
NoRemainder(q) == FALSE    \* mutant
Remainder(q) == sent[q] < pumped[q]

\* End of file: nobody holds the write end and the pipe is empty.  What the
\* chunker still holds goes out as the at_eof chunk; nothing held, no chunk.
Eof(q) ==
    /\ reader[q] = "reading" /\ pc # "done"
    /\ holds[q] = {} /\ pumped[q] = written[q]
    /\ reader' = [reader EXCEPT ![q] = "done"]
    /\ IF Remainder(q) THEN Send(q, pumped[q], TRUE)
                       ELSE UNCHANGED <<chan, sent>>
    /\ UNCHANGED <<spec, machine, outside, pumped, pc, cur, status, flags,
                   eof_seen, sinks, outcome>>

\* The call has returned with an error and dropped the receiver: a send fails,
\* and the reader, which nobody joins, gives up.
Hangup(q) ==
    /\ reader[q] = "reading" /\ pc = "done"
    /\ sent[q] < pumped[q] \/ (holds[q] = {} /\ pumped[q] = written[q])
    /\ reader' = [reader EXCEPT ![q] = "done"]
    /\ UNCHANGED <<spec, machine, outside, pumped, sent, chan, pc, cur, status,
                   flags, eof_seen, sinks, outcome>>

Reader(q) == Pump(q) \/ Flush(q) \/ Eof(q) \/ Hangup(q)

-----------------------------------------------------------------------------
(* The runner thread. *)

SpawnFails ==
    /\ pc = "spawn"
    /\ Return("spawn_error")
    /\ UNCHANGED <<spec, machine, outside, readers, cur, status, flags,
                   eof_seen, sinks, group_dead>>

\* The leader starts, alone in its group and holding both pipes.
Spawn ==
    /\ pc = "spawn"
    /\ proc' = [proc EXCEPT ![Leader] = "running"]
    /\ group' = {Leader}
    /\ holds' = [q \in Pipes |-> {Leader}]
    /\ pc' = "open"
    /\ UNCHANGED <<spec, doomed, written, outside, readers, cur, status, flags,
                   eof_seen, sinks, outcome>>

\* The serial log cannot be created: kill_group_blocking, then reap the leader.
OpenFails ==
    /\ pc = "open" /\ spec.tee
    /\ KillGroup
    /\ pc' = "abort"
    /\ UNCHANGED <<spec, proc, group, holds, written, outside, readers, cur,
                   status, flags, eof_seen, sinks, outcome>>

Abort ==
    /\ pc = "abort" /\ Dead(Leader)
    /\ Return("open_error")
    /\ UNCHANGED <<spec, machine, outside, readers, cur, status, flags,
                   eof_seen, sinks, group_dead>>

\* The log is open, or none is configured: start one reader per pipe.
StartReaders ==
    /\ pc = "open"
    /\ reader' = [q \in Pipes |-> "reading"]
    /\ pc' = "poll"
    /\ UNCHANGED <<spec, machine, outside, pumped, sent, chan, cur, status,
                   flags, eof_seen, sinks, outcome>>

\* try_wait, as long as the leader has not been reaped.
Poll ==
    /\ pc = "poll"
    /\ Wait
    /\ pc' = "watch"
    /\ UNCHANGED <<spec, machine, outside, readers, cur, flags, eof_seen, sinks,
                   outcome>>

\* try_wait itself fails: kill_group_blocking (bounded, result ignored), Err.
PollFails ==
    /\ pc = "poll" /\ status = "none"
    /\ KillGroup
    /\ Return("wait_error")
    /\ UNCHANGED <<spec, proc, group, holds, written, outside, readers, cur,
                   status, flags, eof_seen, sinks, group_dead>>

MayKillReaped == ~kill_done    \* mutant
MayKill == status = "none" /\ ~kill_done

\* Cancellation and deadline are looked at only while the leader is not reaped,
\* and only until one of them has killed the group.
Watch ==
    /\ pc = "watch"
    /\ pc' = "recv"
    /\ IF MayKill /\ (cancel \/ late)
       THEN /\ cancelled' = cancel /\ timed_out' = late
            /\ kill_done' = TRUE
            /\ KillGroup
       ELSE UNCHANGED <<flags, doomed>>
    /\ UNCHANGED <<spec, proc, group, holds, written, outside, readers, cur,
                   status, eof_seen, sinks, outcome>>

\* Serial output goes through the log, if there is one.
PushFirst(chunk) == "push"    \* mutant
NextFor(chunk) == IF chunk.pipe = "serial" /\ spec.tee THEN "tee" ELSE "push"

\* A chunk is there.  The last chunk of a pipe restarts the drain clock.
Receive ==
    /\ pc = "recv" /\ chan # <<>>
    /\ cur' = Head(chan) /\ chan' = Tail(chan)
    /\ eof_seen' = IF cur'.at_eof THEN eof_seen \cup {cur'.pipe} ELSE eof_seen
    /\ grace' = (grace /\ ~cur'.at_eof)
    /\ pc' = NextFor(cur')
    /\ UNCHANGED <<spec, machine, cancel, late, pumped, sent, reader, status,
                   flags, sinks, outcome>>

\* Nothing for 20 ms, and a sender is left.
ReceiveTimeout ==
    /\ pc = "recv" /\ chan = <<>> /\ ~SendersGone
    /\ pc' = "check"
    /\ UNCHANGED <<spec, machine, outside, readers, cur, status, flags,
                   eof_seen, sinks, outcome>>

\* Every sender is gone: the loop ends.
Disconnected ==
    /\ pc = "recv" /\ chan = <<>> /\ SendersGone
    /\ pc' = "final"
    /\ UNCHANGED <<spec, machine, outside, readers, cur, status, flags,
                   eof_seen, sinks, outcome>>

\* write_all and flush of a serial chunk into the log.
TeeWrite ==
    /\ pc = "tee"
    /\ teed' = cur.upto
    /\ pc' = "push"
    /\ UNCHANGED <<spec, machine, outside, readers, cur, status, flags,
                   eof_seen, pushed, outcome>>

\* The write fails (disk full): the call returns at once.
TeeFails ==
    /\ pc = "tee"
    /\ Return("write_error")
    /\ UNCHANGED <<spec, machine, outside, readers, cur, status, flags,
                   eof_seen, sinks, group_dead>>

\* on_chunk(chunk)
Push ==
    /\ pc = "push"
    /\ pushed' = [pushed EXCEPT ![cur.pipe] = cur.upto]
    /\ pc' = "check"
    /\ UNCHANGED <<spec, machine, outside, readers, cur, status, flags,
                   eof_seen, teed, outcome>>

\* The loop may also end when every pipe has shown its at_eof chunk, the leader
\* is reaped and the drain grace is over.
StopWhenReaped == status # "none"    \* mutant
MayStop == eof_seen = Pipes /\ status # "none" /\ grace

Check ==
    /\ pc = "check"
    /\ pc' = IF MayStop THEN "final" ELSE "poll"
    /\ UNCHANGED <<spec, machine, outside, readers, cur, status, flags,
                   eof_seen, sinks, outcome>>

\* "Whatever happened, the group must not outlive this call."
KillNone == UNCHANGED doomed    \* mutant
KillUnreaped == IF status = "none" THEN KillGroup ELSE UNCHANGED doomed

Final ==
    /\ pc = "final"
    /\ KillUnreaped
    /\ pc' = "join"
    /\ UNCHANGED <<spec, proc, group, holds, written, outside, readers, cur,
                   status, flags, eof_seen, sinks, outcome>>

Join ==
    /\ pc = "join" /\ SendersGone
    /\ pc' = "reap"
    /\ UNCHANGED <<spec, machine, outside, readers, cur, status, flags,
                   eof_seen, sinks, outcome>>

\* child.wait(), which blocks, unless try_wait has reaped the leader already.
Reap ==
    /\ pc = "reap" /\ (status # "none" \/ Dead(Leader))
    /\ Wait
    /\ pc' = "verify"
    /\ UNCHANGED <<spec, machine, outside, readers, cur, flags, eof_seen, sinks,
                   outcome>>

\* child.wait() fails: Err, without a look at the group.
ReapFails ==
    /\ pc = "reap" /\ status = "none"
    /\ Return("reap_error")
    /\ UNCHANGED <<spec, machine, outside, readers, cur, status, flags,
                   eof_seen, sinks, group_dead>>

\* The group is scanned; survivors are sent SIGKILL and it is scanned again.
Verify ==
    /\ pc = "verify"
    /\ IF GroupAlive
       THEN KillGroup /\ pc' = "rescan" /\ UNCHANGED outcome
       ELSE Return("ok") /\ group_dead' = TRUE /\ UNCHANGED doomed
    /\ UNCHANGED <<spec, proc, group, holds, written, outside, readers, cur,
                   status, flags, eof_seen, sinks>>

Rescan ==
    /\ pc = "rescan"
    /\ Return("ok") /\ group_dead' = ~GroupAlive
    /\ UNCHANGED <<spec, machine, outside, readers, cur, status, flags,
                   eof_seen, sinks>>

Runner ==
    \/ SpawnFails \/ Spawn \/ OpenFails \/ Abort \/ StartReaders
    \/ Poll \/ PollFails \/ Watch
    \/ Receive \/ ReceiveTimeout \/ Disconnected
    \/ TeeWrite \/ TeeFails \/ Push \/ Check
    \/ Final \/ Join \/ Reap \/ ReapFails \/ Verify \/ Rescan

\* The call is over and there may be nothing left to do.
Terminating == pc = "done" /\ UNCHANGED vars

Next ==
    \/ Machine \/ Outside \/ Runner \/ Terminating
    \/ \E q \in Pipes : Reader(q)

\* The scheduler runs every thread that can run, and SIGKILL is not ignored.
\* Nothing is assumed of what a machine that is not killed does, and nobody owes
\* the runner an error of wait: while wait blocks, the runner does not go on.
Fairness ==
    /\ WF_vars(Runner /\ ~ReapFails)
    /\ \A q \in Pipes : WF_vars(Reader(q))
    /\ \A p \in Procs : WF_vars(Die(p))

Spec == Init /\ [][Next]_vars /\ Fairness

-----------------------------------------------------------------------------
(* Properties. *)

TypeOK ==
    /\ spec \in [tee : BOOLEAN, timeout : BOOLEAN]
    /\ proc \in [Procs -> {"unborn", "running", "exited", "killed"}]
    /\ group \subseteq Procs /\ doomed \subseteq Procs
    /\ holds \in [Pipes -> SUBSET Procs]
    /\ written \in [Pipes -> Nat]
    /\ cancel \in BOOLEAN /\ late \in BOOLEAN /\ grace \in BOOLEAN
    /\ pumped \in [Pipes -> Nat] /\ sent \in [Pipes -> Nat]
    /\ reader \in [Pipes -> {"none", "reading", "done"}]
    /\ chan \in Seq(Chunk)
    /\ pc \in LoopPoints \cup {"spawn", "open", "abort", "final", "join", "reap",
                              "verify", "rescan", "done"}
    /\ cur \in Chunk
    /\ status \in {"none", "exited", "killed"}
    /\ timed_out \in BOOLEAN /\ cancelled \in BOOLEAN /\ kill_done \in BOOLEAN
    /\ eof_seen \subseteq Pipes
    /\ teed \in Nat /\ pushed \in [Pipes -> Nat]
    /\ result \in Errors \cup {"none", "ok"}
    /\ group_dead \in BOOLEAN

\* Serial output reaches the log on disk before it reaches the caller, at every
\* moment and on every path (contract section 2; process.rs 15-16, 374-375).
PushedIsOnDisk == spec.tee => pushed["serial"] <= teed

\* A call that returns an outcome has handed over, and logged, every unit the
\* machine wrote: whichever way the loop ended (senders gone, or drain grace
\* over), nothing was left in a pipe, a chunker or the channel.
NothingLost ==
    result = "ok" =>
        /\ \A q \in Pipes : pushed[q] = written[q]
        /\ spec.tee => teed = written["serial"]

\* Once a call is over no member of the group is left running without a SIGKILL
\* pending, and an outcome that calls the group dead is right for good.  The
\* one path that breaks the first half is the failed write to the serial log:
\* see GroupNeverOutlivesCall.
NoSurvivors ==
    pc = "done" /\ result # "write_error" =>
        \A p \in group : Running(p) => p \in doomed /\ ~group_dead

\* Once the leader has been reaped, no later cancellation or deadline changes
\* what the outcome says of how it ended.
ReapedStatusIsFinal == [][status # "none" => UNCHANGED <<status, flags>>]_vars

\* The runner never kills a machine that could still produce output, unless it
\* reports a cancellation, a deadline or an error: the kill at the end of the
\* loop, and the one of the verification, only hit processes that have let go
\* of every pipe, and after all they wrote was handed over.
UnexplainedKillIsHarmless ==
    [][doomed' # doomed /\ ~cancelled' /\ ~timed_out' /\ pc \notin {"open", "poll"}
       => \A q \in Pipes : holds[q] = {} /\ pushed[q] = written[q]]_vars

\* A call that has killed the group ends, as long as nobody outside the group
\* holds a pipe: it does not depend on the good will of anyone in the group.
PipesStayInGroup == \A q \in Pipes : holds[q] \subseteq group
KillIsEnough ==
    kill_done /\ PipesStayInGroup ~> pc = "done" \/ ~PipesStayInGroup

\* A machine that has closed both pipes is waited for no longer, even if it is
\* still running and neither cancelled nor late.
QuietPipesEndRun ==
    (pc \in LoopPoints /\ \A q \in Pipes : holds[q] = {}) ~> pc = "done"

CallsEnd == KillIsEnough /\ QuietPipesEndRun

\* Why NothingLost, NoSurvivors and the streams hold: five facts about where
\* units, chunks and processes are, which every step preserves together.

\* A chunk has been received and not yet been pushed.
InHand == pc \in {"tee", "push"}

\* What has been sent and not been pushed is in the channel or in hand, unless
\* the log failed; each chunk carries something new, and the chunks of a pipe
\* are in order.
Conserved ==
    /\ \A q \in Pipes :
         /\ pushed[q] <= sent[q] /\ sent[q] <= pumped[q] /\ pumped[q] <= written[q]
         /\ \/ sent[q] = pushed[q] \/ result = "write_error"
            \/ InHand /\ cur.pipe = q /\ cur.upto = sent[q]
            \/ \E i \in 1 .. Len(chan) : chan[i].pipe = q /\ chan[i].upto = sent[q]
    /\ \A i \in 1 .. Len(chan) :
         /\ pushed[chan[i].pipe] < chan[i].upto
         /\ chan[i].upto <= sent[chan[i].pipe]
         /\ InHand /\ cur.pipe = chan[i].pipe => cur.upto < chan[i].upto
    /\ InHand => pushed[cur.pipe] < cur.upto /\ cur.upto <= sent[cur.pipe]
    /\ \A i, j \in 1 .. Len(chan) :
         i < j /\ chan[i].pipe = chan[j].pipe => chan[i].upto < chan[j].upto

\* A reader that is done has sent all there is and nobody can write more; its
\* at_eof chunk is its last; past the loop every reader is done and the channel
\* is empty.
PastLoop == pc \in {"final", "join", "reap", "verify", "rescan"} \/ result = "ok"
Drained ==
    /\ \A q \in Pipes : reader[q] = "done" /\ (pc # "done" \/ result = "ok") =>
         sent[q] = pumped[q] /\ pumped[q] = written[q] /\ holds[q] = {}
    /\ \A i \in 1 .. Len(chan) : chan[i].at_eof =>
         reader[chan[i].pipe] = "done" /\ chan[i].upto = sent[chan[i].pipe]
    /\ \A q \in eof_seen :
         reader[q] = "done" /\ \A i \in 1 .. Len(chan) : chan[i].pipe # q
    /\ PastLoop => chan = <<>> /\ SendersGone

\* Between the write to the log and the push the log is one chunk ahead.
Logged ==
    /\ pc = "tee" => cur.pipe = "serial"
    /\ spec.tee => teed = IF pc = "push" /\ cur.pipe = "serial" THEN cur.upto
                                                           ELSE pushed["serial"]

\* The call has no result before it returns, and no readers before it starts
\* them.
Phases ==
    /\ pc = "done" <=> result # "none"
    /\ pc \in {"spawn", "open"} => \A q \in Pipes : reader[q] = "none"

\* After a kill of the group, only processes about to die are left in it.
GroupKilled ==
    \/ pc \in {"abort", "rescan"} \/ (pc \in {"join", "reap"} /\ status = "none")
    \/ result \in {"ok", "open_error", "wait_error", "reap_error"}
Doomed ==
    /\ \A p \in group : proc[p] # "unborn"
    /\ pc = "spawn" \/ result = "spawn_error" => group = {}
    /\ GroupKilled => \A p \in group : Running(p) => p \in doomed
    /\ group_dead => result = "ok" /\ ~GroupAlive

Inductive == TypeOK /\ Conserved /\ Drained /\ Logged /\ Phases /\ Doomed

\* The two claims the code does not keep.

\* "Whatever happened, the group must not outlive this call" (process.rs 492).
GroupNeverOutlivesCall ==
    pc = "done" => \A p \in group : Running(p) => p \in doomed

\* "enforce the deadline / cancellation by killing the group" (process.rs
\* 299-301), asked only while nobody outside the group holds a pipe.
DeadlineEnforced ==
    late /\ PipesStayInGroup ~> pc = "done" \/ ~PipesStayInGroup

\* What the call promises of each pipe.
Serial == INSTANCE LosslessStream
              WITH written <- written["serial"], delivered <- pushed["serial"],
                   complete <- result = "ok"
Emulator == INSTANCE LosslessStream
                WITH written <- written["emulator"],
                     delivered <- pushed["emulator"], complete <- result = "ok"

\* Seen from the caller each pipe is a lossless, ordered stream, and an outcome
\* means that it is complete: nothing is written or delivered afterwards.
SerialIsLossless == Serial!Spec
EmulatorIsLossless == Emulator!Spec
PipesAreLossless == SerialIsLossless /\ EmulatorIsLossless

=============================================================================
