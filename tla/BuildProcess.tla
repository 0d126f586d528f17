---------------------------- MODULE BuildProcess ----------------------------
(***************************************************************************)
(* The command runner of princess-build (crates/princess-build/src/        *)
(* process.rs): one call of SystemRunner::run, which runs make.            *)
(*                                                                         *)
(* It is the sibling of the runner of princess-run: the same machine, the  *)
(* same readers and the same channel (RunProcess; the pipes "serial" and   *)
(* "emulator" stand for stdout and stderr), with a simpler loop.  There is *)
(* no serial log; cancellation and deadline each kill the group, and may   *)
(* both be reported; and past the loop nothing is killed and nothing is    *)
(* verified: the child is waited for.                                      *)
(***************************************************************************)
EXTENDS RunProcess

\* The command cannot be started.
BuildSpawnFails == SpawnFails

\* make starts, alone in its group, and one reader per pipe.
BuildSpawn ==
    /\ pc = "spawn"
    /\ proc' = [proc EXCEPT ![Leader] = "running"]
    /\ group' = {Leader}
    /\ holds' = [q \in Pipes |-> {Leader}]
    /\ reader' = [q \in Pipes |-> "reading"]
    /\ pc' = "poll"
    /\ UNCHANGED <<spec, doomed, written, outside, pumped, sent, chan, cur,
                   status, flags, eof_seen, sinks, outcome>>

\* try_wait fails: kill the group, return the error.
BuildPollFails == PollFails

\* As long as make is not reaped, a cancellation and a deadline kill the group,
\* each once.
BuildWatch ==
    /\ pc = "watch"
    /\ pc' = "recv"
    /\ cancelled' = (cancelled \/ (status = "none" /\ cancel))
    /\ timed_out' = (timed_out \/ (status = "none" /\ late))
    /\ IF <<cancelled', timed_out'>> # <<cancelled, timed_out>>
       THEN KillGroup
       ELSE UNCHANGED doomed
    /\ UNCHANGED <<spec, proc, group, holds, written, outside, readers, cur,
                   status, kill_done, eof_seen, sinks, outcome>>

\* The loop is over, by Disconnected or by Check: the readers are joined.
BuildJoin ==
    /\ pc = "final" /\ SendersGone
    /\ pc' = "reap"
    /\ UNCHANGED <<spec, machine, outside, readers, cur, status, flags,
                   eof_seen, sinks, outcome>>

\* child.wait(), unless try_wait has reaped make; then the outcome is returned.
BuildReap ==
    /\ pc = "reap" /\ (status # "none" \/ Dead(Leader))
    /\ Wait
    /\ Return("ok")
    /\ UNCHANGED <<spec, machine, outside, readers, cur, flags, eof_seen, sinks,
                   group_dead>>

\* child.wait() fails.
BuildReapFails == ReapFails

BuildRunner ==
    \/ BuildSpawnFails \/ BuildSpawn \/ BuildPollFails
    \/ Poll \/ BuildWatch
    \/ Receive \/ ReceiveTimeout \/ Disconnected \/ Push \/ Check
    \/ BuildJoin \/ BuildReap \/ BuildReapFails

-----------------------------------------------------------------------------
(* Properties of the runner alone. *)

\* "Every child is its own process group, so a cancellation kills the whole tree
\* instead of leaving cc1/ld orphans behind" (process.rs 6-8): when a cancelled
\* or late command has returned, whoever is left in its group is about to die.
KillReachesTree ==
    pc = "done" /\ (cancelled \/ timed_out \/ result = "wait_error") =>
        \A p \in group : Running(p) => p \in doomed

=============================================================================
