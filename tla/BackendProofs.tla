---------------------------- MODULE BackendProofs ----------------------------
(***************************************************************************)
(* Proofs about the process runner and the two backends, which run a child *)
(* process each and share most of their steps with it.                     *)
(*                                                                         *)
(* The runner, for any number of descendants and any amount of output: the *)
(* inductive invariant of RunProcess and what follows from it.             *)
(*                                                                         *)
(* The run backend, for any machine and any serial text: it runs the       *)
(* process runner as it is specified, so that everything proved of the     *)
(* runner holds in it, and the events it emits are right.                  *)
(*                                                                         *)
(* A build, for any process tree of make, any amount of output and any     *)
(* project: a kill reaches the whole tree, the status of the build is      *)
(* earned, and what is reported of the tree is there.                      *)
(***************************************************************************)
EXTENDS RunBackend, BuildBackend, FiniteSetTheorems, TLAPS

-----------------------------------------------------------------------------
(* Type correctness. *)

\* The initial states are well typed.
LEMMA InitTypeOK == Init => TypeOK
<1> SUFFICES ASSUME Init PROVE TypeOK
  OBVIOUS
<1>1. cur \in Chunk
  BY DEF Init, NoChunk, Chunk, Pipes
<1>2. chan \in Seq(Chunk)
  BY DEF Init
<1>3. /\ proc \in [Procs -> {"unborn", "running", "exited", "killed"}]
      /\ holds \in [Pipes -> SUBSET Procs]
      /\ written \in [Pipes -> Nat] /\ pumped \in [Pipes -> Nat]
      /\ sent \in [Pipes -> Nat] /\ pushed \in [Pipes -> Nat]
      /\ reader \in [Pipes -> {"none", "reading", "done"}]
  BY DEF Init
<1>4. QED
  BY <1>1, <1>2, <1>3 DEF Init, TypeOK

\* The machine's steps keep the types.
LEMMA MachineTypeOK == TypeOK /\ Machine => TypeOK'
<1> SUFFICES ASSUME TypeOK, Machine PROVE TypeOK'
  OBVIOUS
<1> USE DEF TypeOK, machine, outside, readers, flags, sinks, outcome
<1>1. ASSUME NEW parent \in Procs, NEW child \in Helpers, Fork(parent, child)
      PROVE TypeOK'
  BY <1>1 DEF Fork, Procs
<1>2. ASSUME NEW h \in Helpers, LeaveGroup(h) PROVE TypeOK'
  BY <1>2 DEF LeaveGroup
<1>3. ASSUME NEW p \in Procs, NEW q \in Pipes, Write(p, q) PROVE TypeOK'
  BY <1>3 DEF Write
<1>4. ASSUME NEW p \in Procs, NEW q \in Pipes, ClosePipe(p, q) PROVE TypeOK'
  BY <1>4 DEF ClosePipe
<1>5. ASSUME NEW p \in Procs, NEW how \in {"exited", "killed"}, End(p, how)
      PROVE TypeOK'
  BY <1>5 DEF End
<1>6. QED
  BY <1>1, <1>2, <1>3, <1>4, <1>5 DEF Machine, Exit, Die

\* So do the outside and the readers.
LEMMA OutsideTypeOK == TypeOK /\ Outside => TypeOK'
<1> SUFFICES ASSUME TypeOK, Outside PROVE TypeOK'
  OBVIOUS
<1>1. /\ UNCHANGED <<spec, machine, readers, pc, cur, status, flags, eof_seen, sinks, outcome>>
      /\ cancel' \in BOOLEAN /\ late' \in BOOLEAN /\ grace' \in BOOLEAN
  BY DEF TypeOK, Outside, Cancel, Deadline, GraceElapses
<1>2. QED
  BY <1>1 DEF TypeOK, machine, readers, flags, sinks, outcome

\* A chunk appended to the channel is a chunk.
LEMMA SendTypeOK ==
    ASSUME TypeOK, NEW q \in Pipes, NEW upto \in Nat, NEW at_eof \in BOOLEAN,
           Send(q, upto, at_eof)
    PROVE  chan' \in Seq(Chunk) /\ sent' \in [Pipes -> Nat]
<1>1. [pipe |-> q, upto |-> upto, at_eof |-> at_eof] \in Chunk
  BY DEF Chunk
<1>2. QED
  BY <1>1 DEF Send, TypeOK

\* A step of a reader keeps the types.
LEMMA ReaderTypeOK == ASSUME NEW q \in Pipes, TypeOK, Reader(q) PROVE TypeOK'
<1> USE DEF machine, outside, readers, flags, sinks, outcome
<1>1. CASE Pump(q)
  BY <1>1 DEF Pump, TypeOK
<1>2. CASE Flush(q)
  <2>1. PICK upto \in sent[q] + 1 .. pumped[q] : Send(q, upto, FALSE)
    BY <1>2 DEF Flush
  <2>2. upto \in Nat
    BY DEF TypeOK
  <2>3. chan' \in Seq(Chunk) /\ sent' \in [Pipes -> Nat]
    BY <2>1, <2>2, SendTypeOK
  <2>4. QED
    BY <1>2, <2>3 DEF Flush, TypeOK
<1>3. CASE Eof(q)
  <2>1. pumped[q] \in Nat
    BY DEF TypeOK
  <2>2. CASE Remainder(q)
    <3>1. Send(q, pumped[q], TRUE)
      BY <1>3, <2>2 DEF Eof
    <3>2. TRUE \in BOOLEAN
      OBVIOUS
    <3>3. chan' \in Seq(Chunk) /\ sent' \in [Pipes -> Nat]
      BY <2>1, <3>1, <3>2, SendTypeOK
    <3>4. /\ reader' = [reader EXCEPT ![q] = "done"]
          /\ UNCHANGED <<spec, machine, outside, pumped, pc, cur, status, flags,
                         eof_seen, sinks, outcome>>
      BY <1>3 DEF Eof
    <3>5. QED
      BY <3>3, <3>4 DEF TypeOK
  <2>3. CASE ~Remainder(q)
    BY <1>3, <2>3 DEF Eof, TypeOK
  <2>4. QED
    BY <2>2, <2>3
<1>4. CASE Hangup(q)
  BY <1>4 DEF Hangup, TypeOK
<1>5. QED
  BY <1>1, <1>2, <1>3, <1>4 DEF Reader

\* So does the runner thread.
LEMMA RunnerTypeOK == TypeOK /\ Runner => TypeOK'
<1> SUFFICES ASSUME TypeOK, Runner PROVE TypeOK'
  OBVIOUS
<1> USE DEF machine, outside, readers, flags, sinks, outcome, TypeOK, LoopPoints,
            Errors
<1>1. Leader \in Procs
  BY DEF Procs
<1>2. ASSUME Wait PROVE status' \in {"none", "exited", "killed"}
  BY <1>1, <1>2 DEF Wait, Dead
<1>3. ASSUME KillGroup PROVE doomed' \subseteq Procs
  BY <1>3 DEF KillGroup
<1>4. CASE SpawnFails
  BY <1>4 DEF SpawnFails, Return
<1>5. CASE Spawn
  BY <1>1, <1>5 DEF Spawn
<1>6. CASE OpenFails
  BY <1>3, <1>6 DEF OpenFails
<1>7. CASE Abort
  BY <1>7 DEF Abort, Return
<1>8. CASE StartReaders
  BY <1>8 DEF StartReaders
<1>9. CASE Poll
  BY <1>2, <1>9 DEF Poll
<1>10. CASE PollFails
  BY <1>3, <1>10 DEF PollFails, Return
<1>11. CASE Watch
  <2>1. CASE MayKill /\ (cancel \/ late)
    <3>1. cancelled' \in BOOLEAN /\ timed_out' \in BOOLEAN /\ kill_done' \in BOOLEAN
      BY <1>11, <2>1 DEF Watch
    <3>2. doomed' \subseteq Procs /\ pc' = "recv"
      BY <1>3, <1>11, <2>1 DEF Watch
    <3>3. UNCHANGED <<spec, proc, group, holds, written, outside, readers, cur, status,
                      eof_seen, sinks, outcome>>
      BY <1>11 DEF Watch
    <3>4. QED
      BY <3>1, <3>2, <3>3
  <2>2. CASE ~(MayKill /\ (cancel \/ late))
    BY <1>11, <2>2 DEF Watch
  <2>3. QED
    BY <2>1, <2>2
<1>12. CASE Receive
  <2>1. Head(chan) \in Chunk /\ Tail(chan) \in Seq(Chunk)
    BY <1>12 DEF Receive
  <2>2. cur'.pipe \in Pipes /\ cur'.at_eof \in BOOLEAN
    BY <1>12, <2>1 DEF Receive, Chunk
  <2>3. eof_seen' \subseteq Pipes
    BY <1>12, <2>2 DEF Receive
  <2>4. pc' \in LoopPoints
    BY <1>12 DEF Receive, NextFor
  <2>5. grace' \in BOOLEAN
    BY <1>12, <2>2 DEF Receive
  <2>6. QED
    BY <1>12, <2>1, <2>3, <2>4, <2>5 DEF Receive
<1>13. CASE ReceiveTimeout
  BY <1>13 DEF ReceiveTimeout
<1>14. CASE Disconnected
  BY <1>14 DEF Disconnected
<1>15. CASE TeeWrite
  BY <1>15 DEF TeeWrite, Chunk
<1>16. CASE TeeFails
  BY <1>16 DEF TeeFails, Return
<1>17. CASE Push
  <2>1. cur.pipe \in Pipes /\ cur.upto \in Nat
    BY DEF Chunk
  <2>2. pushed' \in [Pipes -> Nat]
    BY <1>17, <2>1 DEF Push
  <2>3. QED
    BY <1>17, <2>2 DEF Push
<1>18. CASE Check
  BY <1>18 DEF Check
<1>19. CASE Final
  BY <1>3, <1>19 DEF Final, KillUnreaped
<1>20. CASE Join
  BY <1>20 DEF Join
<1>21. CASE Reap
  BY <1>2, <1>21 DEF Reap
<1>22. CASE Verify
  <2>1. CASE GroupAlive
    BY <1>3, <1>22, <2>1 DEF Verify
  <2>2. CASE ~GroupAlive
    BY <1>22, <2>2 DEF Verify, Return
  <2>3. QED
    BY <2>1, <2>2
<1>23. CASE Rescan
  BY <1>23 DEF Rescan, Return, GroupAlive
<1>24. CASE ReapFails
  BY <1>24 DEF ReapFails, Return
<1>25. QED
  BY <1>4, <1>5, <1>6, <1>7, <1>8, <1>9, <1>10, <1>11, <1>12, <1>13, <1>14,
     <1>15, <1>16, <1>17, <1>18, <1>19, <1>20, <1>21, <1>22, <1>23, <1>24 DEF Runner

\* Every step keeps the types.
LEMMA NextTypeOK == TypeOK /\ [Next]_vars => TypeOK'
<1> SUFFICES ASSUME TypeOK, [Next]_vars PROVE TypeOK'
  OBVIOUS
<1>1. CASE UNCHANGED vars
  BY <1>1 DEF vars, machine, outside, readers, flags, sinks, outcome, TypeOK
<1>2. QED
  BY <1>1, MachineTypeOK, OutsideTypeOK, ReaderTypeOK, RunnerTypeOK
  DEF Next, Terminating

\* The runner's variables keep their types, whatever the machine does.
THEOREM TypeCorrect == Spec => []TypeOK
BY InitTypeOK, NextTypeOK, PTL DEF Spec

-----------------------------------------------------------------------------
(* The phases of the call. *)

\* What the machine and the outside cannot touch.
LEMMA MachineFrame ==
    Machine => UNCHANGED <<spec, doomed, outside, readers, pc, cur, status,
                           flags, eof_seen, sinks, outcome>>
BY DEF Machine, Fork, LeaveGroup, Write, ClosePipe, Exit, Die, End, machine,
       outside, readers, flags, sinks, outcome

\* The outside only sets the cancel token and the two clocks.
LEMMA OutsideFrame ==
    Outside => UNCHANGED <<spec, machine, readers, pc, cur, status, flags,
                           eof_seen, sinks, outcome>>
BY DEF Outside, Cancel, Deadline, GraceElapses, machine, outside, readers, flags,
       sinks, outcome

\* A reader touches the pipe counters and the channel, nothing of the runner.
LEMMA ReaderFrame ==
    ASSUME NEW q \in Pipes, Reader(q)
    PROVE  UNCHANGED <<spec, machine, outside, pc, cur, status, flags, eof_seen,
                       sinks, outcome>>
BY DEF Reader, Pump, Flush, Eof, Hangup, machine, outside, readers, flags, sinks,
       outcome

\* Which steps of the runner return, and with what.
LEMMA RunnerReturns ==
    ASSUME Runner, Phases
    PROVE  /\ pc # "done" /\ result = "none"
           /\ pc' = "done" <=> result' # "none"
BY DEF Runner, Phases, SpawnFails, Spawn, OpenFails, Abort, StartReaders, Poll,
       PollFails, Watch, Receive, NextFor, ReceiveTimeout, Disconnected, TeeWrite,
       TeeFails, Push, Check, Final, Join, Reap, ReapFails, Verify, Rescan,
       Return, outcome

\* Before the call there is no result and no reader.
LEMMA InitPhases == Init => Phases
BY DEF Init, Phases

\* Every step keeps result, reader and pc in step with one another.
LEMMA NextPhases == TypeOK /\ Phases /\ [Next]_vars => Phases'
<1> SUFFICES ASSUME TypeOK, Phases, [Next]_vars PROVE Phases'
  OBVIOUS
<1>1. CASE Machine
  BY <1>1, MachineFrame DEF Phases, readers, outcome
<1>2. CASE Outside
  BY <1>2, OutsideFrame DEF Phases, readers, outcome
<1>3. ASSUME NEW q \in Pipes, Reader(q) PROVE Phases'
  <2>1. pc \notin {"spawn", "open"}
    BY <1>3 DEF Phases, Reader, Pump, Flush, Eof, Hangup
  <2>2. QED
    BY <1>3, <2>1, ReaderFrame DEF Phases, outcome
<1>4. CASE Runner
  <2>1. pc' \in {"spawn", "open"} => pc = "spawn" /\ UNCHANGED reader
    BY <1>4 DEF Runner, SpawnFails, Spawn, OpenFails, Abort, StartReaders, Poll,
       PollFails, Watch, Receive, NextFor, ReceiveTimeout, Disconnected, TeeWrite,
       TeeFails, Push, Check, Final, Join, Reap, ReapFails, Verify, Rescan,
       Return, readers
  <2>2. QED
    BY <1>4, <2>1, RunnerReturns DEF Phases
<1>5. CASE UNCHANGED vars
  BY <1>5 DEF vars, readers, outcome, Phases
<1>6. QED
  BY <1>1, <1>2, <1>3, <1>4, <1>5 DEF Next, Terminating

-----------------------------------------------------------------------------
(* The fate of the group. *)

\* Every running member of the group has a SIGKILL pending.
LEMMA KillGroupDooms ==
    KillGroup /\ UNCHANGED <<proc, group>> =>
        \A p \in group' : Running(p)' => p \in doomed'
BY DEF KillGroup, Running

\* Before the spawn the group is empty.
LEMMA InitDoomed == Init => Doomed
BY DEF Init, Doomed, GroupKilled, Running, GroupAlive

\* A machine with a SIGKILL pending neither forks nor recovers, so a killed
\* group stays doomed (kill_group).
LEMMA MachineDoomed == TypeOK /\ Doomed /\ Machine => Doomed'
<1> SUFFICES ASSUME TypeOK, Doomed, Machine PROVE Doomed'
  OBVIOUS
<1>1. UNCHANGED <<doomed, pc, result, group_dead, GroupKilled>>
  BY MachineFrame DEF outcome, GroupKilled
<1>2. ASSUME NEW parent \in Procs, NEW child \in Helpers, Fork(parent, child)
      PROVE Doomed'
  <2>1. Running(parent) /\ parent \notin doomed
    BY <1>2 DEF Fork
  <2>2. CASE parent \in group
    <3>1. pc # "spawn" /\ result # "spawn_error" /\ ~GroupKilled /\ ~group_dead
      BY <2>1, <2>2 DEF Doomed, GroupAlive
    <3>2. group' = group \cup {child} /\ child \in Procs
      BY <1>2, <2>2 DEF Fork, Procs
    <3>3. \A p \in group' : proc'[p] # "unborn"
      BY <1>2, <3>2 DEF Fork, TypeOK, Doomed
    <3>4. QED
      BY <1>1, <3>1, <3>3 DEF Doomed
  <2>3. CASE parent \notin group
    <3>1. group' = group
      BY <1>2, <2>3 DEF Fork
    <3>2. \A p \in Procs : p # child => proc'[p] = proc[p]
      BY <1>2 DEF Fork, TypeOK
    <3>3. proc[child] = "unborn" /\ child \in Procs
      BY <1>2 DEF Fork, Procs
    <3>4. child \notin group
      BY <3>3 DEF Doomed
    <3>5. \A p \in group : proc'[p] = proc[p]
      BY <3>2, <3>4 DEF TypeOK
    <3>6. QED
      BY <1>1, <3>1, <3>5 DEF Doomed, GroupAlive, Running
  <2>4. QED
    BY <2>2, <2>3
<1>3. ASSUME NEW h \in Helpers, LeaveGroup(h) PROVE Doomed'
  BY <1>1, <1>3 DEF LeaveGroup, Doomed, GroupAlive, Running
<1>4. ASSUME NEW p \in Procs, NEW q \in Pipes, Write(p, q) \/ ClosePipe(p, q)
      PROVE Doomed'
  BY <1>1, <1>4 DEF Write, ClosePipe, Doomed, GroupAlive, Running
<1>5. ASSUME NEW p \in Procs, NEW how \in {"exited", "killed"}, End(p, how)
      PROVE Doomed'
  <2>1. group' = group /\ \A r \in group : Running(r)' => Running(r)
    BY <1>5 DEF End, Running, TypeOK
  <2>2. \A r \in group : proc'[r] # "unborn"
    BY <1>5 DEF End, TypeOK, Doomed
  <2>3. QED
    BY <1>1, <2>1, <2>2 DEF Doomed, GroupAlive
<1>6. QED
  BY <1>2, <1>3, <1>4, <1>5 DEF Machine, Exit, Die

\* Of the runner's steps, the ones that matter here are the spawn, the kills
\* and the returns.
LEMMA RunnerDoomed == TypeOK /\ Phases /\ Doomed /\ Runner => Doomed'
<1> SUFFICES ASSUME TypeOK, Phases, Doomed, Runner PROVE Doomed'
  OBVIOUS
<1>1. result = "none" /\ pc # "done" /\ ~group_dead
  BY RunnerReturns DEF Doomed
<1> USE DEF GroupKilled
<1>2. CASE Spawn
  BY <1>1, <1>2 DEF Spawn, TypeOK, Procs, Doomed, outcome
<1>3. CASE SpawnFails
  BY <1>1, <1>3 DEF SpawnFails, Return, Doomed, machine
<1>4. CASE OpenFails
  <2>1. KillGroup /\ UNCHANGED <<proc, group>> /\ pc' = "abort"
        /\ UNCHANGED <<result, group_dead>>
    BY <1>4 DEF OpenFails, outcome
  <2>2. QED
    BY <1>1, <2>1, KillGroupDooms DEF Doomed
<1>5. CASE Abort
  BY <1>1, <1>5 DEF Abort, Return, Doomed, machine, Running
<1>6. CASE PollFails
  <2>1. KillGroup /\ UNCHANGED <<proc, group>> /\ pc' = "done"
        /\ result' = "wait_error" /\ UNCHANGED group_dead
    BY <1>6 DEF PollFails, Return
  <2>2. QED
    BY <1>1, <2>1, KillGroupDooms DEF Doomed
<1>7. CASE TeeFails
  BY <1>1, <1>7 DEF TeeFails, Return, Doomed, machine
<1>8. CASE Verify
  <2>1. CASE GroupAlive
    <3>1. KillGroup /\ UNCHANGED <<proc, group>> /\ pc' = "rescan"
          /\ UNCHANGED <<result, group_dead>>
      BY <1>8, <2>1 DEF Verify, outcome
    <3>2. QED
      BY <1>1, <3>1, KillGroupDooms DEF Doomed
  <2>2. CASE ~GroupAlive
    BY <1>1, <1>8, <2>2 DEF Verify, Return, Doomed, GroupAlive, Running
  <2>3. QED
    BY <2>1, <2>2
<1>9. CASE Rescan
  BY <1>1, <1>9 DEF Rescan, Return, Doomed, GroupAlive, Running, machine
<1>10. CASE \/ StartReaders \/ Poll \/ Watch \/ Receive \/ ReceiveTimeout
            \/ Disconnected \/ TeeWrite \/ Push \/ Check \/ Reap
  <2>1. /\ UNCHANGED <<proc, group, result, group_dead>>
        /\ pc' \notin {"spawn", "abort", "join", "reap", "rescan"}
    BY <1>10 DEF StartReaders, Poll, Watch, Receive, NextFor, ReceiveTimeout,
       Disconnected, TeeWrite, Push, Check, Reap, machine, outcome
  <2>2. QED
    BY <1>1, <2>1 DEF Doomed
<1>11. CASE Final
  <2>1. /\ UNCHANGED <<proc, group, status, result, group_dead>>
        /\ pc' = "join" /\ KillUnreaped
    BY <1>11 DEF Final, outcome
  <2>2. CASE status = "none"
    BY <1>1, <2>1, <2>2, KillGroupDooms DEF KillUnreaped, Doomed
  <2>3. CASE status # "none"
    BY <1>1, <2>1, <2>3 DEF Doomed
  <2>4. QED
    BY <2>2, <2>3
<1>12. CASE Join
  BY <1>1, <1>12 DEF Join, Doomed, Running, machine, outcome
<1>13. CASE ReapFails
  BY <1>1, <1>13 DEF ReapFails, Return, Doomed, GroupAlive, Running, machine
<1>14. QED
  BY <1>2, <1>3, <1>4, <1>5, <1>6, <1>7, <1>8, <1>9, <1>10, <1>11, <1>12, <1>13
  DEF Runner

\* Every step keeps the killed group doomed.
LEMMA NextDoomed == TypeOK /\ Phases /\ Doomed /\ [Next]_vars => Doomed'
<1> SUFFICES ASSUME TypeOK, Phases, Doomed, [Next]_vars PROVE Doomed'
  OBVIOUS
<1>1. ASSUME UNCHANGED <<machine, pc, status, outcome>> PROVE Doomed'
  BY <1>1 DEF machine, outcome, Doomed, GroupKilled, GroupAlive, Running
<1>2. ASSUME NEW q \in Pipes, Reader(q) PROVE Doomed'
  BY <1>1, <1>2, ReaderFrame
<1>3. CASE Outside
  BY <1>1, <1>3, OutsideFrame
<1>4. CASE UNCHANGED vars
  BY <1>1, <1>4 DEF vars
<1>5. QED
  BY <1>2, <1>3, <1>4, MachineDoomed, RunnerDoomed DEF Next, Terminating

-----------------------------------------------------------------------------
(* No unit is lost between the pipe and the caller. *)

\* Before the call no unit is anywhere.
LEMMA InitConserved == Init => Conserved
BY DEF Init, Conserved, InHand

\* A step that moves no unit keeps Conserved, if it drops the chunk in hand
\* only because the log failed.
LEMMA ConservedFrame ==
    ASSUME TypeOK, Conserved, UNCHANGED <<pumped, sent, chan, cur, pushed>>,
           \A q \in Pipes : written'[q] >= written[q],
           written' \in [Pipes -> Nat],
           InHand' => InHand,
           InHand => InHand' \/ result' = "write_error",
           result = "write_error" => result' = "write_error"
    PROVE  Conserved'
<1>1. ASSUME NEW q \in Pipes
      PROVE /\ pushed[q] <= sent[q] /\ sent[q] <= pumped[q] /\ pumped[q] <= written'[q]
            /\ \/ sent[q] = pushed[q] \/ result' = "write_error"
               \/ InHand' /\ cur.pipe = q /\ cur.upto = sent[q]
               \/ \E i \in 1 .. Len(chan) : chan[i].pipe = q /\ chan[i].upto = sent[q]
  <2>1. pumped[q] <= written[q] /\ written'[q] >= written[q]
    BY DEF Conserved
  <2>2. pumped[q] \in Nat /\ written[q] \in Nat /\ written'[q] \in Nat
    BY DEF TypeOK
  <2>3. pumped[q] <= written'[q]
    BY <2>1, <2>2
  <2>4. QED
    BY <2>3 DEF Conserved
<1>2. QED
  BY <1>1 DEF Conserved

\* Sending what is new keeps Conserved.
LEMMA ConservedSend ==
    ASSUME TypeOK, Conserved, NEW q \in Pipes, NEW upto \in sent[q] + 1 .. pumped[q],
           NEW at_eof \in BOOLEAN, Send(q, upto, at_eof),
           UNCHANGED <<written, pumped, pushed, cur, pc, result>>
    PROVE  Conserved'
<1> DEFINE c == [pipe |-> q, upto |-> upto, at_eof |-> at_eof]
<1> DEFINE n == Len(chan)
<1>1. /\ chan \in Seq(Chunk) /\ c \in Chunk /\ upto \in Nat
      /\ sent \in [Pipes -> Nat] /\ pumped \in [Pipes -> Nat]
      /\ pushed \in [Pipes -> Nat] /\ written \in [Pipes -> Nat]
      /\ cur \in Chunk
  BY DEF TypeOK, Chunk
<1>2. /\ n \in Nat /\ Len(chan') = n + 1 /\ chan'[n + 1] = c
      /\ \A i \in 1 .. n : chan'[i] = chan[i] /\ chan[i] \in Chunk
  BY <1>1 DEF Send
<1>3. /\ sent'[q] = upto /\ sent[q] < upto /\ upto <= pumped[q]
      /\ \A r \in Pipes : r # q => sent'[r] = sent[r]
  BY <1>1 DEF Send
<1>4. \A r \in Pipes : sent[r] \in Nat /\ sent'[r] \in Nat /\ sent[r] <= sent'[r]
  <2>1. \A r \in Pipes : sent[r] \in Nat
    BY <1>1
  <2>2. sent'[q] \in Nat /\ sent[q] <= sent'[q]
    BY <1>1, <1>3, <2>1
  <2>3. ASSUME NEW r \in Pipes, r # q PROVE sent'[r] \in Nat /\ sent[r] <= sent'[r]
    <3>1. sent'[r] = sent[r] /\ sent[r] \in Nat
      BY <1>3, <2>1, <2>3
    <3>2. QED
      BY <3>1
  <2>4. QED
    BY <2>1, <2>2, <2>3
<1>5. InHand' <=> InHand
  BY DEF InHand
<1>6. \A i \in 1 .. n : chan[i].pipe \in Pipes /\ chan[i].upto \in Nat
  BY <1>2 DEF Chunk
<1>7. cur.pipe \in Pipes /\ cur.upto \in Nat
  BY <1>1 DEF Chunk
<1>8. ASSUME NEW r \in Pipes
      PROVE /\ pushed[r] <= sent'[r] /\ sent'[r] <= pumped[r] /\ pumped[r] <= written[r]
            /\ \/ sent'[r] = pushed[r] \/ result = "write_error"
               \/ InHand /\ cur.pipe = r /\ cur.upto = sent'[r]
               \/ \E i \in 1 .. Len(chan') : chan'[i].pipe = r /\ chan'[i].upto = sent'[r]
  <2>1. CASE r = q
    <3>1. pushed[q] <= sent[q] /\ pumped[q] <= written[q]
      BY DEF Conserved
    <3>2. pushed[q] <= upto
      BY <1>1, <1>3, <3>1
    <3>3. chan'[n + 1].pipe = q /\ chan'[n + 1].upto = sent'[q] /\ n + 1 \in 1 .. Len(chan')
      BY <1>2, <1>3
    <3>4. QED
      BY <1>3, <2>1, <3>1, <3>2, <3>3
  <2>2. CASE r # q
    <3>1. \A i \in 1 .. n : i \in 1 .. Len(chan') /\ chan'[i] = chan[i]
      BY <1>2
    <3>2. QED
      BY <1>3, <2>2, <3>1 DEF Conserved
  <2>3. QED
    BY <2>1, <2>2
<1>9. ASSUME NEW i \in 1 .. Len(chan')
      PROVE /\ pushed[chan'[i].pipe] < chan'[i].upto
            /\ chan'[i].upto <= sent'[chan'[i].pipe]
            /\ InHand /\ cur.pipe = chan'[i].pipe => cur.upto < chan'[i].upto
  <2>1. CASE i \in 1 .. n
    <3>1. /\ pushed[chan[i].pipe] < chan[i].upto
          /\ chan[i].upto <= sent[chan[i].pipe]
          /\ InHand /\ cur.pipe = chan[i].pipe => cur.upto < chan[i].upto
      BY <2>1 DEF Conserved
    <3>2. chan[i].upto <= sent'[chan[i].pipe]
      BY <1>6, <1>4, <2>1, <3>1
    <3>3. QED
      BY <1>2, <2>1, <3>1, <3>2
  <2>2. CASE i = n + 1
    <3>1. pushed[q] <= sent[q] /\ (InHand => cur.upto <= sent[cur.pipe])
      BY DEF Conserved
    <3>2. pushed[q] < upto /\ (InHand /\ cur.pipe = q => cur.upto < upto)
      BY <1>1, <1>3, <1>7, <3>1
    <3>3. QED
      BY <1>1, <1>2, <1>3, <2>2, <3>2
  <2>3. QED
    BY <1>2, <2>1, <2>2
<1>10. InHand => pushed[cur.pipe] < cur.upto /\ cur.upto <= sent'[cur.pipe]
  <2>1. InHand => pushed[cur.pipe] < cur.upto /\ cur.upto <= sent[cur.pipe]
    BY DEF Conserved
  <2>2. QED
    BY <1>7, <1>4, <2>1
<1>11. ASSUME NEW i \in 1 .. Len(chan'), NEW j \in 1 .. Len(chan'), i < j,
              chan'[i].pipe = chan'[j].pipe
       PROVE chan'[i].upto < chan'[j].upto
  <2>1. i \in 1 .. n
    BY <1>2, <1>11
  <2>2. CASE j \in 1 .. n
    BY <1>2, <1>11, <2>1, <2>2 DEF Conserved
  <2>3. CASE j = n + 1
    <3>1. chan[i].pipe = q /\ chan[i].upto <= sent[chan[i].pipe]
      BY <1>2, <1>11, <2>1, <2>3 DEF Conserved
    <3>2. chan[i].upto < upto
      BY <1>1, <1>3, <1>6, <2>1, <3>1
    <3>3. QED
      BY <1>2, <2>1, <2>3, <3>2
  <2>4. QED
    BY <1>2, <2>2, <2>3
<1>12. QED
  BY <1>5, <1>8, <1>9, <1>10, <1>11 DEF Conserved

\* The first chunk of the channel becomes the chunk in hand.
LEMMA ReceiveConserved == TypeOK /\ Conserved /\ Receive => Conserved'
<1> SUFFICES ASSUME TypeOK, Conserved, Receive PROVE Conserved'
  OBVIOUS
<1> DEFINE n == Len(chan)
<1>1. /\ chan \in Seq(Chunk) /\ chan # <<>>
      /\ cur' = Head(chan) /\ chan' = Tail(chan)
      /\ UNCHANGED <<pumped, sent, written, pushed, result>>
  BY DEF Receive, TypeOK, machine, sinks, outcome
<1>2. ~InHand /\ InHand'
  BY DEF Receive, NextFor, InHand
<1>3. /\ n \in Nat /\ n >= 1 /\ 1 \in 1 .. n /\ Len(chan') = n - 1
      /\ cur' = chan[1]
      /\ \A i \in 1 .. n - 1 : chan'[i] = chan[i + 1] /\ i + 1 \in 1 .. n
  BY <1>1
<1>4. ASSUME NEW r \in Pipes
      PROVE /\ pushed[r] <= sent[r] /\ sent[r] <= pumped[r] /\ pumped[r] <= written[r]
            /\ \/ sent[r] = pushed[r] \/ result = "write_error"
               \/ cur'.pipe = r /\ cur'.upto = sent[r]
               \/ \E i \in 1 .. n - 1 : chan'[i].pipe = r /\ chan'[i].upto = sent[r]
  <2>1. ASSUME NEW i \in 1 .. n, chan[i].pipe = r, chan[i].upto = sent[r], i # 1
        PROVE \E k \in 1 .. n - 1 : chan'[k].pipe = r /\ chan'[k].upto = sent[r]
    <3>1. i - 1 \in 1 .. n - 1 /\ chan'[i - 1] = chan[i]
      BY <1>3, <2>1
    <3>2. QED
      BY <2>1, <3>1
  <2>2. QED
    BY <1>2, <1>3, <2>1 DEF Conserved
<1>5. ASSUME NEW i \in 1 .. n - 1
      PROVE /\ pushed[chan'[i].pipe] < chan'[i].upto
            /\ chan'[i].upto <= sent[chan'[i].pipe]
            /\ cur'.pipe = chan'[i].pipe => cur'.upto < chan'[i].upto
  <2>1. i + 1 \in 1 .. n /\ chan'[i] = chan[i + 1] /\ 1 < i + 1
    BY <1>3
  <2>2. chan[1].pipe = chan[i + 1].pipe => chan[1].upto < chan[i + 1].upto
    BY <1>3, <2>1 DEF Conserved
  <2>3. QED
    BY <1>3, <2>1, <2>2 DEF Conserved
<1>6. pushed[cur'.pipe] < cur'.upto /\ cur'.upto <= sent[cur'.pipe]
  BY <1>3 DEF Conserved
<1>7. ASSUME NEW i \in 1 .. n - 1, NEW j \in 1 .. n - 1, i < j,
             chan'[i].pipe = chan'[j].pipe
      PROVE chan'[i].upto < chan'[j].upto
  <2>1. i + 1 \in 1 .. n /\ j + 1 \in 1 .. n /\ i + 1 < j + 1
    BY <1>3, <1>7
  <2>2. chan'[i] = chan[i + 1] /\ chan'[j] = chan[j + 1]
    BY <1>3
  <2>3. QED
    BY <1>7, <2>1, <2>2 DEF Conserved
<1>8. QED
  BY <1>1, <1>2, <1>3, <1>4, <1>5, <1>6, <1>7 DEF Conserved

\* The chunk in hand is handed to the caller.
LEMMA PushConserved == TypeOK /\ Conserved /\ Push => Conserved'
<1> SUFFICES ASSUME TypeOK, Conserved, Push PROVE Conserved'
  OBVIOUS
<1>1. /\ UNCHANGED <<pumped, sent, written, chan, cur, result>>
      /\ pushed' = [pushed EXCEPT ![cur.pipe] = cur.upto]
  BY DEF Push, machine, readers, outcome
<1>2. InHand /\ ~InHand'
  BY DEF Push, InHand
<1>3. /\ cur.pipe \in Pipes /\ cur.upto \in Nat
      /\ pushed \in [Pipes -> Nat] /\ sent \in [Pipes -> Nat]
  BY DEF TypeOK, Chunk
<1>4. /\ pushed'[cur.pipe] = cur.upto
      /\ \A r \in Pipes : r # cur.pipe => pushed'[r] = pushed[r]
  BY <1>1, <1>3
<1>5. ASSUME NEW r \in Pipes
      PROVE /\ pushed'[r] <= sent[r] /\ sent[r] <= pumped[r] /\ pumped[r] <= written[r]
            /\ \/ sent[r] = pushed'[r] \/ result = "write_error"
               \/ \E i \in 1 .. Len(chan) : chan[i].pipe = r /\ chan[i].upto = sent[r]
  <2>1. CASE r = cur.pipe
    <3>1. pushed[r] < cur.upto /\ cur.upto <= sent[r] /\ sent[r] # pushed[r]
      BY <1>2, <1>3, <2>1 DEF Conserved
    <3>2. pushed'[r] = cur.upto
      BY <1>4, <2>1
    <3>3. QED
      BY <3>1, <3>2, <2>1 DEF Conserved
  <2>2. CASE r # cur.pipe
    BY <1>4, <2>2 DEF Conserved
  <2>3. QED
    BY <2>1, <2>2
<1>6. ASSUME NEW i \in 1 .. Len(chan)
      PROVE pushed'[chan[i].pipe] < chan[i].upto
  <2>1. chan[i].pipe \in Pipes
    <3>1. chan[i] \in Chunk
      BY DEF TypeOK
    <3>2. QED
      BY <3>1 DEF Chunk
  <2>2. CASE chan[i].pipe = cur.pipe
    BY <1>2, <1>4, <2>2 DEF Conserved
  <2>3. CASE chan[i].pipe # cur.pipe
    BY <1>4, <2>1, <2>3 DEF Conserved
  <2>4. QED
    BY <2>2, <2>3
<1>7. QED
  BY <1>1, <1>2, <1>5, <1>6 DEF Conserved

\* A reader loses no unit: it only sends what it has pumped, in order
\* (spawn_reader).
LEMMA ReaderConserved ==
    ASSUME NEW q \in Pipes, TypeOK, Conserved, Reader(q) PROVE Conserved'
<1>1. UNCHANGED <<written, cur, pc, result, pushed>>
  BY ReaderFrame DEF machine, sinks, outcome
<1>2. CASE Pump(q)
  <2>1. PICK upto \in pumped[q] + 1 .. written[q] : pumped' = [pumped EXCEPT ![q] = upto]
    BY <1>2 DEF Pump
  <2>2. UNCHANGED <<sent, chan>>
    BY <1>2 DEF Pump
  <2>3. \A r \in Pipes : pumped[r] <= pumped'[r] /\ pumped'[r] <= written[r]
    BY <2>1 DEF TypeOK, Conserved
  <2>4. \A r \in Pipes : sent[r] <= pumped'[r]
    <3>1. TAKE r \in Pipes
    <3>2. sent[r] \in Nat /\ pumped[r] \in Nat /\ sent[r] <= pumped[r]
      BY DEF TypeOK, Conserved
    <3>3. pumped'[r] \in Nat
      BY ReaderTypeOK DEF TypeOK
    <3>4. QED
      BY <2>3, <3>2, <3>3
  <2>5. InHand' <=> InHand
    BY <1>1 DEF InHand
  <2>6. QED
    BY <1>1, <2>2, <2>3, <2>4, <2>5 DEF Conserved
<1>3. CASE Flush(q)
  <2>1. PICK upto \in sent[q] + 1 .. pumped[q] : Send(q, upto, FALSE)
    BY <1>3 DEF Flush
  <2>2. UNCHANGED pumped /\ FALSE \in BOOLEAN
    BY <1>3 DEF Flush
  <2>3. QED
    BY <1>1, <2>1, <2>2, ConservedSend
<1>4. CASE Eof(q) /\ Remainder(q)
  <2>1. Send(q, pumped[q], TRUE) /\ UNCHANGED pumped /\ TRUE \in BOOLEAN
    BY <1>4 DEF Eof
  <2>2. pumped[q] \in sent[q] + 1 .. pumped[q]
    BY <1>4 DEF Remainder, TypeOK
  <2>3. QED
    BY <1>1, <2>1, <2>2, ConservedSend
<1>5. CASE (Eof(q) /\ ~Remainder(q)) \/ Hangup(q)
  <2>1. UNCHANGED <<pumped, sent, chan>>
    BY <1>5 DEF Eof, Hangup
  <2>2. InHand' <=> InHand
    BY <1>1 DEF InHand
  <2>3. QED
    BY <1>1, <2>1, <2>2 DEF Conserved
<1>6. QED
  BY <1>2, <1>3, <1>4, <1>5 DEF Reader

\* Every step accounts for every unit between the pipe and the caller.
LEMMA NextConserved ==
    TypeOK /\ Phases /\ Conserved /\ [Next]_vars => Conserved'
<1> SUFFICES ASSUME TypeOK, Phases, Conserved, [Next]_vars PROVE Conserved'
  OBVIOUS
<1>1. CASE Machine
  <2>1. UNCHANGED <<pumped, sent, chan, cur, pushed, pc, result>>
    BY <1>1, MachineFrame DEF readers, sinks, outcome
  <2>2. \A q \in Pipes : written'[q] >= written[q]
    BY <1>1 DEF Machine, Fork, LeaveGroup, Write, ClosePipe, Exit, Die, End, TypeOK
  <2>3. written' \in [Pipes -> Nat]
    BY <1>1, MachineTypeOK DEF TypeOK
  <2>4. QED
    BY <2>1, <2>2, <2>3, ConservedFrame DEF InHand
<1>2. ASSUME UNCHANGED <<pumped, sent, chan, cur, pushed, written>>,
             InHand' => InHand,
             InHand => InHand' \/ result' = "write_error",
             result = "write_error" => result' = "write_error"
      PROVE Conserved'
  <2>1. \A q \in Pipes : written'[q] >= written[q]
    BY <1>2 DEF TypeOK
  <2>2. written' \in [Pipes -> Nat]
    BY <1>2 DEF TypeOK
  <2>3. QED
    BY <1>2, <2>1, <2>2, ConservedFrame
<1>3. CASE Outside
  BY <1>2, <1>3, OutsideFrame DEF machine, readers, sinks, outcome, InHand
<1>4. CASE UNCHANGED vars
  BY <1>2, <1>4 DEF vars, machine, readers, sinks, outcome, InHand
<1>5. CASE Runner
  <2>1. result # "write_error"
    BY <1>5, RunnerReturns
  <2>2. CASE Receive \/ Push
    BY <2>2, ReceiveConserved, PushConserved
  <2>3. CASE ~(Receive \/ Push)
    <3>1. UNCHANGED <<pumped, sent, chan, cur, pushed, written>>
      BY <1>5, <2>3 DEF Runner, SpawnFails, Spawn, OpenFails, Abort, StartReaders,
         Poll, PollFails, Watch, ReceiveTimeout, Disconnected, TeeWrite, TeeFails,
         Check, Final, Join, Reap, ReapFails, Verify, Rescan, machine, readers, sinks
    <3>2. (InHand' => InHand) /\ (InHand => InHand' \/ result' = "write_error")
      BY <1>5, <2>3 DEF Runner, SpawnFails, Spawn, OpenFails, Abort, StartReaders,
         Poll, PollFails, Watch, ReceiveTimeout, Disconnected, TeeWrite, TeeFails,
         Check, Final, Join, Reap, ReapFails, Verify, Rescan, Return, InHand
    <3>3. QED
      BY <1>2, <2>1, <3>1, <3>2
  <2>4. QED
    BY <2>2, <2>3
<1>6. QED
  BY <1>1, <1>3, <1>4, <1>5, ReaderConserved DEF Next, Terminating

-----------------------------------------------------------------------------
(* End of file: a reader that is done has left nothing behind. *)

\* Before the call no reader is done and no chunk is the last of its pipe.
LEMMA InitDrained == Init => Drained
BY DEF Init, Drained, PastLoop

\* A step that touches neither the pipes nor the readers nor the channel keeps
\* Drained, if it does not leave the loop.
LEMMA DrainedFrame ==
    ASSUME Drained,
           UNCHANGED <<sent, pumped, written, holds, reader, chan, eof_seen>>,
           PastLoop' => PastLoop,
           pc' # "done" \/ result' = "ok" => pc # "done" \/ result = "ok"
    PROVE  Drained'
BY DEF Drained, SendersGone

\* A pipe nobody holds stays quiet: the machine cannot write to it, nor pass it
\* on.
LEMMA MachineDrained == TypeOK /\ Drained /\ Machine => Drained'
<1> SUFFICES ASSUME TypeOK, Drained, Machine PROVE Drained'
  OBVIOUS
<1>1. UNCHANGED <<sent, pumped, reader, chan, eof_seen, pc, result>>
  BY MachineFrame DEF readers, outcome
<1>2. \A q \in Pipes : holds[q] = {} => holds'[q] = {} /\ written'[q] = written[q]
  <2>1. TAKE q \in Pipes
  <2>2. HAVE holds[q] = {}
  <2>3. ASSUME NEW parent \in Procs, NEW child \in Helpers, Fork(parent, child)
        PROVE holds'[q] = {} /\ written'[q] = written[q]
    BY <2>2, <2>3 DEF Fork
  <2>4. ASSUME NEW h \in Helpers, LeaveGroup(h)
        PROVE holds'[q] = {} /\ written'[q] = written[q]
    BY <2>2, <2>4 DEF LeaveGroup
  <2>5. ASSUME NEW p \in Procs, NEW r \in Pipes, Write(p, r)
        PROVE holds'[q] = {} /\ written'[q] = written[q]
    BY <2>2, <2>5 DEF Write, TypeOK
  <2>6. ASSUME NEW p \in Procs, NEW r \in Pipes, ClosePipe(p, r)
        PROVE holds'[q] = {} /\ written'[q] = written[q]
    BY <2>2, <2>6 DEF ClosePipe, TypeOK
  <2>7. ASSUME NEW p \in Procs, NEW how \in {"exited", "killed"}, End(p, how)
        PROVE holds'[q] = {} /\ written'[q] = written[q]
    BY <2>2, <2>7 DEF End
  <2>8. QED
    BY <2>3, <2>4, <2>5, <2>6, <2>7 DEF Machine, Exit, Die
<1>3. PastLoop' <=> PastLoop
  BY <1>1 DEF PastLoop
<1>4. QED
  BY <1>1, <1>2, <1>3 DEF Drained, SendersGone

\* A reader is done only at end of file, with everything sent (at_eof).
LEMMA ReaderDrained ==
    ASSUME NEW q \in Pipes, TypeOK, Conserved, Drained, Reader(q) PROVE Drained'
<1>1. UNCHANGED <<written, holds, eof_seen, pc, result>>
  BY ReaderFrame DEF machine, outcome
<1>2. reader[q] = "reading" /\ ~PastLoop /\ ~PastLoop'
  <2>1. reader[q] = "reading"
    BY DEF Reader, Pump, Flush, Eof, Hangup
  <2>2. ~PastLoop
    BY <2>1 DEF Drained, SendersGone
  <2>3. QED
    BY <1>1, <2>1, <2>2 DEF PastLoop
<1>3. q \notin eof_seen
  BY <1>2 DEF Drained
<1>4. \A i \in 1 .. Len(chan) : chan[i].at_eof => chan[i].pipe # q
  BY <1>2 DEF Drained
<1>5. /\ chan \in Seq(Chunk) /\ sent \in [Pipes -> Nat] /\ pumped \in [Pipes -> Nat]
      /\ reader \in [Pipes -> {"none", "reading", "done"}]
      /\ written \in [Pipes -> Nat]
  BY DEF TypeOK
<1>6. \A i \in 1 .. Len(chan) : chan[i].pipe \in Pipes
  <2>1. \A i \in 1 .. Len(chan) : chan[i] \in Chunk
    BY <1>5
  <2>2. QED
    BY <2>1 DEF Chunk
<1>7. CASE Pump(q)
  <2>1. /\ UNCHANGED <<sent, reader, chan>>
        /\ \A r \in Pipes : r # q => pumped'[r] = pumped[r]
    BY <1>5, <1>7 DEF Pump
  <2>2. \A r \in Pipes : reader[r] = "done" => pumped'[r] = pumped[r]
    BY <1>2, <2>1
  <2>3. QED
    BY <1>1, <1>2, <2>1, <2>2 DEF Drained
<1>8. ASSUME NEW upto \in Nat, NEW at_eof \in BOOLEAN, Send(q, upto, at_eof),
             UNCHANGED pumped,
             at_eof => upto = pumped[q] /\ pumped[q] = written[q] /\ holds[q] = {},
             reader' = [reader EXCEPT ![q] = IF at_eof THEN "done" ELSE "reading"]
      PROVE Drained'
  <2> DEFINE c == [pipe |-> q, upto |-> upto, at_eof |-> at_eof]
  <2> DEFINE n == Len(chan)
  <2>1. /\ n \in Nat /\ Len(chan') = n + 1 /\ chan'[n + 1] = c
        /\ \A i \in 1 .. n : chan'[i] = chan[i]
    <3>1. c \in Chunk
      BY DEF Chunk
    <3>2. QED
      BY <1>5, <1>8, <3>1 DEF Send
  <2>2. /\ sent'[q] = upto /\ reader'[q] = IF at_eof THEN "done" ELSE "reading"
        /\ \A r \in Pipes : r # q => sent'[r] = sent[r] /\ reader'[r] = reader[r]
    BY <1>5, <1>8 DEF Send
  <2>3. ASSUME NEW r \in Pipes, reader'[r] = "done", pc # "done" \/ result = "ok"
        PROVE sent'[r] = pumped[r] /\ pumped[r] = written[r] /\ holds[r] = {}
    <3>1. CASE r = q
      BY <1>8, <2>2, <2>3, <3>1
    <3>2. CASE r # q
      BY <2>2, <2>3, <3>2 DEF Drained
    <3>3. QED
      BY <3>1, <3>2
  <2>4. ASSUME NEW i \in 1 .. Len(chan'), chan'[i].at_eof
        PROVE reader'[chan'[i].pipe] = "done" /\ chan'[i].upto = sent'[chan'[i].pipe]
    <3>1. CASE i \in 1 .. n
      BY <1>4, <1>6, <2>1, <2>2, <2>4, <3>1 DEF Drained
    <3>2. CASE i = n + 1
      BY <2>1, <2>2, <2>4, <3>2
    <3>3. QED
      BY <2>1, <3>1, <3>2
  <2>5. ASSUME NEW r \in eof_seen
        PROVE reader'[r] = "done" /\ \A i \in 1 .. Len(chan') : chan'[i].pipe # r
    <3>1. r # q /\ r \in Pipes
      BY <1>3 DEF TypeOK
    <3>2. reader'[r] = "done"
      BY <2>2, <3>1 DEF Drained
    <3>3. ASSUME NEW i \in 1 .. Len(chan') PROVE chan'[i].pipe # r
      <4>1. CASE i \in 1 .. n
        BY <2>1, <4>1 DEF Drained
      <4>2. CASE i = n + 1
        BY <2>1, <3>1, <4>2
      <4>3. QED
        BY <2>1, <4>1, <4>2
    <3>4. QED
      BY <3>2, <3>3
  <2>6. QED
    BY <1>1, <1>2, <1>8, <2>3, <2>4, <2>5 DEF Drained
<1>9. CASE Flush(q)
  <2>1. PICK upto \in sent[q] + 1 .. pumped[q] : Send(q, upto, FALSE)
    BY <1>9 DEF Flush
  <2>2. upto \in Nat
    BY <1>5
  <2>3. UNCHANGED <<pumped, reader>>
    BY <1>9 DEF Flush
  <2>4. reader' = [reader EXCEPT ![q] = "reading"]
    BY <1>2, <1>5, <2>3
  <2>5. QED
    BY <1>8, <2>1, <2>2, <2>3, <2>4
<1>10. CASE Eof(q) /\ Remainder(q)
  <2>1. /\ Send(q, pumped[q], TRUE) /\ UNCHANGED pumped /\ pumped[q] \in Nat
        /\ holds[q] = {} /\ pumped[q] = written[q]
        /\ reader' = [reader EXCEPT ![q] = "done"]
    BY <1>5, <1>10 DEF Eof
  <2>2. QED
    BY <1>8, <2>1
<1>11. CASE Eof(q) /\ ~Remainder(q)
  <2>1. /\ UNCHANGED <<pumped, sent, chan>>
        /\ holds[q] = {} /\ pumped[q] = written[q]
        /\ reader' = [reader EXCEPT ![q] = "done"]
    BY <1>11 DEF Eof
  <2>2. sent[q] = pumped[q]
    BY <1>5, <1>11 DEF Remainder, Conserved
  <2>3. \A r \in Pipes : reader'[r] = IF r = q THEN "done" ELSE reader[r]
    BY <1>5, <2>1
  <2>4. \A r \in eof_seen : r \in Pipes
    BY DEF TypeOK
  <2>5. QED
    BY <1>1, <1>2, <1>4, <1>6, <2>1, <2>2, <2>3, <2>4 DEF Drained
<1>12. CASE Hangup(q)
  <2>1. /\ UNCHANGED <<pumped, sent, chan>> /\ pc = "done"
        /\ reader' = [reader EXCEPT ![q] = "done"]
    BY <1>12 DEF Hangup
  <2>2. result # "ok"
    BY <1>2 DEF PastLoop
  <2>3. \A r \in Pipes : reader'[r] = IF r = q THEN "done" ELSE reader[r]
    BY <1>5, <2>1
  <2>4. \A r \in eof_seen : r \in Pipes
    BY DEF TypeOK
  <2>5. QED
    BY <1>1, <1>2, <1>4, <1>6, <2>1, <2>2, <2>3, <2>4 DEF Drained
<1>13. QED
  BY <1>7, <1>9, <1>10, <1>11, <1>12 DEF Reader

\* Once the last chunk of a pipe has been received there is none behind it.
LEMMA ReceiveDrained == TypeOK /\ Phases /\ Conserved /\ Drained /\ Receive => Drained'
<1> SUFFICES ASSUME TypeOK, Phases, Conserved, Drained, Receive PROVE Drained'
  OBVIOUS
<1> DEFINE n == Len(chan)
<1>1. /\ chan \in Seq(Chunk) /\ chan # <<>>
      /\ cur' = Head(chan) /\ chan' = Tail(chan)
      /\ UNCHANGED <<pumped, sent, written, holds, reader, result>>
      /\ pc = "recv" /\ pc' \in {"tee", "push"}
      /\ eof_seen' = IF cur'.at_eof THEN eof_seen \cup {cur'.pipe} ELSE eof_seen
  BY DEF Receive, NextFor, TypeOK, machine, outcome
<1>2. result = "none"
  BY <1>1, RunnerReturns DEF Runner
<1>3. /\ n \in Nat /\ n >= 1 /\ 1 \in 1 .. n /\ Len(chan') = n - 1
      /\ cur' = chan[1]
      /\ \A i \in 1 .. n - 1 : chan'[i] = chan[i + 1] /\ i + 1 \in 1 .. n
  BY <1>1
<1>4. ASSUME chan[1].at_eof, NEW i \in 1 .. n - 1 PROVE chan'[i].pipe # chan[1].pipe
  <2>1. chan[1].upto = sent[chan[1].pipe]
    BY <1>3, <1>4 DEF Drained
  <2>2. i + 1 \in 1 .. n /\ 1 < i + 1 /\ chan'[i] = chan[i + 1]
    BY <1>3
  <2>3. chan[i + 1].upto <= sent[chan[i + 1].pipe]
    BY <2>2 DEF Conserved
  <2>4. chan[i + 1].pipe = chan[1].pipe => chan[1].upto < chan[i + 1].upto
    BY <1>3, <2>2 DEF Conserved
  <2>5. chan[1].upto \in Nat /\ chan[i + 1].upto \in Nat
    <3>1. chan[1] \in Chunk /\ chan[i + 1] \in Chunk
      BY <1>1, <1>3, <2>2
    <3>2. QED
      BY <3>1 DEF Chunk
  <2>6. QED
    BY <2>1, <2>2, <2>3, <2>4, <2>5
<1>5. ASSUME NEW i \in 1 .. n - 1, chan'[i].at_eof
      PROVE reader[chan'[i].pipe] = "done" /\ chan'[i].upto = sent[chan'[i].pipe]
  BY <1>3, <1>5 DEF Drained
<1>6. ASSUME NEW r \in eof_seen'
      PROVE reader[r] = "done" /\ \A i \in 1 .. n - 1 : chan'[i].pipe # r
  <2>1. CASE r \in eof_seen
    BY <1>3, <2>1 DEF Drained
  <2>2. CASE r \notin eof_seen
    <3>1. chan[1].at_eof /\ r = chan[1].pipe
      BY <1>1, <1>3, <1>6, <2>2
    <3>2. reader[r] = "done"
      BY <1>3, <3>1 DEF Drained
    <3>3. QED
      BY <1>4, <3>1, <3>2
  <2>3. QED
    BY <2>1, <2>2
<1>7. ~PastLoop'
  BY <1>1, <1>2 DEF PastLoop
<1>8. QED
  BY <1>1, <1>3, <1>5, <1>6, <1>7 DEF Drained

\* The loop ends with every reader done and the channel empty, on both paths.
LEMMA RunnerDrained == TypeOK /\ Phases /\ Conserved /\ Drained /\ Runner => Drained'
<1> SUFFICES ASSUME TypeOK, Phases, Conserved, Drained, Runner PROVE Drained'
  OBVIOUS
<1>1. result = "none" /\ pc # "done"
  BY RunnerReturns
<1>2. CASE Receive
  BY <1>2, ReceiveDrained
<1>3. CASE Spawn
  <2>1. /\ UNCHANGED <<sent, pumped, written, reader, chan, eof_seen, result>>
        /\ pc' = "open" /\ \A q \in Pipes : reader[q] = "none"
    BY <1>3 DEF Spawn, readers, outcome, Phases
  <2>2. QED
    BY <1>1, <2>1 DEF Drained, PastLoop
<1>4. CASE StartReaders
  <2>1. /\ UNCHANGED <<sent, pumped, written, holds, chan, eof_seen, result>>
        /\ pc' = "poll" /\ \A q \in Pipes : reader[q] = "none"
        /\ \A q \in Pipes : reader'[q] = "reading"
    BY <1>4 DEF StartReaders, machine, outcome, Phases
  <2>2. \A q \in eof_seen : q \in Pipes
    BY DEF TypeOK
  <2>3. eof_seen = {}
    BY <2>1, <2>2 DEF Drained
  <2>4. \A i \in 1 .. Len(chan) : chan[i].pipe \in Pipes
    <3>1. \A i \in 1 .. Len(chan) : chan[i] \in Chunk
      BY DEF TypeOK
    <3>2. QED
      BY <3>1 DEF Chunk
  <2>5. \A i \in 1 .. Len(chan) : ~chan[i].at_eof
    BY <2>1, <2>4 DEF Drained
  <2>6. QED
    BY <1>1, <2>1, <2>3, <2>5 DEF Drained, PastLoop
<1>5. CASE Disconnected
  <2>1. UNCHANGED <<sent, pumped, written, holds, reader, chan, eof_seen, result>>
    BY <1>5 DEF Disconnected, machine, readers, outcome
  <2>2. chan = <<>> /\ SendersGone /\ pc' = "final"
    BY <1>5 DEF Disconnected
  <2>3. QED
    BY <1>1, <2>1, <2>2 DEF Drained, SendersGone
<1>6. CASE Check
  <2>1. UNCHANGED <<sent, pumped, written, holds, reader, chan, eof_seen, result>>
    BY <1>6 DEF Check, machine, readers, outcome
  <2>2. CASE MayStop
    <3>1. eof_seen = Pipes
      BY <2>2 DEF MayStop
    <3>2. SendersGone
      BY <3>1 DEF Drained, SendersGone
    <3>3. Len(chan) = 0
      <4>1. SUFFICES ASSUME Len(chan) # 0 PROVE FALSE
        OBVIOUS
      <4>2. 1 \in 1 .. Len(chan) /\ chan[1] \in Chunk
        BY <4>1 DEF TypeOK
      <4>3. QED
        BY <3>1, <4>2 DEF Drained, Chunk
    <3>4. chan = <<>>
      BY <3>3 DEF TypeOK
    <3>5. QED
      BY <1>1, <2>1, <3>2, <3>4 DEF Drained, SendersGone
  <2>3. CASE ~MayStop
    <3>1. pc' = "poll"
      BY <1>6, <2>3 DEF Check
    <3>2. QED
      BY <1>1, <2>1, <3>1, DrainedFrame DEF PastLoop
  <2>4. QED
    BY <2>2, <2>3
<1>7. CASE ~(Receive \/ Spawn \/ StartReaders \/ Disconnected \/ Check)
  <2>1. UNCHANGED <<sent, pumped, written, holds, reader, chan, eof_seen>>
    BY <1>7 DEF Runner, SpawnFails, OpenFails, Abort, Poll, PollFails, Watch,
       ReceiveTimeout, TeeWrite, TeeFails, Push, Final, Join, Reap, ReapFails,
       Verify, Rescan,
       machine, readers
  <2>2. PastLoop' => PastLoop
    BY <1>1, <1>7 DEF Runner, SpawnFails, OpenFails, Abort, Poll, PollFails, Watch,
       ReceiveTimeout, TeeWrite, TeeFails, Push, Final, Join, Reap, ReapFails,
       Verify, Rescan,
       Return, PastLoop, outcome
  <2>3. QED
    BY <1>1, <2>1, <2>2, DrainedFrame
<1>8. QED
  BY <1>2, <1>3, <1>4, <1>5, <1>6, <1>7

\* Every step keeps the facts about end of file, on both ways out of the loop.
LEMMA NextDrained ==
    TypeOK /\ Phases /\ Conserved /\ Drained /\ [Next]_vars => Drained'
<1> SUFFICES ASSUME TypeOK, Phases, Conserved, Drained, [Next]_vars PROVE Drained'
  OBVIOUS
<1>1. ASSUME UNCHANGED <<machine, readers, eof_seen, pc, outcome>> PROVE Drained'
  BY <1>1, DrainedFrame DEF machine, readers, outcome, PastLoop
<1>2. CASE Outside
  BY <1>1, <1>2, OutsideFrame
<1>3. CASE UNCHANGED vars
  BY <1>1, <1>3 DEF vars
<1>4. QED
  BY <1>2, <1>3, MachineDrained, ReaderDrained, RunnerDrained DEF Next, Terminating

-----------------------------------------------------------------------------
(* The log on disk. *)

\* Before the call the log is empty.
LEMMA InitLogged == Init => Logged
BY DEF Init, Logged, Pipes

\* Every step keeps the log at most one chunk ahead of the caller.
LEMMA NextLogged == TypeOK /\ Logged /\ [Next]_vars => Logged'
<1> SUFFICES ASSUME TypeOK, Logged, [Next]_vars PROVE Logged'
  OBVIOUS
<1>1. ASSUME UNCHANGED <<spec, pc, cur, sinks>> PROVE Logged'
  BY <1>1 DEF Logged, sinks
<1>2. CASE Machine \/ Outside \/ UNCHANGED vars
  BY <1>1, <1>2, MachineFrame, OutsideFrame DEF vars
<1>3. ASSUME NEW q \in Pipes, Reader(q) PROVE Logged'
  BY <1>1, <1>3, ReaderFrame
<1>4. CASE Receive
  <2>1. /\ pc = "recv" /\ UNCHANGED <<spec, teed, pushed>>
        /\ pc' = IF cur'.pipe = "serial" /\ spec.tee THEN "tee" ELSE "push"
    BY <1>4 DEF Receive, NextFor, sinks
  <2>2. QED
    BY <2>1 DEF Logged
<1>5. CASE TeeWrite
  <2>1. /\ pc = "tee" /\ UNCHANGED <<spec, cur, pushed>>
        /\ pc' = "push" /\ teed' = cur.upto
    BY <1>5 DEF TeeWrite
  <2>2. QED
    BY <2>1 DEF Logged
<1>6. CASE Push
  <2>1. /\ pc = "push" /\ pc' = "check" /\ UNCHANGED <<spec, teed>>
        /\ pushed' = [pushed EXCEPT ![cur.pipe] = cur.upto]
    BY <1>6 DEF Push
  <2>2. pushed'["serial"] = IF cur.pipe = "serial" THEN cur.upto ELSE pushed["serial"]
    BY <2>1 DEF TypeOK, Pipes
  <2>3. QED
    BY <2>1, <2>2 DEF Logged
<1>7. CASE Runner /\ ~(Receive \/ TeeWrite \/ Push)
  <2>1. /\ pc # "push" /\ pc' \notin {"tee", "push"}
        /\ UNCHANGED <<spec, teed, pushed>>
    BY <1>7 DEF Runner, SpawnFails, Spawn, OpenFails, Abort, StartReaders, Poll,
       PollFails, Watch, ReceiveTimeout, Disconnected, TeeFails, Check, Final,
       Join, Reap, ReapFails, Verify, Rescan, Return, sinks
  <2>2. QED
    BY <2>1 DEF Logged
<1>8. QED
  BY <1>2, <1>3, <1>4, <1>5, <1>6, <1>7 DEF Next, Terminating

-----------------------------------------------------------------------------
(* The theorems. *)

\* The invariant holds before the call.
LEMMA InitInductive == Init => Inductive
BY InitTypeOK, InitConserved, InitDrained, InitLogged, InitPhases, InitDoomed
DEF Inductive

\* Every step preserves it.
LEMMA NextInductive == Inductive /\ [Next]_vars => Inductive'
BY NextTypeOK, NextConserved, NextDrained, NextLogged, NextPhases, NextDoomed
DEF Inductive

\* Where units, chunks and processes are, at every moment (Inductive).
THEOREM InductiveInvariant == Spec => []Inductive
BY InitInductive, NextInductive, PTL DEF Spec

\* The log is never behind the caller: level with it, or one chunk ahead.
LEMMA DiskIsAhead == Inductive => PushedIsOnDisk
<1> SUFFICES ASSUME Inductive PROVE PushedIsOnDisk
  OBVIOUS
<1>1. /\ cur.upto \in Nat /\ teed \in Nat /\ pushed \in [Pipes -> Nat]
      /\ "serial" \in Pipes
  BY DEF Inductive, TypeOK, Chunk, Pipes
<1>2. pc = "push" => pushed[cur.pipe] < cur.upto
  BY DEF Inductive, Conserved, InHand
<1>3. QED
  BY <1>1, <1>2 DEF Inductive, Logged, PushedIsOnDisk

\* Serial output is on disk before it is pushed, whatever fails.
THEOREM DiskBeforePush == Spec => []PushedIsOnDisk
BY DiskIsAhead, InductiveInvariant, PTL

\* An outcome is returned only when everything the machine wrote has been
\* handed over.
LEMMA DrainedDelivers ==
    ASSUME Inductive, PastLoop, NEW q \in Pipes
    PROVE  pushed[q] = written[q] /\ holds[q] = {}
<1>1. chan = <<>> /\ reader[q] = "done"
  BY DEF Inductive, Drained, SendersGone
<1>2. result = "none" \/ result = "ok"
  BY DEF Inductive, Phases, PastLoop
<1>3. pc # "done" \/ result = "ok"
  BY <1>2 DEF Inductive, Phases
<1>4. ~InHand
  BY DEF Inductive, Phases, PastLoop, InHand
<1>5. Len(chan) = 0
  BY <1>1
<1>6. sent[q] = pushed[q]
  BY <1>2, <1>4, <1>5 DEF Inductive, Conserved
<1>7. QED
  BY <1>1, <1>3, <1>6 DEF Inductive, Drained

\* A call that returns an outcome has left nothing behind.
LEMMA NothingIsLeft == Inductive => NothingLost
<1> SUFFICES ASSUME Inductive, result = "ok" PROVE NothingLost
  BY DEF NothingLost
<1>1. \A q \in Pipes : pushed[q] = written[q]
  BY DrainedDelivers DEF PastLoop
<1>2. pc = "done"
  BY DEF Inductive, Phases
<1>3. spec.tee => teed = pushed["serial"]
  BY <1>2 DEF Inductive, Logged
<1>4. QED
  BY <1>1, <1>3 DEF NothingLost, Pipes

\* An outcome is complete: every unit the machine wrote was pushed, and logged.
THEOREM OutcomeIsComplete == Spec => []NothingLost
BY NothingIsLeft, InductiveInvariant, PTL

\* No survivor is left without a SIGKILL, unless the log could not be written.
THEOREM GroupIsKilled == Spec => []NoSurvivors
<1>1. Inductive => NoSurvivors
  <2> SUFFICES ASSUME Inductive, pc = "done", result # "write_error",
                      NEW p \in group, Running(p)
               PROVE  p \in doomed /\ ~group_dead
    BY DEF NoSurvivors
  <2>1. result \in {"ok", "spawn_error", "open_error", "wait_error", "reap_error"}
    BY DEF Inductive, TypeOK, Phases, Errors
  <2>2. QED
    BY <2>1 DEF Inductive, Doomed, GroupKilled, GroupAlive
<1>2. QED
  BY <1>1, InductiveInvariant, PTL

\* A kill that is not reported hits nobody who could still write.
THEOREM NoHarmfulKill == Spec => UnexplainedKillIsHarmless
<1>1. Inductive /\ [Next]_vars =>
        [doomed' # doomed /\ ~cancelled' /\ ~timed_out' /\ pc \notin {"open", "poll"}
         => \A q \in Pipes : holds[q] = {} /\ pushed[q] = written[q]]_vars
  <2> SUFFICES ASSUME Inductive, [Next]_vars, doomed' # doomed, ~cancelled',
                      ~timed_out', pc \notin {"open", "poll"}
               PROVE  \A q \in Pipes : holds[q] = {} /\ pushed[q] = written[q]
    OBVIOUS
  <2>1. Runner
    BY MachineFrame, OutsideFrame, ReaderFrame
    DEF Next, Terminating, vars, machine
  <2>2. ~Watch
    BY DEF Watch, flags
  <2>3. pc \in {"final", "verify"}
    BY <2>1, <2>2 DEF Runner, SpawnFails, Spawn, OpenFails, Abort, StartReaders,
       Poll, PollFails, Receive, ReceiveTimeout, Disconnected, TeeWrite, TeeFails,
       Push, Check, Final, Join, Reap, ReapFails, Verify, Rescan, machine
  <2>4. QED
    BY <2>3, DrainedDelivers DEF PastLoop
<1>2. QED
  BY <1>1, InductiveInvariant, PTL DEF Spec, UnexplainedKillIsHarmless

-----------------------------------------------------------------------------
(* Each pipe implements LosslessStream. *)

\* What a step does to the ends of a pipe: one unit is written, some are
\* delivered, the stream is completed, or nothing happens to it.
LEMMA StreamStep ==
    ASSUME Inductive, [Next]_vars, NEW q \in Pipes
    PROVE  \/ /\ result # "ok" /\ written'[q] = written[q] + 1
              /\ pushed'[q] = pushed[q] /\ result' = result
           \/ /\ result # "ok" /\ pushed'[q] \in pushed[q] + 1 .. written[q]
              /\ written'[q] = written[q] /\ result' = result
           \/ /\ result # "ok" /\ pushed[q] = written[q] /\ result' = "ok"
              /\ written'[q] = written[q] /\ pushed'[q] = pushed[q]
           \/ /\ written'[q] = written[q] /\ pushed'[q] = pushed[q]
              /\ (result' = "ok" <=> result = "ok")
<1>1. /\ written \in [Pipes -> Nat] /\ pushed \in [Pipes -> Nat]
      /\ cur \in Chunk
  BY DEF Inductive, TypeOK
<1>2. CASE Machine
  <2>1. UNCHANGED <<pushed, result>>
    BY <1>2, MachineFrame DEF sinks, outcome
  <2>2. CASE written' = written
    BY <2>1, <2>2
  <2>3. CASE written' # written
    <3>1. PICK p \in Procs, r \in Pipes : Write(p, r)
      BY <1>2, <2>3 DEF Machine, Fork, LeaveGroup, ClosePipe, Exit, Die, End
    <3>2. holds[r] # {} /\ written' = [written EXCEPT ![r] = @ + 1]
      BY <3>1 DEF Write
    <3>3. result # "ok"
      BY <3>2, DrainedDelivers DEF PastLoop
    <3>4. QED
      BY <1>1, <2>1, <3>2, <3>3
  <2>4. QED
    BY <2>2, <2>3
<1>3. CASE Outside \/ UNCHANGED vars
  <2>1. UNCHANGED <<written, pushed, result>>
    BY <1>3, OutsideFrame DEF vars, machine, sinks, outcome
  <2>2. QED
    BY <2>1
<1>4. ASSUME NEW r \in Pipes, Reader(r)
      PROVE UNCHANGED <<written, pushed, result>>
  BY <1>4, ReaderFrame DEF machine, sinks, outcome
<1>5. CASE Push
  <2>1. /\ pushed' = [pushed EXCEPT ![cur.pipe] = cur.upto]
        /\ UNCHANGED <<written, result>> /\ pc = "push"
    BY <1>5 DEF Push, machine, outcome
  <2>2. CASE q = cur.pipe
    <3>1. pushed'[q] = cur.upto
      BY <1>1, <2>1, <2>2
    <3>2. pushed[q] < cur.upto /\ cur.upto <= sent[q]
      BY <2>1, <2>2 DEF Inductive, Conserved, InHand
    <3>3. sent[q] <= pumped[q] /\ pumped[q] <= written[q]
      BY DEF Inductive, Conserved
    <3>4. /\ cur.upto \in Nat /\ sent[q] \in Nat /\ pumped[q] \in Nat
          /\ written[q] \in Nat /\ pushed[q] \in Nat
      BY <1>1 DEF Inductive, TypeOK, Chunk
    <3>5. cur.upto \in pushed[q] + 1 .. written[q]
      BY <3>2, <3>3, <3>4
    <3>6. result # "ok"
      BY <2>1 DEF Inductive, Phases
    <3>7. QED
      BY <2>1, <3>1, <3>5, <3>6
  <2>3. CASE q # cur.pipe
    BY <1>1, <2>1, <2>3
  <2>4. QED
    BY <2>2, <2>3
<1>6. CASE Runner /\ ~Push
  <2>1. UNCHANGED <<written, pushed>>
    BY <1>6 DEF Runner, SpawnFails, Spawn, OpenFails, Abort, StartReaders, Poll,
       PollFails, Watch, Receive, ReceiveTimeout, Disconnected, TeeWrite, TeeFails,
       Check, Final, Join, Reap, ReapFails, Verify, Rescan, machine, sinks
  <2>2. result = "none"
    BY <1>6, RunnerReturns DEF Inductive
  <2>3. ASSUME result' = "ok" PROVE pc \in {"verify", "rescan"}
    BY <1>6, <2>2, <2>3 DEF Runner, SpawnFails, Spawn, OpenFails, Abort,
       StartReaders, Poll, PollFails, Watch, Receive, ReceiveTimeout, Disconnected,
       TeeWrite, TeeFails, Check, Final, Join, Reap, ReapFails, Verify, Rescan,
       Return, outcome
  <2>4. result' = "ok" => pushed[q] = written[q]
    BY <2>3, DrainedDelivers DEF PastLoop
  <2>5. QED
    BY <2>1, <2>2, <2>4
<1>7. QED
  BY <1>2, <1>3, <1>4, <1>5, <1>6 DEF Next, Terminating

\* The serial pipe is a lossless stream, for every machine.
THEOREM SerialRefinement == Spec => SerialIsLossless
<1>1. Init => Serial!Init
  BY DEF Init, Serial!Init, Pipes
<1>2. Inductive /\ [Next]_vars => [Serial!Next]_Serial!streamVars
  <2> SUFFICES ASSUME Inductive, [Next]_vars
               PROVE [Serial!Next]_Serial!streamVars
    OBVIOUS
  <2>1. "serial" \in Pipes
    BY DEF Pipes
  <2>2. QED
    BY <2>1, StreamStep
    DEF Serial!Next, Serial!Write, Serial!Deliver, Serial!Complete, Serial!streamVars
<1>3. QED
  BY <1>1, <1>2, InductiveInvariant, PTL DEF Spec, SerialIsLossless, Serial!Spec

\* So is the emulator's own pipe.
THEOREM EmulatorRefinement == Spec => EmulatorIsLossless
<1>1. Init => Emulator!Init
  BY DEF Init, Emulator!Init, Pipes
<1>2. Inductive /\ [Next]_vars => [Emulator!Next]_Emulator!streamVars
  <2> SUFFICES ASSUME Inductive, [Next]_vars
               PROVE [Emulator!Next]_Emulator!streamVars
    OBVIOUS
  <2>1. "emulator" \in Pipes
    BY DEF Pipes
  <2>2. QED
    BY <2>1, StreamStep
    DEF Emulator!Next, Emulator!Write, Emulator!Deliver, Emulator!Complete,
        Emulator!streamVars
<1>3. QED
  BY <1>1, <1>2, InductiveInvariant, PTL
  DEF Spec, EmulatorIsLossless, Emulator!Spec

\* Both pipes of a call are.
THEOREM PipesRefinement == Spec => PipesAreLossless
BY SerialRefinement, EmulatorRefinement DEF PipesAreLossless

-----------------------------------------------------------------------------
(* The run backend: it is the process runner, and more. *)

\* What the backend does beside the runner is a stutter of the runner; what it
\* does during the run are the runner's own steps.
LEMMA LaunchStep == [LaunchNext]_allVars => [Next]_vars
<1>1. Backend => UNCHANGED vars
  BY DEF Backend, Refuse, Announce, SinkError, RunnerError, Evidence, Terminal,
         TerminalRefused
<1>2. PushEvents => Next
  BY DEF PushEvents, Next, Runner
<1>3. RunStep \/ Aftermath => Next
  BY DEF RunStep, Aftermath, Next
<1>4. LaunchTerminating \/ UNCHANGED allVars => UNCHANGED vars
  BY DEF LaunchTerminating, allVars
<1>5. QED
  BY <1>1, <1>2, <1>3, <1>4 DEF LaunchNext

\* The backend's specification implements the runner's, fairness aside.
THEOREM LaunchRunsProcess == LaunchSpec => Init /\ [][Next]_vars
<1>1. LaunchInit => Init
  BY DEF LaunchInit
<1>2. QED
  BY <1>1, LaunchStep, PTL DEF LaunchSpec

\* So the runner's invariant holds throughout a launch.
THEOREM RunnerInvariant == LaunchSpec => []Inductive
BY LaunchRunsProcess, InitInductive, NextInductive, PTL

-----------------------------------------------------------------------------
(* Frames: what the steps beside the backend leave alone. *)

\* Once the launch is past the run, the machine and the readers go on, and
\* nothing the backend reads changes.
LEMMA AftermathFrame ==
    Aftermath => UNCHANGED <<spec, outside, pc, cur, status, flags, eof_seen, sinks,
                             outcome, launch>>
BY MachineFrame, ReaderFrame DEF Aftermath

\* A step of the run that is not a push leaves the events alone, and what has
\* been pushed.
LEMMA RunStepFrame == RunStep => UNCHANGED <<launch, pushed>> /\ stage = "run"
<1> SUFFICES ASSUME RunStep PROVE UNCHANGED pushed
  BY DEF RunStep
<1>1. CASE Machine
  BY <1>1, MachineFrame DEF sinks
<1>2. CASE Outside
  BY <1>2, OutsideFrame DEF sinks
<1>3. CASE \E q \in Pipes : Reader(q)
  BY <1>3, ReaderFrame DEF sinks
<1>4. CASE Runner /\ ~Push
  BY <1>4 DEF Runner, SpawnFails, Spawn, OpenFails, Abort, StartReaders, Poll,
     PollFails, Watch, Receive, ReceiveTimeout, Disconnected, TeeWrite, TeeFails,
     Check, Final, Join, Reap, ReapFails, Verify, Rescan, Return, sinks
<1>5. QED
  BY <1>1, <1>2, <1>3, <1>4 DEF RunStep

\* The number of faults found in a chunk is a number, and within the limit.
LEMMA NewFaultsBound ==
    ASSUME NEW chunk, events.faults \in Nat, events.faults <= MaxFaultEvents
    PROVE  NewFaults(chunk) \in 0 .. MaxFaultEvents - events.faults
<1> DEFINE found == Cardinality(WholeLines(pushed["serial"], chunk.upto))
           room == MaxFaultEvents - events.faults
<1>1. IsFiniteSet(WholeLines(pushed["serial"], chunk.upto))
  BY TextAssumption, FS_Subset DEF WholeLines
<1>2. found \in Nat
  BY <1>1, FS_CardinalityType
<1>3. room \in Nat
  BY TextAssumption
<1>4. \E x \in {found, room} : \A y \in {found, room} : x <= y
  <2>1. found <= room \/ room <= found
    BY <1>2, <1>3
  <2>2. CASE found <= room
    BY <1>2, <1>3, <2>2
  <2>3. CASE room <= found
    BY <1>2, <1>3, <2>3
  <2>4. QED
    BY <2>1, <2>2, <2>3
<1>5. /\ Min({found, room}) \in {found, room}
      /\ \A y \in {found, room} : Min({found, room}) <= y
  BY <1>4 DEF Min
<1>6. Min({found, room}) \in 0 .. room
  BY <1>2, <1>3, <1>5
<1>7. QED
  BY <1>3, <1>6 DEF NewFaults

-----------------------------------------------------------------------------
(* The invariant of a launch. *)

\* It holds before the launch.
LEMMA InitLaunch == LaunchInit => LaunchInductive
<1> SUFFICES ASSUME LaunchInit PROVE LaunchInductive
  OBVIOUS
<1>1. Inductive
  BY InitInductive DEF LaunchInit
<1>2. LaunchTypeOK
  BY <1>1 DEF LaunchInit, LaunchTypeOK, Inductive, NoEvents, NoEvidence, NoCode
<1>3. Announced
  BY TextAssumption DEF LaunchInit, Announced, NoEvents, Init, Pipes
<1>4. Attributed
  BY DEF LaunchInit, Attributed, NoEvents, Init
<1>5. QED
  BY <1>1, <1>2, <1>3, <1>4 DEF LaunchInductive

\* The backend's own steps keep the types.
LEMMA BackendTypeOK == LaunchTypeOK /\ TypeOK' /\ Backend => LaunchTypeOK'
<1> SUFFICES ASSUME LaunchTypeOK, TypeOK', Backend PROVE LaunchTypeOK'
  OBVIOUS
<1> USE DEF LaunchTypeOK
<1>1. CASE Refuse \/ Announce \/ SinkError
  BY <1>1 DEF Refuse, Announce, SinkError
<1>2. CASE RunnerError
  BY <1>2 DEF RunnerError, ReportFailure, Reasons
<1>3. CASE Evidence
  BY <1>3 DEF Evidence, ClassifyExit, Reasons, NoCode
<1>4. CASE Terminal \/ TerminalRefused
  BY <1>4 DEF Terminal, TerminalRefused
<1>5. QED
  BY <1>1, <1>2, <1>3, <1>4 DEF Backend

\* What the sink accepts of a chunk keeps the types, and stays behind the push.
LEMMA ChunkedEvents ==
    ASSUME LaunchInductive, Push, NEW n \in 0 .. NewFaults(cur)
    PROVE  /\ Chunked(cur, n) \in [started : BOOLEAN, logged : [Pipes -> Nat],
                                   faults : Nat, exited : Reasons \cup {"none"}]
           /\ Chunked(cur, n).faults <= MaxFaultEvents
           /\ Chunked(cur, n).logged = [events.logged EXCEPT ![cur.pipe] = cur.upto]
           /\ Chunked(cur, n).started = events.started
           /\ Chunked(cur, n).exited = events.exited
<1>1. cur.pipe \in Pipes /\ cur.upto \in Nat
  BY DEF LaunchInductive, LaunchTypeOK, TypeOK, Chunk
<1>2. events.faults \in Nat /\ events.faults <= MaxFaultEvents
  BY DEF LaunchInductive, LaunchTypeOK, Announced
<1>3. NewFaults(cur) \in 0 .. MaxFaultEvents - events.faults
  BY <1>2, NewFaultsBound
<1>4. events.faults + n \in Nat /\ events.faults + n <= MaxFaultEvents
  BY <1>2, <1>3, TextAssumption
<1>5. events \in [started : BOOLEAN, logged : [Pipes -> Nat], faults : Nat,
                  exited : Reasons \cup {"none"}]
  BY DEF LaunchInductive, LaunchTypeOK
<1>6. QED
  BY <1>1, <1>4, <1>5 DEF Chunked

\* The three things the sink can have accepted when a chunk was pushed.
LEMMA PushEventsCases ==
    ASSUME LaunchInductive, PushEvents
    PROVE  /\ stage = "run" /\ Push
           /\ UNCHANGED <<stage, guest, reason>>
           /\ emit_error' \in BOOLEAN
           /\ \/ UNCHANGED events /\ emit_error'
              \/ /\ ~emit_error
                 /\ \E n \in 0 .. NewFaults(cur) : events' = Chunked(cur, n)
<1>1. NewFaults(cur) \in 0 .. MaxFaultEvents - events.faults
  BY NewFaultsBound DEF LaunchInductive, LaunchTypeOK, Announced
<1>2. NewFaults(cur) \in 0 .. NewFaults(cur)
  BY <1>1, TextAssumption DEF LaunchInductive, LaunchTypeOK, Announced
<1>3. emit_error \in BOOLEAN
  BY DEF LaunchInductive, LaunchTypeOK
<1>4. CASE Silenced /\ UNCHANGED <<emit_error, events>>
  BY <1>3, <1>4 DEF PushEvents, Silenced
<1>5. CASE ~Silenced /\ events' = Chunked(cur, NewFaults(cur)) /\ UNCHANGED emit_error
  <2>1. \E n \in 0 .. NewFaults(cur) : events' = Chunked(cur, n)
    BY <1>2, <1>5
  <2>2. QED
    BY <1>3, <1>5, <2>1 DEF PushEvents, Silenced
<1>6. CASE ~Silenced /\ emit_error'
           /\ (UNCHANGED events \/ \E n \in 0 .. NewFaults(cur) : events' = Chunked(cur, n))
  BY <1>6 DEF PushEvents, Silenced
<1>7. QED
  BY <1>4, <1>5, <1>6 DEF PushEvents

\* A push leaves alone everything of the runner that the reason rests on.
LEMMA PushFrame ==
    Push => /\ UNCHANGED <<spec, outside, status, flags, outcome>>
            /\ pushed' = [pushed EXCEPT ![cur.pipe] = cur.upto]
            /\ pc = "push"
BY DEF Push

\* Every step keeps the types.
LEMMA LaunchTypes == LaunchInductive /\ [LaunchNext]_allVars => LaunchTypeOK'
<1> SUFFICES ASSUME LaunchInductive, [LaunchNext]_allVars PROVE LaunchTypeOK'
  OBVIOUS
<1>1. TypeOK'
  BY LaunchStep, NextTypeOK DEF LaunchInductive, Inductive
<1>2. CASE Backend
  BY <1>1, <1>2, BackendTypeOK DEF LaunchInductive
<1>3. CASE PushEvents
  <2>1. events' \in [started : BOOLEAN, logged : [Pipes -> Nat],
                     faults : Nat, exited : Reasons \cup {"none"}]
    BY <1>3, PushEventsCases, ChunkedEvents DEF LaunchInductive, LaunchTypeOK
  <2>2. QED
    BY <1>1, <1>3, <2>1, PushEventsCases DEF LaunchInductive, LaunchTypeOK
<1>4. CASE RunStep \/ Aftermath
  BY <1>1, <1>4, RunStepFrame, AftermathFrame
  DEF launch, LaunchInductive, LaunchTypeOK
<1>5. CASE LaunchTerminating \/ UNCHANGED allVars
  BY <1>1, <1>5 DEF LaunchTerminating, allVars, launch, LaunchInductive, LaunchTypeOK
<1>6. QED
  BY <1>2, <1>3, <1>4, <1>5 DEF LaunchNext

\* The runner never goes back from done.
LEMMA DoneIsFinal == Phases /\ RunStep /\ pc = "done" => pc' = "done"
<1> SUFFICES ASSUME Phases, RunStep, pc = "done" PROVE pc' = "done"
  OBVIOUS
<1>1. ~Runner
  BY RunnerReturns
<1>2. QED
  BY <1>1, MachineFrame, OutsideFrame, ReaderFrame DEF RunStep

\* Every step keeps the facts about the events.
LEMMA NextAnnounced == LaunchInductive /\ [LaunchNext]_allVars => Announced'
<1> SUFFICES ASSUME LaunchInductive, [LaunchNext]_allVars PROVE Announced'
  OBVIOUS
<1>1. Announced /\ LaunchTypeOK /\ Phases
  BY DEF LaunchInductive, Inductive
<1>2. CASE Backend
  <2>1. UNCHANGED <<pc, pushed>>
    BY <1>2 DEF Backend, Refuse, Announce, SinkError, RunnerError, Evidence,
       Terminal, TerminalRefused, vars, sinks
  <2>2. CASE Refuse \/ SinkError \/ RunnerError \/ Evidence
    BY <1>1, <2>1, <2>2 DEF Announced, Refuse, SinkError, RunnerError, ReportFailure,
       Evidence
  <2>3. CASE Announce
    BY <1>1, <2>1, <2>3 DEF Announced, Announce, LaunchTypeOK
  <2>4. CASE Terminal
    BY <1>1, <2>1, <2>4 DEF Announced, Terminal, LaunchTypeOK
  <2>5. CASE TerminalRefused
    BY <1>1, <2>1, <2>5 DEF Announced, TerminalRefused
  <2>6. QED
    BY <1>2, <2>2, <2>3, <2>4, <2>5 DEF Backend
<1>3. CASE PushEvents
  <2>1. /\ cur.pipe \in Pipes /\ cur.upto \in Nat /\ pushed \in [Pipes -> Nat]
        /\ events.logged \in [Pipes -> Nat]
    BY <1>1 DEF LaunchTypeOK, TypeOK, Chunk
  <2>2. pushed[cur.pipe] < cur.upto
    BY <1>3, PushEventsCases, PushFrame DEF LaunchInductive, Inductive, Conserved, InHand
  <2>3. /\ pushed' = [pushed EXCEPT ![cur.pipe] = cur.upto]
        /\ stage = "run" /\ stage' = "run"
    BY <1>3, PushEventsCases, PushFrame
  <2>4. CASE UNCHANGED events /\ emit_error'
    BY <1>1, <2>1, <2>2, <2>3, <2>4 DEF Announced
  <2>5. CASE ~emit_error /\ \E n \in 0 .. NewFaults(cur) : events' = Chunked(cur, n)
    <3>1. PICK n \in 0 .. NewFaults(cur) : events' = Chunked(cur, n)
      BY <2>5
    <3>2. /\ events'.faults <= MaxFaultEvents /\ events'.started = events.started
          /\ events'.exited = events.exited
          /\ events'.logged = [events.logged EXCEPT ![cur.pipe] = cur.upto]
      BY <1>3, <3>1, PushEventsCases, ChunkedEvents
    <3>3. \A q \in Pipes : events.logged[q] = pushed[q]
      BY <1>1, <2>5 DEF Announced
    <3>4. \A q \in Pipes : events'.logged[q] = pushed'[q]
      BY <2>1, <2>3, <3>2, <3>3
    <3>5. \A q \in Pipes : pushed'[q] \in Nat
      BY <2>1, <2>3
    <3>6. QED
      BY <1>1, <2>3, <3>2, <3>4, <3>5 DEF Announced
  <2>6. QED
    BY <1>3, <2>4, <2>5, PushEventsCases
<1>4. CASE RunStep
  BY <1>1, <1>4, RunStepFrame, DoneIsFinal DEF Announced, launch
<1>5. CASE Aftermath
  BY <1>1, <1>5, AftermathFrame DEF Announced, launch, sinks
<1>6. CASE LaunchTerminating \/ UNCHANGED allVars
  BY <1>1, <1>6 DEF LaunchTerminating, allVars, vars, launch, sinks, Announced
<1>7. QED
  BY <1>2, <1>3, <1>4, <1>5, <1>6 DEF LaunchNext

\* A deadline is reported only once it has passed (the runner's Watch).
LEMMA LateFirst == (timed_out => late) /\ [Next]_vars => (timed_out => late)'
<1> SUFFICES ASSUME timed_out => late, [Next]_vars PROVE (timed_out => late)'
  OBVIOUS
<1>1. CASE Machine
  BY <1>1, MachineFrame DEF outside, flags
<1>2. CASE Outside
  BY <1>2 DEF Outside, Cancel, Deadline, GraceElapses, flags
<1>3. CASE \E q \in Pipes : Reader(q)
  BY <1>3, ReaderFrame DEF outside, flags
<1>4. CASE Runner
  BY <1>4 DEF Runner, SpawnFails, Spawn, OpenFails, Abort, StartReaders, Poll,
     PollFails, Watch, Receive, ReceiveTimeout, Disconnected, TeeWrite, TeeFails,
     Push, Check, Final, Join, Reap, ReapFails, Verify, Rescan, outside, flags
<1>5. CASE UNCHANGED vars
  BY <1>5 DEF vars, outside, flags
<1>6. QED
  BY <1>1, <1>2, <1>3, <1>4, <1>5 DEF Next, Terminating

\* Every step keeps the facts about the reason.
LEMMA NextAttributed == LaunchInductive /\ [LaunchNext]_allVars => Attributed'
<1> SUFFICES ASSUME LaunchInductive, [LaunchNext]_allVars PROVE Attributed'
  OBVIOUS
<1>1. Attributed /\ Announced /\ LaunchTypeOK
  BY DEF LaunchInductive
<1>2. (timed_out => late)'
  BY <1>1, LaunchStep, LateFirst DEF Attributed
<1>3. CASE Backend
  <2>1. UNCHANGED <<status, flags>>
    BY <1>3 DEF Backend, Refuse, Announce, SinkError, RunnerError, Evidence,
       Terminal, TerminalRefused, vars
  <2>2. CASE Refuse \/ Announce \/ SinkError \/ TerminalRefused
    BY <1>1, <1>2, <2>1, <2>2 DEF Attributed, Refuse, Announce, SinkError,
       TerminalRefused, flags, LaunchTypeOK
  <2>3. CASE RunnerError
    BY <1>1, <1>2, <2>1, <2>3 DEF Attributed, Announced, RunnerError, ReportFailure,
       flags
  <2>4. CASE Evidence
    <3>1. events'.exited = "none" /\ stage' = "evidence"
      BY <1>1, <2>4 DEF Announced, Attributed, Evidence
    <3>2. /\ reason' = ClassifyExit(cancelled \/ cancel, timed_out,
                                  guest'.triple_fault, guest'.code)
          /\ guest' \in [code : IF status = "exited" THEN {0, 1} ELSE {NoCode},
                         triple_fault : BOOLEAN]
      BY <2>4 DEF Evidence
    <3>3. guest'.code = 0 => status = "exited"
      BY <3>2 DEF NoCode
    <3>4. QED
      BY <1>2, <2>1, <3>1, <3>2, <3>3 DEF ClassifyExit, Attributed, flags
  <2>5. CASE Terminal
    BY <1>1, <1>2, <2>1, <2>5 DEF Attributed, Terminal, flags, LaunchTypeOK
  <2>6. QED
    BY <1>3, <2>2, <2>3, <2>4, <2>5 DEF Backend
<1>4. CASE PushEvents
  <2>1. events'.exited = events.exited
    BY <1>4, PushEventsCases, ChunkedEvents
  <2>2. QED
    BY <1>1, <1>2, <1>4, <2>1, PushEventsCases, PushFrame DEF Attributed, flags
<1>5. CASE RunStep
  <2>1. stage = "run" /\ UNCHANGED launch
    BY <1>5, RunStepFrame
  <2>2. reason = "none"
    BY <1>1, <2>1 DEF Attributed
  <2>3. QED
    BY <1>1, <1>2, <2>1, <2>2 DEF Attributed, launch
<1>6. CASE Aftermath
  BY <1>1, <1>2, <1>6, AftermathFrame DEF Attributed, launch, flags
<1>7. CASE LaunchTerminating \/ UNCHANGED allVars
  BY <1>1, <1>2, <1>7 DEF LaunchTerminating, allVars, vars, launch, flags, Attributed
<1>8. QED
  BY <1>3, <1>4, <1>5, <1>6, <1>7 DEF LaunchNext

\* What is emitted, and how it is attributed, at every moment of a launch.
THEOREM LaunchInvariant == LaunchSpec => []LaunchInductive
<1>1. LaunchInductive /\ [LaunchNext]_allVars => LaunchInductive'
  BY LaunchStep, NextInductive, LaunchTypes, NextAnnounced, NextAttributed
  DEF LaunchInductive
<1>2. QED
  BY <1>1, InitLaunch, PTL DEF LaunchSpec

\* The types of the backend's own state.
THEOREM LaunchTypeCorrect == LaunchSpec => []LaunchTypeOK
BY LaunchInvariant, PTL DEF LaunchInductive

\* run.exited comes after everything the machine wrote.
THEOREM ExitComesLast == LaunchSpec => []TerminalIsLast
<1>1. LaunchInductive => TerminalIsLast
  <2> SUFFICES ASSUME LaunchInductive, events.exited # "none" PROVE TerminalIsLast
    BY DEF TerminalIsLast
  <2>1. events.started /\ pc = "done" /\ ~emit_error
    BY DEF LaunchInductive, Announced
  <2>2. \A q \in Pipes : events.logged[q] = pushed[q]
    BY <2>1 DEF LaunchInductive, Announced
  <2>3. result = "ok" => \A q \in Pipes : pushed[q] = written[q]
    BY NothingIsLeft DEF LaunchInductive, NothingLost
  <2>4. events.logged \in [Pipes -> Nat] /\ written \in [Pipes -> Nat]
    BY DEF LaunchInductive, LaunchTypeOK, TypeOK
  <2>5. result = "ok" => events.logged = written
    BY <2>2, <2>3, <2>4
  <2>6. QED
    BY <2>1, <2>5 DEF TerminalIsLast
<1>2. QED
  BY <1>1, LaunchInvariant, PTL

\* The serial log on disk is ahead of the event stream.
THEOREM DiskIsAheadOfStream == LaunchSpec => []DiskBeforeEvent
<1>1. LaunchInductive => DiskBeforeEvent
  <2> SUFFICES ASSUME LaunchInductive, spec.tee
               PROVE  events.logged["serial"] <= teed
    BY DEF DiskBeforeEvent
  <2>1. events.logged["serial"] <= pushed["serial"] /\ pushed["serial"] <= teed
    BY DiskIsAhead DEF LaunchInductive, Announced, PushedIsOnDisk, Pipes
  <2>2. /\ events.logged["serial"] \in Nat /\ pushed["serial"] \in Nat
        /\ teed \in Nat
    BY DEF LaunchInductive, LaunchTypeOK, TypeOK, Pipes
  <2>3. QED
    BY <2>1, <2>2
<1>2. QED
  BY <1>1, LaunchInvariant, PTL

\* The reason announced is the one the evidence supports.
THEOREM ReasonIsAttributed == LaunchSpec => []ReasonIsEarned
<1>1. LaunchInductive => ReasonIsEarned
  BY DEF LaunchInductive, Attributed, ReasonIsEarned
<1>2. QED
  BY <1>1, LaunchInvariant, PTL

\* Nothing is offered to a sink that has refused, and nothing follows run.exited.
THEOREM StreamEnds == LaunchSpec => NothingAfterTheEnd
<1>1. LaunchInductive /\ [LaunchNext]_allVars
        => [emit_error \/ events.exited # "none" => UNCHANGED events]_allVars
  <2> SUFFICES ASSUME LaunchInductive, LaunchNext,
                      emit_error \/ events.exited # "none"
               PROVE  UNCHANGED events
    OBVIOUS
  <2>1. stage \notin {"start", "fail", "evidence"} /\ (stage = "run" => emit_error)
    BY DEF LaunchInductive, Announced
  <2>2. CASE Backend
    BY <2>1, <2>2 DEF Backend, Refuse, Announce, SinkError, RunnerError, Evidence,
       Terminal, TerminalRefused
  <2>3. CASE PushEvents
    BY <2>1, <2>3 DEF PushEvents, Silenced
  <2>4. CASE RunStep \/ Aftermath
    BY <2>4 DEF RunStep, Aftermath, launch
  <2>5. CASE LaunchTerminating
    BY <2>5 DEF LaunchTerminating, allVars, launch
  <2>6. QED
    BY <2>2, <2>3, <2>4, <2>5 DEF LaunchNext
<1>2. QED
  BY <1>1, LaunchInvariant, PTL DEF LaunchSpec, NothingAfterTheEnd

\* The stream of a run is well formed: the end is last, and it is the end.
THEOREM StreamOrder == LaunchSpec => StreamIsWellFormed
BY ExitComesLast, StreamEnds DEF StreamIsWellFormed

-----------------------------------------------------------------------------
(* A build: the invariant of the command runner. *)

\* Once the group has been killed whoever still runs in it is about to die, and so
\* forks no more.
TreeDoomed ==
    /\ \A p \in group : proc[p] # "unborn"
    /\ pc = "spawn" => ~cancelled /\ ~timed_out
    /\ pc = "spawn" \/ result = "spawn_error" => group = {}
    /\ cancelled \/ timed_out \/ result = "wait_error" =>
         \A p \in group : Running(p) => p \in doomed

RunInv ==
    /\ TypeOK /\ Phases /\ Conserved /\ Drained /\ TreeDoomed
    /\ cancelled => cancel

\* The steps that the command runner does not share.
Own == BuildSpawn \/ BuildWatch \/ BuildJoin \/ BuildReap

LEMMA SharedSteps == BuildRunner => Runner \/ Own
BY DEF BuildRunner, Own, Runner, BuildSpawnFails, BuildPollFails, BuildReapFails

\* A step that the runner of princess-run takes as well.
LEMMA SharedInv ==
    ASSUME RunInv, [Next]_vars
    PROVE  TypeOK' /\ Phases' /\ Conserved' /\ Drained'
BY NextTypeOK, NextPhases, NextConserved, NextDrained DEF RunInv

LEMMA SpawnInv ==
    ASSUME RunInv, BuildSpawn
    PROVE  TypeOK' /\ Phases' /\ Conserved' /\ Drained'
<1>1. /\ pc = "spawn" /\ pc' = "poll" /\ result = "none"
      /\ \A q \in Pipes : reader[q] = "none"
      /\ reader' = [q \in Pipes |-> "reading"]
      /\ UNCHANGED <<spec, doomed, written, outside, pumped, sent, chan, cur,
                     status, flags, eof_seen, sinks, outcome>>
  BY DEF RunInv, Phases, BuildSpawn
<1>2. TypeOK'
  BY DEF RunInv, TypeOK, BuildSpawn, Procs, LoopPoints, outside, flags, sinks, outcome
<1>3. Phases'
  BY <1>1 DEF Phases, outcome
<1>4. Conserved'
  <2>1. \A q \in Pipes : written'[q] >= written[q]
    BY <1>1 DEF RunInv, TypeOK
  <2>2. written' \in [Pipes -> Nat]
    BY <1>2 DEF TypeOK
  <2>3. ~InHand /\ ~InHand'
    BY <1>1 DEF InHand
  <2>4. QED
    BY <1>1, <2>1, <2>2, <2>3, ConservedFrame DEF RunInv, sinks, outcome
<1>5. Drained'
  <2>1. \A q \in eof_seen : q \in Pipes
    BY DEF RunInv, TypeOK
  <2>2. eof_seen = {}
    BY <1>1, <2>1 DEF RunInv, Drained
  <2>3. \A i \in 1 .. Len(chan) : chan[i].pipe \in Pipes
    <3>1. \A i \in 1 .. Len(chan) : chan[i] \in Chunk
      BY DEF RunInv, TypeOK
    <3>2. QED
      BY <3>1 DEF Chunk
  <2>4. \A i \in 1 .. Len(chan) : ~chan[i].at_eof
    BY <1>1, <2>3 DEF RunInv, Drained
  <2>5. QED
    BY <1>1, <2>2, <2>4 DEF Drained, PastLoop, outcome
<1>6. QED
  BY <1>2, <1>3, <1>4, <1>5

LEMMA WatchInv ==
    ASSUME RunInv, BuildWatch
    PROVE  TypeOK' /\ Phases' /\ Conserved' /\ Drained'
<1>1. /\ pc = "watch" /\ pc' = "recv" /\ result = "none"
      /\ UNCHANGED <<spec, proc, group, holds, written, outside, readers, cur,
                     status, kill_done, eof_seen, sinks, outcome>>
  BY DEF RunInv, Phases, BuildWatch
<1>2. doomed' \subseteq Procs
  BY DEF RunInv, TypeOK, BuildWatch, KillGroup
<1>3. cancelled' \in BOOLEAN /\ timed_out' \in BOOLEAN
  BY DEF RunInv, TypeOK, BuildWatch
<1>4. TypeOK'
  BY <1>1, <1>2, <1>3 DEF RunInv, TypeOK, LoopPoints, outside, readers, sinks, outcome
<1>5. Phases'
  BY <1>1 DEF Phases, outcome
<1>6. Conserved'
  <2>1. \A q \in Pipes : written'[q] >= written[q]
    BY <1>1 DEF RunInv, TypeOK
  <2>2. ~InHand /\ ~InHand' /\ written' \in [Pipes -> Nat]
    BY <1>1 DEF InHand, RunInv, TypeOK
  <2>3. QED
    BY <1>1, <2>1, <2>2, ConservedFrame DEF RunInv, readers, sinks, outcome
<1>7. Drained'
  BY <1>1, DrainedFrame DEF RunInv, PastLoop, readers, outcome
<1>8. QED
  BY <1>4, <1>5, <1>6, <1>7

LEMMA JoinInv ==
    ASSUME RunInv, BuildJoin
    PROVE  TypeOK' /\ Phases' /\ Conserved' /\ Drained'
<1>1. /\ pc = "final" /\ pc' = "reap" /\ result = "none"
      /\ UNCHANGED <<spec, machine, outside, readers, cur, status, flags, eof_seen,
                     sinks, outcome>>
  BY DEF RunInv, Phases, BuildJoin
<1>2. TypeOK'
  BY <1>1 DEF RunInv, TypeOK, machine, outside, readers, flags, sinks, outcome
<1>3. Phases'
  BY <1>1 DEF Phases, outcome
<1>4. Conserved'
  <2>1. \A q \in Pipes : written'[q] >= written[q]
    BY <1>1 DEF RunInv, TypeOK, machine
  <2>2. ~InHand /\ ~InHand' /\ written' \in [Pipes -> Nat]
    BY <1>1 DEF InHand, RunInv, TypeOK, machine
  <2>3. QED
    BY <1>1, <2>1, <2>2, ConservedFrame DEF RunInv, machine, readers, sinks, outcome
<1>5. Drained'
  BY <1>1, DrainedFrame DEF RunInv, PastLoop, machine, readers, outcome
<1>6. QED
  BY <1>2, <1>3, <1>4, <1>5

LEMMA ReapInv ==
    ASSUME RunInv, BuildReap
    PROVE  TypeOK' /\ Phases' /\ Conserved' /\ Drained'
<1>1. /\ pc = "reap" /\ pc' = "done" /\ result = "none" /\ result' = "ok"
      /\ UNCHANGED <<spec, machine, outside, readers, cur, flags, eof_seen, sinks,
                     group_dead>>
  BY DEF RunInv, Phases, BuildReap, Return
<1>2. status' \in {"none", "exited", "killed"}
  BY DEF RunInv, TypeOK, BuildReap, Wait, Dead, Procs
<1>3. TypeOK'
  BY <1>1, <1>2 DEF RunInv, TypeOK, machine, outside, readers, flags, sinks
<1>4. Phases'
  BY <1>1 DEF Phases
<1>5. Conserved'
  <2>1. \A q \in Pipes : written'[q] >= written[q]
    BY <1>1 DEF RunInv, TypeOK, machine
  <2>2. ~InHand /\ ~InHand' /\ written' \in [Pipes -> Nat]
    BY <1>1 DEF InHand, RunInv, TypeOK, machine
  <2>3. QED
    BY <1>1, <2>1, <2>2, ConservedFrame DEF RunInv, machine, readers, sinks
<1>6. Drained'
  BY <1>1, DrainedFrame DEF RunInv, PastLoop, machine, readers
<1>7. QED
  BY <1>3, <1>4, <1>5, <1>6

\* A tree that has been killed neither forks nor recovers.
LEMMA MachineTree ==
    ASSUME RunInv, Machine
    PROVE  TreeDoomed'
<1>1. UNCHANGED <<doomed, pc, cancelled, timed_out, result>>
  BY MachineFrame DEF flags, outcome
<1>2. ASSUME NEW parent \in Procs, NEW child \in Helpers, Fork(parent, child)
      PROVE  TreeDoomed'
  <2>1. Running(parent) /\ parent \notin doomed /\ proc[child] = "unborn"
    BY <1>2 DEF Fork
  <2>2. \A p \in Procs : proc'[p] # "unborn" \/ proc'[p] = proc[p]
    BY <1>2 DEF Fork, RunInv, TypeOK, Procs
  <2>3. \A p \in group : p # child /\ proc'[p] = proc[p]
    BY <1>2, <2>1 DEF Fork, RunInv, TypeOK, Procs, TreeDoomed
  <2>4. CASE parent \in group
    <3>1. /\ pc # "spawn" /\ result # "spawn_error"
          /\ ~cancelled /\ ~timed_out /\ result # "wait_error"
      BY <2>1, <2>4 DEF RunInv, TreeDoomed
    <3>2. group' = group \cup {child} /\ proc'[child] = "running"
      BY <1>2, <2>4 DEF Fork, RunInv, TypeOK, Procs
    <3>3. QED
      BY <1>1, <2>3, <3>1, <3>2 DEF RunInv, TreeDoomed
  <2>5. CASE parent \notin group
    <3>1. group' = group
      BY <1>2, <2>5 DEF Fork
    <3>2. QED
      BY <1>1, <2>3, <3>1 DEF RunInv, TreeDoomed, Running
  <2>6. QED
    BY <2>4, <2>5
<1>3. ASSUME group' \subseteq group, \A p \in group : proc'[p] = proc[p] \/ Dead(p)'
      PROVE  TreeDoomed'
  BY <1>1, <1>3 DEF RunInv, TreeDoomed, Running, Dead
<1>4. CASE \E h \in Helpers : LeaveGroup(h)
  BY <1>3, <1>4 DEF LeaveGroup
<1>5. CASE \E p \in Procs, q \in Pipes : Write(p, q) \/ ClosePipe(p, q)
  BY <1>3, <1>5 DEF Write, ClosePipe
<1>6. ASSUME NEW p \in Procs, NEW how \in {"exited", "killed"}, End(p, how)
      PROVE  TreeDoomed'
  BY <1>3, <1>6 DEF End, Dead, RunInv, TypeOK
<1>7. QED
  BY <1>2, <1>4, <1>5, <1>6 DEF Machine, Exit, Die

\* Of the steps of the runner the spawn and the kills matter.
LEMMA RunnerTree ==
    ASSUME RunInv, BuildRunner
    PROVE  TreeDoomed'
<1>1. result = "none" \/ pc = "done"
  BY DEF RunInv, Phases
<1>2. CASE BuildSpawnFails
  BY <1>1, <1>2 DEF BuildSpawnFails, SpawnFails, Return, RunInv, Phases, TreeDoomed,
     machine, flags
<1>3. CASE BuildSpawn
  <2>1. /\ ~cancelled' /\ ~timed_out' /\ result' = "none" /\ pc' = "poll"
        /\ group' = {Leader} /\ proc'[Leader] = "running"
    BY <1>1, <1>3 DEF BuildSpawn, RunInv, TreeDoomed, TypeOK, Procs, flags, outcome
  <2>2. QED
    BY <2>1 DEF TreeDoomed
<1>4. CASE BuildPollFails
  <2>1. /\ KillGroup /\ UNCHANGED <<proc, group>> /\ pc' = "done"
        /\ result' = "wait_error"
    BY <1>4 DEF BuildPollFails, PollFails, Return
  <2>2. QED
    BY <2>1, KillGroupDooms DEF RunInv, TreeDoomed
<1>5. CASE BuildWatch
  <2>1. UNCHANGED <<proc, group, result>> /\ pc' = "recv" /\ result = "none"
    BY <1>5 DEF BuildWatch, RunInv, Phases, outcome
  <2>2. CASE KillGroup
    BY <2>1, <2>2, KillGroupDooms DEF RunInv, TreeDoomed
  <2>3. CASE UNCHANGED <<doomed, cancelled, timed_out>>
    BY <2>1, <2>3 DEF RunInv, TreeDoomed, Running
  <2>4. QED
    BY <1>5, <2>2, <2>3 DEF BuildWatch
<1>6. CASE \/ Poll \/ Receive \/ ReceiveTimeout \/ Disconnected \/ Push \/ Check
           \/ BuildJoin \/ BuildReap \/ BuildReapFails
  <2>1. /\ UNCHANGED <<proc, group, doomed, cancelled, timed_out>>
        /\ pc' # "spawn" /\ result' \in {result, "ok", "reap_error"} /\ result = "none"
    BY <1>6 DEF Poll, Receive, NextFor, ReceiveTimeout, Disconnected, Push, Check,
       BuildJoin, BuildReap, BuildReapFails, ReapFails, Return, machine, flags, outcome,
       RunInv, Phases
  <2>2. QED
    BY <2>1 DEF RunInv, TreeDoomed, Running
<1>7. QED
  BY <1>2, <1>3, <1>4, <1>5, <1>6 DEF BuildRunner

\* What a run of make may do, and what goes on after it.
RunnerStep ==
    Machine \/ Outside \/ BuildRunner \/ (\E q \in Pipes : Reader(q)) \/ UNCHANGED vars

LEMMA RunnerStepInv ==
    ASSUME RunInv, RunnerStep
    PROVE  RunInv'
<1>1. TypeOK' /\ Phases' /\ Conserved' /\ Drained'
  BY SharedSteps, SharedInv, SpawnInv, WatchInv, JoinInv, ReapInv DEF RunnerStep, Own, Next
<1>2. TreeDoomed'
  <2>1. ASSUME UNCHANGED <<machine, pc, flags, outcome>> PROVE TreeDoomed'
    BY <2>1 DEF RunInv, TreeDoomed, Running, machine, flags, outcome
  <2>2. ASSUME NEW q \in Pipes, Reader(q) PROVE TreeDoomed'
    BY <2>1, <2>2, ReaderFrame
  <2>3. CASE Outside
    BY <2>1, <2>3, OutsideFrame
  <2>4. CASE UNCHANGED vars
    BY <2>1, <2>4 DEF vars
  <2>5. QED
    BY <2>2, <2>3, <2>4, MachineTree, RunnerTree DEF RunnerStep
<1>3. (cancelled => cancel)'
  <2>1. CASE Machine
    BY <2>1, MachineFrame DEF RunInv, flags, outside
  <2>2. CASE Outside
    BY <2>2, OutsideFrame DEF RunInv, flags, Outside, Cancel, Deadline, GraceElapses
  <2>3. ASSUME NEW q \in Pipes, Reader(q) PROVE (cancelled => cancel)'
    BY <2>3, ReaderFrame DEF RunInv, flags, outside
  <2>4. CASE BuildRunner
    BY <2>4 DEF RunInv, BuildRunner, BuildSpawnFails, SpawnFails, BuildSpawn,
       BuildPollFails, PollFails, Poll, BuildWatch, Receive, ReceiveTimeout,
       Disconnected, Push, Check, BuildJoin, BuildReap, BuildReapFails, ReapFails,
       outside, flags
  <2>5. CASE UNCHANGED vars
    BY <2>5 DEF RunInv, vars, outside, flags
  <2>6. QED
    BY <2>1, <2>2, <2>3, <2>4, <2>5 DEF RunnerStep
<1>4. QED
  BY <1>1, <1>2, <1>3 DEF RunInv

-----------------------------------------------------------------------------
(* The invariant of a build. *)

InDatabase == build_stage \in {"database", "db_error"} \cup DatabaseSteps
AfterScan == build_stage \in {"finish", "ok", "err"}

\* The status is given once, after the call of make, and on the evidence for it.
Earned ==
    /\ build_status \in {"none", "ok", "failed", "cancelled"}
    /\ build_status # "none" => result = "ok" /\ build_stage \notin {"start", "run"}
    /\ build_status = "ok" => status = "exited" /\ ~cancelled /\ ~timed_out
    /\ build_status = "cancelled" => cancelled

\* Only a build that succeeded gets to the database step, and nothing has been found
\* before the last scan of the tree.
Reported ==
    /\ InDatabase => build_status = "ok"
    /\ ~AfterScan => artifacts = {}
    /\ artifacts \subseteq Present(tree)
    /\ \A x \in artifacts : tree[x] = "fresh" \/ x \in project.declared
    /\ StoppedBuildIsLeftAlone

BuildInv == RunInv /\ Earned /\ Reported

LEMMA InitBuild == BuildInit => BuildInv
<1> SUFFICES ASSUME BuildInit PROVE BuildInv
  OBVIOUS
<1>1. TypeOK /\ Phases /\ Conserved /\ Drained
  BY InitTypeOK, InitPhases, InitConserved, InitDrained DEF BuildInit
<1>2. TreeDoomed /\ (cancelled => cancel)
  BY DEF BuildInit, Init, TreeDoomed
<1>3. Earned /\ Reported
  BY DEF BuildInit, Earned, Reported, InDatabase, DatabaseSteps, StoppedBuildIsLeftAlone
<1>4. QED
  BY <1>1, <1>2, <1>3 DEF BuildInv, RunInv

\* A step of the build itself leaves the runner alone.
LEMMA QuietRun ==
    ASSUME BuildInv, UNCHANGED vars
    PROVE  RunInv' /\ UNCHANGED <<result, status, cancelled, timed_out>>
<1>1. RunInv'
  BY RunnerStepInv DEF BuildInv, RunnerStep
<1>2. QED
  BY <1>1 DEF vars, outcome, flags

\* Steps that change neither the tree nor what is known of the build.
LEMMA StageMoves ==
    ASSUME BuildInv, UNCHANGED <<vars, results>>,
           build_stage' \notin {"start", "run"} \/ build_status = "none",
           InDatabase' => build_status = "ok",
           AfterScan => AfterScan'
    PROVE  BuildInv'
<1>1. RunInv' /\ UNCHANGED <<result, status, cancelled, timed_out>>
  BY QuietRun
<1>2. Earned'
  BY <1>1 DEF BuildInv, Earned, results
<1>3. Reported'
  BY DEF BuildInv, Reported, StoppedBuildIsLeftAlone, Present, results
<1>4. QED
  BY <1>1, <1>2, <1>3 DEF BuildInv

LEMMA OutcomeBuild ==
    ASSUME BuildInv, Outcome
    PROVE  BuildInv'
<1>1. RunInv' /\ UNCHANGED <<result, status, cancelled, timed_out>>
  BY QuietRun DEF Outcome
<1>2. PICK code \in (IF status = "exited" THEN {0, 1} ELSE {2}) :
        /\ build_status' = StatusOf(code)
        /\ build_stage' \in AfterMake(build_status')
        /\ left' = [tree |-> tree', cdb |-> cdb]
  BY DEF Outcome
<1>3. build_stage = "run" /\ result = "ok" /\ cdb' = cdb /\ artifacts' = artifacts
  BY DEF Outcome, RunOver
<1>4. /\ build_status' \in {"ok", "failed", "cancelled"}
      /\ build_status' = "ok" => status = "exited" /\ ~cancelled /\ ~timed_out
      /\ build_status' = "cancelled" => cancelled
  BY <1>2 DEF StatusOf
<1>5. /\ build_stage' \in {"database", "scan", "report"}
      /\ build_stage' = "database" => build_status' = "ok"
  BY <1>2 DEF AfterMake
<1>6. Earned'
  BY <1>1, <1>3, <1>4, <1>5 DEF Earned
<1>7. Reported'
  BY <1>2, <1>3, <1>5 DEF BuildInv, Reported, InDatabase, AfterScan, DatabaseSteps,
     StoppedBuildIsLeftAlone
<1>8. QED
  BY <1>1, <1>6, <1>7 DEF BuildInv

\* The database step rebuilds the tree of a build that has succeeded and has reported
\* nothing yet.
LEMMA DatabaseBuild ==
    ASSUME BuildInv, InDatabase, DatabaseFrame,
           build_stage' \in DatabaseSteps \cup {"db_error", "scan", "err"}
    PROVE  BuildInv'
<1>1. /\ RunInv' /\ UNCHANGED <<result, status, cancelled, timed_out>>
      /\ UNCHANGED <<project, left, build_status, artifacts>>
  BY QuietRun DEF DatabaseFrame
<1>2. build_status = "ok" /\ artifacts = {}
  BY DEF BuildInv, Reported, InDatabase, AfterScan, DatabaseSteps
<1>3. Earned'
  BY <1>1, <1>2 DEF BuildInv, Earned, DatabaseSteps
<1>4. Reported'
  BY <1>1, <1>2 DEF Reported, StoppedBuildIsLeftAlone
<1>5. QED
  BY <1>1, <1>3, <1>4 DEF BuildInv

LEMMA ScanBuild ==
    ASSUME BuildInv, Scan
    PROVE  BuildInv'
<1>1. /\ RunInv' /\ UNCHANGED <<result, status, cancelled, timed_out>>
      /\ UNCHANGED <<project, tree, left, cdb, build_status>> /\ build_stage' = "finish"
      /\ artifacts' = IF build_status = "ok" THEN Discover(tree) ELSE {}
  BY QuietRun DEF Scan
<1>2. Earned'
  BY <1>1 DEF BuildInv, Earned
<1>3. /\ artifacts' \subseteq Present(tree)
      /\ \A x \in artifacts' : tree[x] = "fresh" \/ x \in project.declared
  BY <1>1 DEF Discover, Present
<1>4. Reported'
  BY <1>1, <1>3 DEF BuildInv, Reported, InDatabase, AfterScan, DatabaseSteps,
     StoppedBuildIsLeftAlone, Present
<1>5. QED
  BY <1>1, <1>2, <1>4 DEF BuildInv

LEMMA ExecuteBuild ==
    ASSUME BuildInv, Execute
    PROVE  BuildInv'
<1> USE DEF GoOn, GiveUpBuild
<1>1. CASE Start
  BY <1>1, StageMoves DEF Start, BuildInv, Earned, InDatabase, DatabaseSteps, AfterScan
<1>2. CASE Fail
  BY <1>2, StageMoves DEF Fail, InDatabase, DatabaseSteps, AfterScan
<1>3. CASE Outcome
  BY <1>3, OutcomeBuild
<1>4. CASE Report
  BY <1>4, StageMoves DEF Report, InDatabase, DatabaseSteps, AfterScan
<1>5. CASE ChooseProducer
  BY <1>5, DatabaseBuild DEF ChooseProducer, InDatabase, DatabaseSteps
<1>6. CASE ShimInstall
  BY <1>6, DatabaseBuild DEF ShimInstall, InDatabase, DatabaseSteps
<1>7. CASE CleanStep
  BY <1>7, DatabaseBuild DEF CleanStep, InDatabase, DatabaseSteps
<1>8. CASE Bear
  BY <1>8, DatabaseBuild DEF Bear, InDatabase, DatabaseSteps
<1>9. CASE Shim
  BY <1>9, DatabaseBuild DEF Shim, InDatabase, DatabaseSteps
<1>10. CASE DatabaseError
  BY <1>10, DatabaseBuild DEF DatabaseError, InDatabase
<1>11. CASE NoteDatabaseError
  BY <1>11, DatabaseBuild DEF NoteDatabaseError, AfterDatabaseError, InDatabase
<1>12. CASE Scan
  BY <1>12, ScanBuild
<1>13. CASE Finish
  BY <1>13, StageMoves DEF Finish, InDatabase, DatabaseSteps, AfterScan
<1>14. QED
  BY <1>1, <1>2, <1>3, <1>4, <1>5, <1>6, <1>7, <1>8, <1>9, <1>10, <1>11, <1>12, <1>13
  DEF Execute

\* A step of the run, before there is a status.
LEMMA RunBuild ==
    ASSUME BuildInv, RunnerStep, build_stage = "run", UNCHANGED <<build_stage, results>>
    PROVE  BuildInv'
<1>1. RunInv'
  BY RunnerStepInv DEF BuildInv
<1>2. build_status = "none"
  BY DEF BuildInv, Earned
<1>3. QED
  BY <1>1, <1>2 DEF BuildInv, Earned, Reported, InDatabase, AfterScan, results,
     StoppedBuildIsLeftAlone, Present

\* What is left of the run changes nothing that the build has taken from it.
LEMMA AftermathBuild ==
    ASSUME BuildInv, BuildAftermath
    PROVE  BuildInv'
<1>1. RunInv'
  BY RunnerStepInv DEF BuildInv, BuildAftermath, RunnerStep
<1>2. UNCHANGED <<result, status, cancelled, timed_out>>
  BY MachineFrame, ReaderFrame DEF BuildAftermath, flags, outcome
<1>3. QED
  BY <1>1, <1>2 DEF BuildInv, Earned, Reported, BuildAftermath, backend, results,
     InDatabase, AfterScan, StoppedBuildIsLeftAlone, Present

LEMMA NextBuild == BuildInv /\ [BuildNext]_buildVars => BuildInv'
<1> SUFFICES ASSUME BuildInv, [BuildNext]_buildVars PROVE BuildInv'
  OBVIOUS
<1>1. CASE StreamChunk
  <2>1. RunnerStep /\ build_stage = "run" /\ UNCHANGED <<build_stage, results>>
    BY <1>1 DEF StreamChunk, RunnerStep, BuildRunner
  <2>2. QED
    BY <2>1, RunBuild
<1>2. CASE MakeStep
  <2>1. RunnerStep /\ build_stage = "run" /\ UNCHANGED <<build_stage, results>>
    BY <1>2 DEF MakeStep, RunnerStep, backend
  <2>2. QED
    BY <2>1, RunBuild
<1>3. CASE UNCHANGED buildVars
  <2>1. UNCHANGED <<vars, results, build_stage>>
    BY <1>3 DEF buildVars, backend
  <2>2. QED
    BY <2>1, StageMoves DEF BuildInv, Earned, Reported, InDatabase, AfterScan
<1>4. QED
  BY <1>1, <1>2, <1>3, ExecuteBuild, AftermathBuild DEF BuildNext, BuildTerminating

\* Where units and processes are, on what the status rests and what the tree is like,
\* in every reachable state of a build (backend.rs, process.rs of princess-build).
THEOREM BuildInvariant == BuildSpec => []BuildInv
BY InitBuild, NextBuild, PTL DEF BuildSpec

\* When a cancelled or late command has returned, whoever is left of its group is about
\* to die.
THEOREM KillIsOfTheTree == BuildSpec => []KillReachesTree
<1>1. BuildInv => KillReachesTree
  BY DEF BuildInv, RunInv, TreeDoomed, KillReachesTree
<1>2. QED
  BY <1>1, BuildInvariant, PTL

\* A build is called ok only if make ended by itself with success and all it printed
\* was streamed, and cancelled only if somebody did.
THEOREM StatusRestsOnEvidence == BuildSpec => []StatusIsEarned
<1>1. BuildInv => StatusIsEarned
  <2> SUFFICES ASSUME BuildInv PROVE StatusIsEarned
    OBVIOUS
  <2>1. ASSUME build_status = "ok" PROVE pushed = written
    <3>1. result = "ok"
      BY <2>1 DEF BuildInv, Earned
    <3>2. pushed \in [Pipes -> Nat] /\ written \in [Pipes -> Nat]
      BY DEF BuildInv, RunInv, TypeOK
    <3>3. SendersGone /\ chan = <<>> /\ pc = "done"
      BY <3>1 DEF BuildInv, RunInv, Drained, PastLoop, Phases
    <3>4. \A q \in Pipes : sent[q] = pumped[q] /\ pumped[q] = written[q]
      BY <3>1, <3>3 DEF BuildInv, RunInv, Drained, SendersGone
    <3>5. \A q \in Pipes : sent[q] = pushed[q]
      BY <3>1, <3>3 DEF BuildInv, RunInv, Conserved, InHand
    <3>6. QED
      BY <3>2, <3>4, <3>5
  <2>2. QED
    BY <2>1 DEF BuildInv, Earned, RunInv, TreeDoomed, StatusIsEarned
<1>2. QED
  BY <1>1, BuildInvariant, PTL

\* What build.finished reports is on disk, and a build that did not succeed leaves the
\* tree and the database as make left them.
THEOREM TreeIsAsReported == BuildSpec => []TreeIsReported
<1>1. BuildInv => TreeIsReported
  BY DEF BuildInv, Reported, TreeIsReported, ReportedIsThere, StoppedBuildIsLeftAlone
<1>2. QED
  BY <1>1, BuildInvariant, PTL

=============================================================================
