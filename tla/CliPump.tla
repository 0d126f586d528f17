------------------------------ MODULE CliPump ------------------------------
(***************************************************************************)
(* One build or run of the command line (build.rs and run.rs of            *)
(* princess-cli): the loop that selects between two pipes, the child, an   *)
(* idle timer, a deadline and --cancel-after-ms.  It is a pump of its own, *)
(* not that of princess-run or princess-build.                             *)
(*                                                                         *)
(* The child writes lines of two units each, on standard output; standard  *)
(* error is only open or closed.  Every line is one that the engine looks  *)
(* for: a diagnostic of a build, a fault of a run.                         *)
(***************************************************************************)
EXTENDS Naturals, Sequences, FiniteSets

CONSTANTS
    MaxUnits,   \* bound on the units written
    MaxFaults   \* MAX_FAULT_EVENTS, 16 in the code

VARIABLE job

Ops == {"build", "run"}
Streams == {"out", "err"}

Init ==
    \E op \in Ops, helper, outside, timer, cancelAfter \in BOOLEAN :
        /\ cancelAfter => op = "run"
        /\ op = "run" => timer                  \* a run always has a deadline
        /\ job = [kind |-> "pump", op |-> op, pc |-> "pump",
                  leader |-> "up", code |-> "none", helper |-> helper, outside |-> outside,
                  written |-> 0, whole |-> {}, read |-> 0, shown |-> 0, open |-> Streams,
                  status |-> FALSE, grace |-> FALSE, deadline |-> timer, timed |-> FALSE,
                  cancelAfter |-> cancelAfter, token |-> FALSE, killed |-> FALSE,
                  found |-> <<>>, triple |-> FALSE, result |-> "none"]

Pumping == job.kind = "pump" /\ job.pc = "pump"
Unread == job.written - job.read
Writers == job.leader = "up" \/ job.helper \/ job.outside

-----------------------------------------------------------------------------
(* The processes.  `outside' left the group and keeps both pipes. *)

\* A line in two writes, or in one.
Write ==
    /\ job.kind = "pump" /\ job.pc \in {"pump", "final"} /\ Writers
    /\ \E n \in 1..2 :
         /\ job.written + n <= MaxUnits
         /\ n = 2 => job.written % 2 = 0
         /\ job' = [job EXCEPT !.written = @ + n,
                               !.whole = IF n = 2 THEN @ \cup {job.written \div 2 + 1} ELSE @]

\* The guest of a run may reset for good: QEMU then exits with 0 and says so in its log.
Exit ==
    /\ job.kind = "pump" /\ job.leader = "up"
    /\ \E code \in {"0", "1", "signal"}, triple \in BOOLEAN :
         /\ triple => job.op = "run" /\ code = "0"
         /\ job' = [job EXCEPT !.leader = "zombie", !.code = code, !.triple = triple]

HelperEnds ==
    /\ job.kind = "pump" /\ job.helper
    /\ job' = [job EXCEPT !.helper = FALSE]

\* kill_group_and_wait: SIGTERM, which QEMU answers with exit code 0, then SIGKILL.
KillLeaderOnly(j, code) ==    \* mutant
    [j EXCEPT !.killed = TRUE, !.leader = IF @ = "up" THEN "zombie" ELSE @,
              !.code = IF j.leader = "up" THEN code ELSE @]
KillGroup(j, code) ==
    [j EXCEPT !.killed = @ \/ j.leader = "up",
              !.leader = IF @ = "up" THEN "zombie" ELSE @,
              !.code = IF j.leader = "up" THEN code ELSE @,
              !.helper = FALSE]
Reap(j) == [j EXCEPT !.leader = "reaped", !.status = TRUE, !.grace = TRUE]
KillCodes == {"0", "signal"}

-----------------------------------------------------------------------------
(* What comes out of the chunker is shown, and looked at line by line. *)

Lines == 1..(MaxUnits \div 2)
\* A line of the chunk, or the first half of one: the marker is in the first half.
Seen(from, to) ==
    [k \in Lines |->
        IF 2 * k - 1 > from /\ 2 * k <= to THEN "line"
        ELSE IF 2 * k - 1 > from /\ 2 * k - 1 = to THEN "half"
        ELSE "nothing"]

Observe(j, seen) ==
    LET hits == SelectSeq([k \in Lines |-> <<k, seen[k]>>], LAMBDA h : h[2] # "nothing")
        room == IF Len(j.found) >= MaxFaults THEN 0 ELSE MaxFaults - Len(j.found)
    IN  IF j.op = "run" /\ Len(hits) > room THEN j.found \o SubSeq(hits, 1, room)
        ELSE j.found \o hits

Show(j, to) == [j EXCEPT !.found = Observe(j, Seen(j.shown, to)), !.shown = to]

LastNewline(j) == IF j.read - (j.read % 2) > j.shown THEN j.read - (j.read % 2) ELSE j.shown
take_available(j) == Show(j, j.read)
TakeAnything(j) == take_available(j)    \* mutant
take_lines(j) == Show(j, LastNewline(j))

-----------------------------------------------------------------------------
(* The loop. *)

LoopEnds == (job.status /\ job.open = {})

\* After every branch: a token set from outside.  A run waits for what it has killed.
BuildAfter(j, code) ==
    IF j.token THEN [KillGroup(j, code) EXCEPT !.pc = "final"] ELSE j
RunAfter(j, code) ==
    IF ~j.status /\ (j.token \/ j.timed) THEN Reap(KillGroup(j, code)) ELSE j
After(j, code) == IF j.op = "build" THEN BuildAfter(j, code) ELSE RunAfter(j, code)
Branch(j) == \E code \in KillCodes : job' = After(j, code)

ReadOut ==
    /\ Pumping /\ ~LoopEnds /\ "out" \in job.open /\ Unread > 0
    /\ \E n \in 1..Unread : Branch(take_lines([job EXCEPT !.read = @ + n]))

\* The end of a pipe: nobody holds it.
EndOfPipe ==
    /\ Pumping /\ ~LoopEnds /\ ~Writers
    /\ \E pipe \in job.open :
         /\ pipe = "out" => Unread = 0
         /\ Branch([(IF pipe = "out" THEN take_available(job) ELSE job)
                       EXCEPT !.open = @ \ {pipe}])

Wait ==
    /\ Pumping /\ ~LoopEnds /\ ~job.status /\ job.leader = "zombie"
    /\ Branch(Reap(job))

\* Nothing has come for 120 ms.
Idle ==
    /\ Pumping /\ ~LoopEnds /\ ("out" \in job.open => Unread = 0)
    /\ Branch(take_available(job))

Deadline ==
    /\ Pumping /\ ~LoopEnds /\ job.deadline
    /\ \E code \in KillCodes :
         Branch(KillGroup([job EXCEPT !.deadline = FALSE, !.timed = TRUE], code))

\* --cancel-after-ms sets the token, whether or not the machine still runs.
CancelAfter ==
    /\ Pumping /\ ~LoopEnds /\ job.cancelAfter
    /\ \E code \in KillCodes :
         Branch(KillGroup([job EXCEPT !.cancelAfter = FALSE, !.token = TRUE], code))

SetToken ==
    /\ job.kind = "pump" /\ job.pc \in {"pump", "final"} /\ ~job.token
    /\ job' = [job EXCEPT !.token = TRUE]

\* The loop is over, or DRAIN_GRACE is: somebody else holds a pipe.
LeaveLoop ==
    /\ Pumping /\ (LoopEnds \/ job.grace)
    /\ job' = [job EXCEPT !.pc = "final"]

-----------------------------------------------------------------------------
(* After the loop. *)

BuildStatus(j) ==
    IF j.token THEN "cancelled"
    ELSE IF j.timed THEN "failed"
    ELSE IF j.code = "0" THEN "ok" ELSE "failed"

\* ExitFacts and classify_exit: a deadline comes before a token here.
ByExitCode(j) == IF j.code = "0" THEN "guest-shutdown" ELSE "killed"    \* mutant
Reason(j) ==
    IF j.token /\ ~j.timed THEN "killed"
    ELSE IF j.timed THEN "timeout"
    ELSE IF j.triple THEN "triple-fault"
    ELSE IF j.code = "0" THEN "guest-shutdown" ELSE "killed"

\* What is left in the chunker is shown, the child is reaped, the group of a run is
\* killed once more; then the terminal event.
Finish ==
    /\ job.kind = "pump" /\ job.pc = "final" /\ job.leader # "up"
    /\ \E code \in KillCodes :
         LET drained == take_available(job)
             reaped == [drained EXCEPT !.leader = "reaped", !.status = TRUE]
         IN  job' = IF job.op = "build"
                    THEN [reaped EXCEPT !.pc = "done", !.result = BuildStatus(job)]
                    ELSE [KillGroup(reaped, code) EXCEPT !.pc = "done", !.result = Reason(job)]

\* The sink refuses an event: the error is returned, and the child, dropped, is killed.
SinkFails ==
    /\ job.kind = "pump" /\ job.pc \in {"pump", "final"}
    /\ job' = [job EXCEPT !.pc = "failed", !.leader = IF @ = "up" THEN "zombie" ELSE @,
                          !.code = IF job.leader = "up" THEN "signal" ELSE @,
                          !.killed = @ \/ job.leader = "up"]

Processes == Write \/ Exit \/ HelperEnds
Loop == ReadOut \/ EndOfPipe \/ Wait \/ Idle \/ Deadline \/ CancelAfter \/ LeaveLoop
Next == Processes \/ Loop \/ SetToken \/ Finish \/ SinkFails

Spec == Init /\ [][Next]_job

-----------------------------------------------------------------------------
(* Properties. *)

Ended == job.kind = "pump" /\ job.pc = "done"
Drained == Ended /\ job.open = {}    \* neither cut off by the grace nor by a cancel

\* Whatever the order of the branches: when both pipes have come to their end, every
\* unit written has been shown, and every line written in one piece has been looked at
\* as one, once, unless MAX_FAULT_EVENTS were found before it.
NothingIsMissed ==
    Drained =>
        /\ job.shown = job.written
        /\ \A k \in job.whole :
             Cardinality({i \in DOMAIN job.found : job.found[i][1] = k}) =
                 IF job.op = "run" /\ Len(job.found) = MaxFaults
                    /\ \A i \in DOMAIN job.found : job.found[i][1] < k
                 THEN 0 ELSE 1
        /\ \A k \in job.whole, i \in DOMAIN job.found :
             job.found[i][1] = k => job.found[i][2] = "line"

\* A success is one of the program's own: nobody has killed it, and it said so.
SuccessIsOwn ==
    Ended /\ job.result \in {"ok", "guest-shutdown"} =>
        job.code = "0" /\ ~job.killed /\ ~job.timed /\ ~job.token

\* A call that returns has reaped its child; a run, and a build stopped by its deadline,
\* leave nobody of the group behind.
GroupIsGone ==
    Ended => /\ job.leader = "reaped"
             /\ job.op = "run" \/ job.timed => ~job.helper

PumpIsFaithful == NothingIsMissed /\ SuccessIsOwn /\ GroupIsGone

\* Not so: the deadline and --cancel-after-ms also fire while the pipes of a machine
\* that has stopped by itself are drained, and are then reported as the reason.
ReasonIsEarned ==
    Ended /\ job.result \in {"timeout", "cancelled"} => job.killed

\* Not so: a line that pauses in the middle is shown in two pieces, and looked at in two.
HalvesAreJoined ==
    Drained => \A i \in DOMAIN job.found : job.found[i][2] = "line"

\* Not so: an event that is refused ends the call, and only the leader is killed.
ErrorLeavesNobody ==
    job.kind = "pump" /\ job.pc = "failed" => ~job.helper

=============================================================================
