------------------------------- MODULE Shell -------------------------------
(***************************************************************************)
(* The long commands of the desktop shell and the registry through which   *)
(* they are cancelled: princess:build:start (build_handler.rs), run:start  *)
(* (run_handler.rs), tools:detect (commands.rs, doctor.rs), and op:cancel, *)
(* build:cancel and run:stop, which all go to the OpRegistry (ops.rs).     *)
(* Every command runs on a thread of its own.  The engine behind a build   *)
(* or a run is the part that BuildBackend and RunBackend model: here it    *)
(* starts or does not, and ends some day, or when its CancelToken is set.  *)
(***************************************************************************)
EXTENDS Naturals, FiniteSets

CONSTANTS
    Commands,       \* commands the page sends
    Kind,        \* what each of them is
    MaxCancels   \* bound on the cancels of one id that are told so

Kinds == {"build", "run", "detect"}

ASSUME ShellAssumption ==
    /\ IsFiniteSet(Commands) /\ Kind \in [Commands -> Kinds] /\ MaxCancels \in Nat

VARIABLES
    counter,    \* OpRegistry.counter
    registry,   \* OpRegistry.inner: the ids that are live
    flag,       \* per id, the cancel flag of its OpHandle
    task,       \* per command, its thread
    published,  \* ids under which an event is out: the page knows no other
    told        \* history: per id, how often a cancel was answered "Cancelled"

shellVars == <<counter, registry, flag, task, published, told>>
shared == <<counter, registry, flag>>

Ids == 1 .. Cardinality(Commands)
Points == {"new", "resolved", "numbered", "registered", "working", "aborting",
           "ended", "finished", "replied"}
Works == {"idle", "running", "exited", "killed", "ok", "err", "panic", "cancelled",
          "timeout"}

ShellInit ==
    /\ counter = 0 /\ registry = {} /\ flag = [i \in Ids |-> FALSE]
    /\ task = [c \in Commands |-> [pc |-> "new", id |-> 0, work |-> "idle", late |-> FALSE]]
    /\ published = {} /\ told = [i \in Ids |-> 0]

Goto(c, point) == task' = [task EXCEPT ![c].pc = point]
Publish(i) == published' = published \cup {i}

-----------------------------------------------------------------------------
(* What all three have in common. *)

\* Project or workspace root: an error is answered before anything is registered.
Resolve(c) ==
    /\ task[c].pc = "new"
    /\ Goto(c, "resolved") \/ Goto(c, "replied")
    /\ UNCHANGED <<shared, published, told>>

\* register: the number first, the entry under the lock later.
TakeNumber(c) ==
    /\ task[c].pc = "resolved"
    /\ counter' = counter + 1
    /\ task' = [task EXCEPT ![c].pc = "numbered", ![c].id = counter + 1]
    /\ UNCHANGED <<registry, flag, published, told>>

Register(c) ==
    /\ task[c].pc = "numbered"
    /\ registry' = registry \cup {task[c].id}
    /\ Goto(c, "registered")
    /\ UNCHANGED <<counter, flag, published, told>>

\* The log line that tells the page the id.
Hello(c) ==
    /\ task[c].pc = "registered"
    /\ Publish(task[c].id)
    /\ Goto(c, "working")
    /\ UNCHANGED <<shared, told>>

\* finish comes before any outcome is looked at.
FinishIfOk(c) == IF task[c].work = "ok" THEN registry \ {task[c].id} ELSE registry \* mutant
FinishOp(c) == registry \ {task[c].id}

Finish(c) ==
    /\ task[c].pc = "ended"
    /\ registry' = FinishOp(c)
    /\ Goto(c, "finished")
    /\ UNCHANGED <<counter, flag, published, told>>

Reply(c) ==
    /\ task[c].pc = "finished"
    /\ Goto(c, "replied")
    /\ UNCHANGED <<shared, published, told>>

-----------------------------------------------------------------------------
(* The engine of a build or a run, in spawn_blocking. *)

\* The CancelToken of the engine is made in the handler, cloned into the task
\* and given to nobody else.
Token(c) == FALSE

\* plan_run or the engine's own checks fail, or the first event goes out.
EngineStarts(c) ==
    /\ Kind[c] # "detect" /\ task[c].pc = "working" /\ task[c].work = "idle"
    /\ \/ task' = [task EXCEPT ![c].work = "running"]
       \/ task' = [task EXCEPT ![c].work = "err", ![c].pc = "ended"]
    /\ UNCHANGED <<shared, published, told>>

EngineEnds(c) ==
    /\ Kind[c] # "detect" /\ task[c].pc = "working" /\ task[c].work = "running"
    /\ \E how \in {"ok", "err", "panic"} :
         task' = [task EXCEPT ![c].work = how, ![c].pc = "ended"]
    /\ UNCHANGED <<shared, published, told>>

-----------------------------------------------------------------------------
(* The doctor of tools:detect: a child raced against the flag and a clock. *)

SpawnDoctor(c) ==
    /\ Kind[c] = "detect" /\ task[c].pc = "working" /\ task[c].work = "idle"
    /\ \/ task' = [task EXCEPT ![c].work = "running"]
       \/ task' = [task EXCEPT ![c].work = "err", ![c].pc = "ended"]
    /\ UNCHANGED <<shared, published, told>>

DoctorExits(c) ==
    /\ Kind[c] = "detect" /\ task[c].work = "running"
    /\ task' = [task EXCEPT ![c].work = "exited"]
    /\ UNCHANGED <<shared, published, told>>

ClockRuns(c) ==
    /\ Kind[c] = "detect" /\ task[c].pc \in {"working", "aborting"} /\ ~task[c].late
    /\ task' = [task EXCEPT ![c].late = TRUE]
    /\ UNCHANGED <<shared, published, told>>

\* The first branch of the select: the child has been waited for, or wait fails.
Waited(c) ==
    /\ Kind[c] = "detect" /\ task[c].pc = "working" /\ task[c].work = "exited"
    /\ \E how \in {"ok", "err"} :
         task' = [task EXCEPT ![c].work = how, ![c].pc = "ended"]
    /\ UNCHANGED <<shared, published, told>>

\* The ticker: the future that owns the child is dropped, which kills it.
LeaveChild(c) == task[c].work    \* mutant
KillOnDrop(c) == "killed"

Tick(c) ==
    /\ Kind[c] = "detect" /\ task[c].pc = "working"
    /\ task[c].work \in {"running", "exited"}
    /\ flag[task[c].id] \/ task[c].late
    /\ task' = [task EXCEPT ![c].pc = "aborting", ![c].work = KillOnDrop(c)]
    /\ UNCHANGED <<shared, published, told>>

\* Which of the two it was is asked of the clock, a second time.
ByNeither(c) == "cancelled"    \* mutant
ByClock(c) == IF task[c].late THEN "timeout" ELSE "cancelled"

Classify(c) ==
    /\ task[c].pc = "aborting" /\ task[c].work = "killed"
    /\ task' = [task EXCEPT ![c].pc = "ended", ![c].work = ByClock(c)]
    /\ UNCHANGED <<shared, published, told>>

-----------------------------------------------------------------------------
(* Cancellation. *)

\* OpHandle::cancel: true for the call that flips the flag.
AlwaysFlipped(i) == TRUE    \* mutant
Flipped(i) == ~flag[i]

CancelOutcome(i) ==
    CASE i \notin registry -> "NotFound"
      [] i \in registry /\ Flipped(i) -> "Cancelled"
      [] OTHER -> "AlreadyCancelled"

\* op:cancel, build:cancel and run:stop take the same path, with any id.
Cancel(i) ==
    /\ i \in published /\ told[i] < MaxCancels
    /\ LET out == CancelOutcome(i) IN
         /\ told' = IF out = "Cancelled" THEN [told EXCEPT ![i] = @ + 1] ELSE told
         /\ flag' = IF out = "NotFound" THEN flag ELSE [flag EXCEPT ![i] = TRUE]
    /\ UNCHANGED <<counter, registry, task, published>>

-----------------------------------------------------------------------------
Handler(c) ==
    \/ Resolve(c) \/ TakeNumber(c) \/ Register(c) \/ Hello(c)
    \/ EngineStarts(c) \/ SpawnDoctor(c) \/ Waited(c) \/ Tick(c) \/ Classify(c)
    \/ Finish(c) \/ Reply(c)

Outside ==
    \/ \E c \in Commands : EngineEnds(c) \/ DoctorExits(c) \/ ClockRuns(c)
    \/ \E i \in Ids : Cancel(i)

Done == \A c \in Commands : task[c].pc = "replied"
ShellTerminating == Done /\ UNCHANGED shellVars

ShellNext == (\E c \in Commands : Handler(c)) \/ Outside \/ ShellTerminating

\* The threads of the shell run; an engine whose token is set stops (KillIsEnough
\* of RunProcess), and nothing else about it is certain.
Fairness ==
    \A c \in Commands : WF_shellVars(Handler(c)) /\ WF_shellVars(Token(c) /\ EngineEnds(c))

ShellSpec == ShellInit /\ [][ShellNext]_shellVars /\ Fairness

-----------------------------------------------------------------------------
(* Properties. *)

ShellTypeOK ==
    /\ counter \in 0 .. Cardinality(Commands) /\ registry \subseteq Ids
    /\ flag \in [Ids -> BOOLEAN]
    /\ task \in [Commands -> [pc : Points, id : Ids \cup {0}, work : Works, late : BOOLEAN]]
    /\ published \subseteq Ids /\ told \in [Ids -> Nat]

\* Where an operation is alive: ids are given to one command each, and an id is in
\* the registry from Register to Finish.
Registered(c) == task[c].pc \in {"registered", "working", "aborting", "ended"}
RegistryIsExact ==
    /\ registry = {task[c].id : c \in {d \in Commands : Registered(d)}}
    /\ \A c, d \in Commands : task[c].id = task[d].id /\ task[c].id # 0 => c = d

\* One cancel of an operation is told that it did it, and whoever was told that,
\* or that it was done, was told the truth.  An operation that has answered takes
\* no more: "a late op:cancel reports not found instead of pretending to cancel
\* something that already exited" (ops.rs 12-14).
OneCancelIsTold ==
    \A i \in Ids :
        /\ told[i] <= 1
        /\ flag[i] <=> told[i] = 1

LateCancelIsRefused ==
    [][\A c \in Commands : task[c].pc = "replied" /\ task[c].id # 0 =>
         flag'[task[c].id] = flag[task[c].id]]_shellVars

\* A detection that says cancelled was cancelled, one that says timeout was over
\* its time, and neither leaves the child behind (doctor.rs 296).
AbortIsExplained ==
    \A c \in Commands :
        /\ task[c].pc = "aborting" => task[c].work = "killed"
        /\ task[c].work = "cancelled" => flag[task[c].id]
        /\ task[c].work = "timeout" => task[c].late

\* Who is told of a cancellation, and what is told of an abort, is so.
CancelIsTruthful == OneCancelIsTold /\ AbortIsExplained

\* A detection whose flag is set, or whose time is over, answers whatever the
\* script does.
DetectStops ==
    \A c \in Commands :
        (task[c].work = "running" /\ Kind[c] = "detect"
            /\ (flag[task[c].id] \/ task[c].late)) ~> task[c].pc = "replied"

\* The same of a build or a run: "every long operation must be cancellable"
\* (10-contracts.md line 12), "registered so that princess:op:cancel can cancel
\* this build" (build_handler.rs 116).  The code does not keep this.
CancelStops ==
    \A c \in Commands :
        (task[c].work = "running" /\ flag[task[c].id]) ~> task[c].work # "running"

=============================================================================
