---------------------------- MODULE DebugSession ----------------------------
(***************************************************************************)
(* A debug session of princess-debug: DapBackend (backend.rs) over the DAP *)
(* transport (transport.rs) to a gdb process, the capability layer it uses *)
(* for hardware breakpoints (capability.rs, repl.rs), and the QEMU process *)
(* it boots (qemu.rs).  The engine makes one call at a time; a call is a   *)
(* row of steps, most of which send one request and wait for its response  *)
(* up to a deadline.  The adapter answers when it likes, holds back the    *)
(* answer to attach until configurationDone, and may die.                  *)
(*                                                                         *)
(* Every attach makes a conversation and a machine of its own, numbered by *)
(* the attempt.  A run of the target is numbered too, the attach being the *)
(* first: a stopped event carries the number of the run it ends.           *)
(***************************************************************************)
EXTENDS Naturals, Sequences

CONSTANTS
    MaxAttach,  \* bound on the attempts to attach
    MaxCalls    \* bound on the calls of the engine

ASSUME DebugAssumption == MaxAttach \in Nat \ {0} /\ MaxCalls \in Nat

VARIABLES
    session,    \* DapBackend: state, transport, qemu, hardware_breakpoints
    call,       \* what the engine is doing
    conv,       \* per attempt, its transport and the adapter behind it
    machines,   \* QEMU processes that run, and whose stub has the port
    target,     \* the CPU behind the stub
    reported,   \* history: the runs whose end a call reported
    fresh,      \* history: each was that of the call's own resume
    mixed,      \* history: a wait was given another request's response
    used        \* calls and attempts made so far

vars == <<session, call, conv, machines, target, reported, fresh, mixed, used>>
history == <<reported, fresh, mixed>>

States == {"Idle", "Attaching", "Ready", "Poisoned", "Detached"}
Attempts == 1 .. MaxAttach

Init ==
    /\ session = [state |-> "Idle", transport |-> 0, qemu |-> 0, hardware |-> {}]
    /\ call = [op |-> "none", step |-> "none", t |-> 0, seq |-> 0, run |-> 0, known |-> 0]
    /\ conv = [t \in Attempts |->
                 [adapter |-> "none", next |-> 1, wire |-> <<>>, owed |-> 0,
                  incoming |-> <<>>, eof |-> FALSE, early |-> {}, events |-> <<>>,
                  closed |-> FALSE, breakpoints |-> <<>>]]
    /\ machines = [alive |-> {}, port |-> 0]
    /\ target = [running |-> FALSE, run |-> 0]
    /\ reported = <<>> /\ fresh = TRUE /\ mixed = FALSE
    /\ used = [calls |-> 0, attempts |-> 0]

-----------------------------------------------------------------------------
(* The transport: what a wait may end with, and in which state it leaves the *)
(* conversation.  Messages that are not waited for are kept.                 *)

IsStop(m) == m.kind = "stopped"
Result(how, note, cv, right) == [how |-> how, note |-> note, conv |-> cv, right |-> right]

Lockstep(m, seq) == m.kind = "response"    \* mutant
Answers(m, seq) == m.kind = "response" /\ m.seq = seq

Kept(cv) ==
    LET m == Head(cv.incoming)
        rest == [cv EXCEPT !.incoming = Tail(@)]
    IN IF IsStop(m) THEN [rest EXCEPT !.events = Append(@, m)]
       ELSE [rest EXCEPT !.early = @ \cup {m}]

Response(m, seq, cv) == Result(IF m.ok THEN "ok" ELSE "refused", m.note, cv, m.seq = seq)

\* recv finds Closed, or the sender gone: the transport is closed from then on.
EndOfStream(cv) == cv.eof /\ cv.incoming = <<>>

\* wait_response: what came early, what comes in time, or the deadline, which wins
\* against a message that is there.
Early(cv, seq) == {m \in cv.early : Answers(m, seq)}
InTime(cv, seq) ==
    (IF cv.incoming # <<>> /\ Answers(Head(cv.incoming), seq)
     THEN {Response(Head(cv.incoming), seq, [cv EXCEPT !.incoming = Tail(@)])} ELSE {})
    \cup (IF EndOfStream(cv) THEN {Result("closed", 0, [cv EXCEPT !.closed = TRUE], TRUE)} ELSE {})
NoDeadline(cv) == {}    \* mutant
Deadline(cv) == {Result("timeout", 0, cv, TRUE)}

WaitResponse(cv, seq) ==
    IF Early(cv, seq) # {}
    THEN {Response(m, seq, [cv EXCEPT !.early = @ \ {m}]) : m \in Early(cv, seq)}
    ELSE InTime(cv, seq) \cup Deadline(cv)

\* wait_event("stopped"): the queue first, then the channel, and once more without
\* waiting when the time is over.
Peek(events) == events    \* mutant
Remove(events) == Tail(events)

WaitStopped(cv) ==
    IF cv.events # <<>>
    THEN {Result("ok", Head(cv.events).note, [cv EXCEPT !.events = Remove(@)], TRUE)}
    ELSE (IF cv.incoming # <<>> /\ IsStop(Head(cv.incoming))
          THEN {Result("ok", Head(cv.incoming).note, [cv EXCEPT !.incoming = Tail(@)], TRUE)}
          ELSE {})
         \cup (IF EndOfStream(cv) THEN {Result("closed", 0, [cv EXCEPT !.closed = TRUE], TRUE)}
               ELSE {})
         \cup (IF cv.incoming = <<>> THEN {Result("timeout", 0, cv, TRUE)} ELSE {})

CanSend(cv) == cv.adapter = "alive" /\ ~cv.closed
Sent(cv, command) ==
    [cv EXCEPT !.wire = Append(@, [seq |-> cv.next, command |-> command]), !.next = @ + 1]

\* shutdown and Drop: the adapter goes on its own or is killed, and is waited for.
Shutdown(cv) == [cv EXCEPT !.adapter = IF @ = "alive" THEN "dead" ELSE @, !.wire = <<>>]

-----------------------------------------------------------------------------
(* The machine. *)

LeaveMachine(k) == machines    \* mutant
Terminate(k) == [alive |-> machines.alive \ {k},
                 port |-> IF machines.port = k THEN 0 ELSE machines.port]

Done == [call EXCEPT !.op = "none", !.step = "none", !.t = 0, !.seq = 0, !.run = 0,
                     !.known = 0]
To(step) == [call EXCEPT !.step = step, !.seq = 0]

\* attach, step 1: QemuProcess::start.
Launch ==
    /\ call.step = "launch"
    /\ \/ call' = Done /\ UNCHANGED machines
       \/ call' = To("ready") /\ machines' = [machines EXCEPT !.alive = @ \cup {call.t}]
    /\ UNCHANGED <<session, conv, target, history, used>>

\* wait_until_ready asks for the port of the stub, not for whose it is.  A machine
\* that takes the place of another ends it.
Ready ==
    /\ call.step = "ready" /\ call.t \in machines.alive /\ machines.port # 0
    /\ session' = [session EXCEPT !.qemu = call.t]
    /\ machines' = IF session.qemu = 0 THEN machines ELSE Terminate(session.qemu)
    /\ call' = To("spawn")
    /\ UNCHANGED <<conv, target, history, used>>

\* The deadline: startup_failure reads what QEMU has to say before it ends it.
NotReady ==
    /\ call.step = "ready" /\ machines.port = 0
    /\ call' = To("draining")
    /\ UNCHANGED <<session, conv, machines, target, history, used>>

StartupFailure ==
    /\ call.step \in {"ready", "draining"} /\ call.t \notin machines.alive
    /\ machines' = Terminate(call.t)
    /\ call' = Done
    /\ UNCHANGED <<session, conv, target, history, used>>

\* A stub takes the port, or its QEMU gives up when it is taken.
Bind(k) ==
    /\ k \in machines.alive /\ machines.port # k
    /\ machines' = IF machines.port = 0 THEN [machines EXCEPT !.port = k] ELSE Terminate(k)
    /\ UNCHANGED <<session, call, conv, target, history, used>>

MachineDies(k) ==
    /\ k \in machines.alive
    /\ machines' = [alive |-> machines.alive \ {k},
                    port |-> IF machines.port = k THEN 0 ELSE machines.port]
    /\ UNCHANGED <<session, call, conv, target, history, used>>

\* Transport::spawn.
Spawn ==
    /\ call.step = "spawn"
    /\ \/ call' = Done /\ UNCHANGED conv
       \/ call' = To("initialize") /\ conv' = [conv EXCEPT ![call.t].adapter = "alive"]
    /\ UNCHANGED <<session, machines, target, history, used>>

-----------------------------------------------------------------------------
(* The steps of a call. *)

Requests == {"initialize", "configured", "resume", "frame", "registers", "before",
             "hbreak", "after", "simple", "symbols", "check", "disconnect"}
Attach == {"initialize", "configured", "attached", "entry"}

\* What an error makes of the session.  Only the stack trace and the handshake
\* poison it after the request is out.
Poisons(step, how) ==
    \/ step \in {"configured", "attached"} /\ how # "unsent"
    \/ step = "frame" /\ how \in {"timeout", "closed"}

Error(how, cv) ==
    /\ session' = IF Poisons(call.step, how) THEN [session EXCEPT !.state = "Poisoned"]
                  ELSE session
    /\ call' = CASE call.step = "frame" /\ call.op = "resume" -> To("registers")
                 [] call.step = "disconnect" -> To("drop")
                 [] OTHER -> Done
    /\ conv' = [conv EXCEPT ![call.t] = IF call.step \in Attach THEN Shutdown(cv) ELSE cv]

\* Send the request of the step; require_ready notices a closed transport.
Ask ==
    /\ call.step \in Requests /\ call.seq = 0
    /\ LET cv == conv[call.t] IN
         IF ~CanSend(cv)
         THEN IF cv.closed /\ call.step = "frame" THEN Error("closed", cv)
              ELSE Error("unsent", cv)
         ELSE LET out == IF call.step = "configured" THEN Sent(cv, "attach") ELSE cv IN
              /\ conv' = [conv EXCEPT ![call.t] = Sent(out, call.step)]
              /\ call' = [call EXCEPT !.seq = out.next]
              /\ UNCHANGED session
    /\ UNCHANGED <<machines, target, history, used>>

\* Where a good response leads.
After(r) ==
    CASE call.step = "initialize" -> To("configured")
      [] call.step = "configured" -> [call EXCEPT !.step = "attached", !.seq = @ - 1]
      [] call.step = "attached" -> To("entry")
      [] call.step = "resume" -> [To("stop") EXCEPT !.run = r.note]
      [] call.step = "frame" /\ call.op = "resume" -> To("registers")
      [] call.step = "before" -> [To("hbreak") EXCEPT !.known = r.note]
      [] call.step = "hbreak" -> To("after")
      [] call.step = "symbols" -> To("check")
      [] call.step = "disconnect" -> To("drop")
      [] OTHER -> Done

\* set_hardware_breakpoint: the first breakpoint of the second listing that the
\* first had not, if it is not pending.
FirstListed(r, cv) == {k \in {1} : k <= r.note}    \* mutant
Created(r, cv) == {k \in {call.known + 1} : k <= r.note /\ cv.breakpoints[k] = "hw"}

Respond ==
    /\ call.step \in Requests \cup {"attached"} /\ call.seq # 0
    /\ \E r \in WaitResponse(conv[call.t], call.seq) :
         /\ mixed' = (mixed \/ ~r.right)
         /\ IF r.how = "ok" \/ (r.how = "refused" /\ call.step = "configured")
            THEN /\ call' = After(r)
                 /\ conv' = [conv EXCEPT ![call.t] = r.conv]
                 /\ session' = IF call.step = "after"
                               THEN [session EXCEPT !.hardware =
                                       @ \cup {<<call.t, k>> : k \in Created(r, r.conv)}]
                               ELSE session
            ELSE Error(r.how, r.conv)
    /\ UNCHANGED <<machines, target, reported, fresh, used>>

\* Nothing the call waits for: it is put aside.
Keep ==
    /\ call.t # 0
    /\ LET cv == conv[call.t] IN
         /\ cv.incoming # <<>>
         /\ \/ call.step \in {"stop", "entry"} /\ ~IsStop(Head(cv.incoming)) /\ cv.events = <<>>
            \/ call.seq # 0 /\ ~Answers(Head(cv.incoming), call.seq)
         /\ conv' = [conv EXCEPT ![call.t] = Kept(cv)]
    /\ UNCHANGED <<session, call, machines, target, history, used>>

\* attach, step 5: the first stop, or two seconds without one; the other events
\* are dropped, and the transport takes the place of an older one.
Entry ==
    /\ call.step = "entry"
    /\ \E r \in WaitStopped(conv[call.t]) :
         IF r.how = "closed" THEN Error(r.how, r.conv)
         ELSE /\ session' = [session EXCEPT !.transport = call.t, !.state = "Ready"]
              /\ conv' = [t \in Attempts |->
                            IF t = call.t THEN [r.conv EXCEPT !.events = <<>>]
                            ELSE IF t = session.transport THEN Shutdown(conv[t]) ELSE conv[t]]
              /\ call' = Done
    /\ UNCHANGED <<machines, target, history, used>>

\* await_stop.
Stopped ==
    /\ call.step = "stop"
    /\ \E r \in WaitStopped(conv[call.t]) :
         /\ conv' = [conv EXCEPT ![call.t] = r.conv]
         /\ IF r.how = "ok"
            THEN /\ reported' = Append(reported, r.note)
                 /\ fresh' = (fresh /\ r.note = call.run)
                 /\ call' = To("frame")
            ELSE call' = Done /\ UNCHANGED <<reported, fresh>>
    /\ UNCHANGED <<session, machines, target, mixed, used>>

-----------------------------------------------------------------------------
(* The calls of the engine. *)

Begin(op, step, t) ==
    /\ call.op = "none" /\ used.calls < MaxCalls
    /\ call' = [call EXCEPT !.op = op, !.step = step, !.t = t]

BeginAttach ==
    /\ session.state # "Ready" /\ used.attempts < MaxAttach
    /\ Begin("attach", "launch", used.attempts + 1)
    /\ session' = [session EXCEPT !.state = "Attaching"]
    /\ used' = [calls |-> used.calls + 1, attempts |-> used.attempts + 1]
    /\ UNCHANGED <<conv, machines, target, history>>

\* require_ready, which every request goes through but those of the capability layer.
BeginReady(op) ==
    /\ session.state = "Ready" /\ session.transport # 0
    /\ IF conv[session.transport].closed
       THEN /\ call.op = "none" /\ used.calls < MaxCalls
            /\ session' = [session EXCEPT !.state = "Poisoned"] /\ UNCHANGED call
       ELSE Begin(op, op, session.transport) /\ UNCHANGED session
    /\ used' = [used EXCEPT !.calls = @ + 1]
    /\ UNCHANGED <<conv, machines, target, history>>

\* continue_, step_over and step_into resume the target and wait for its stop.
BeginResume == BeginReady("resume")
BeginStackTrace == BeginReady("frame")

\* Operations of one exchange: an error is passed on and the session stays as it is.
SetBreakpoints == BeginReady("simple")
ReadVariables == BeginReady("simple")
AccessMemory == BeginReady("simple")
Disassemble == BeginReady("simple")

\* prepare_target only asks for a live transport.  Its REPL commands are two
\* exchanges here: symbols, then the self-check of the architecture.
PrepareTarget ==
    /\ session.transport # 0 /\ ~conv[session.transport].closed
    /\ Begin("prepare", "symbols", session.transport)
    /\ used' = [used EXCEPT !.calls = @ + 1]
    /\ UNCHANGED <<session, conv, machines, target, history>>

\* So does set_hardware_breakpoint: a poisoned session still takes it.
BeginHardware ==
    /\ session.transport # 0 /\ ~conv[session.transport].closed
    /\ Begin("hbreak", "before", session.transport)
    /\ used' = [used EXCEPT !.calls = @ + 1]
    /\ UNCHANGED <<session, conv, machines, target, history>>

\* detach says goodbye first, Drop does not; after a drop there is no backend.
BeginDetach ==
    /\ \/ Begin("detach", IF session.transport = 0 THEN "drop" ELSE "disconnect",
                session.transport)
          /\ used' = [used EXCEPT !.calls = @ + 1]
       \/ Begin("drop", "drop", session.transport)
          /\ used' = [used EXCEPT !.calls = MaxCalls]
    /\ UNCHANGED <<session, conv, machines, target, history>>

Drop ==
    /\ call.step = "drop"
    /\ conv' = [t \in Attempts |-> IF t = session.transport THEN Shutdown(conv[t]) ELSE conv[t]]
    /\ machines' = IF session.qemu = 0 THEN machines ELSE Terminate(session.qemu)
    /\ session' = [session EXCEPT !.transport = 0, !.qemu = 0, !.state = "Detached"]
    /\ call' = Done
    /\ UNCHANGED <<target, history, used>>

Engine ==
    \/ BeginAttach \/ BeginResume \/ BeginStackTrace \/ SetBreakpoints \/ ReadVariables
    \/ AccessMemory \/ Disassemble \/ PrepareTarget \/ BeginHardware \/ BeginDetach
    \/ Launch \/ Ready \/ NotReady \/ StartupFailure \/ Spawn
    \/ Ask \/ Respond \/ Keep \/ Entry \/ Stopped \/ Drop

-----------------------------------------------------------------------------
(* The adapter: requests in order, each answered well or badly. *)

Reply(r, ok, note) ==
    [kind |-> "response", seq |-> r.seq, ok |-> ok, note |-> note]
Post(cv, m) == [cv EXCEPT !.incoming = Append(@, m)]

Serve(t) ==
    /\ conv[t].adapter = "alive" /\ conv[t].wire # <<>>
    /\ LET r == Head(conv[t].wire)
           cv == [conv[t] EXCEPT !.wire = Tail(@)]
       IN CASE r.command = "attach" ->
                 /\ conv' = [conv EXCEPT ![t] = [cv EXCEPT !.owed = r.seq]]
                 /\ UNCHANGED target
            [] r.command \in {"configured", "resume"} ->
                 \/ /\ r.command = "configured" \/ ~target.running
                    /\ target' = [running |-> TRUE, run |-> target.run + 1]
                    /\ conv' = [conv EXCEPT ![t] = Post(cv, Reply(r, TRUE, target.run + 1))]
                 \/ /\ conv' = [conv EXCEPT ![t] = Post(cv, Reply(r, FALSE, 0))]
                    /\ UNCHANGED target
            [] r.command = "hbreak" ->
                 /\ \/ \E kind \in {"hw", "pending"} :
                         conv' = [conv EXCEPT ![t] =
                           Post([cv EXCEPT !.breakpoints = Append(@, kind)], Reply(r, TRUE, 0))]
                    \/ conv' = [conv EXCEPT ![t] = Post(cv, Reply(r, FALSE, 0))]
                 /\ UNCHANGED target
            [] OTHER ->
                 /\ \E ok \in BOOLEAN :
                      conv' = [conv EXCEPT ![t] = Post(cv, Reply(r, ok, Len(cv.breakpoints)))]
                 /\ UNCHANGED target
    /\ UNCHANGED <<session, call, machines, history, used>>

\* The late answer to attach, good when there is a stub to speak to.
ServeAttach(t) ==
    /\ conv[t].adapter = "alive" /\ conv[t].owed # 0 /\ conv[t].wire = <<>>
    /\ \E ok \in {FALSE, machines.port # 0} :
         conv' = [conv EXCEPT ![t] =
           Post([@ EXCEPT !.owed = 0], Reply([seq |-> conv[t].owed], ok, 0))]
    /\ UNCHANGED <<session, call, machines, target, history, used>>

\* The CPU stops, and the adapters that are there say so.
TargetStops ==
    /\ target.running
    /\ target' = [target EXCEPT !.running = FALSE]
    /\ conv' = [t \in Attempts |->
                  IF conv[t].adapter = "alive" /\ conv[t].next > 3
                  THEN Post(conv[t], [kind |-> "stopped", seq |-> 0, ok |-> TRUE,
                                      note |-> target.run])
                  ELSE conv[t]]
    /\ UNCHANGED <<session, call, machines, history, used>>

AdapterDies(t) ==
    /\ conv[t].adapter = "alive"
    /\ conv' = [conv EXCEPT ![t] = Shutdown(@)]
    /\ UNCHANGED <<session, call, machines, target, history, used>>

\* The reader thread reaches the end of the adapter's stdout.
ReaderEnds(t) ==
    /\ conv[t].adapter = "dead" /\ ~conv[t].eof
    /\ conv' = [conv EXCEPT ![t].eof = TRUE]
    /\ UNCHANGED <<session, call, machines, target, history, used>>

World ==
    \/ \E t \in Attempts :
         \/ Bind(t) \/ MachineDies(t)
         \/ Serve(t) \/ ServeAttach(t) \/ AdapterDies(t) \/ ReaderEnds(t)
    \/ TargetStops

Next == Engine \/ World

\* The thread of the engine runs, and its deadlines come: of the adapter, the
\* target and QEMU nothing is assumed.
Spec == Init /\ [][Next]_vars /\ WF_vars(Engine /\ call.op # "none")

-----------------------------------------------------------------------------
(* Properties. *)

\* Nobody is handed the response to another request, though attach is answered
\* after configurationDone and any answer may come when its asker has given up:
\* a client in lockstep "would mis-attribute every subsequent reply by one"
\* (transport.rs 24-27).
AnswersMatch == ~mixed

\* A stop is reported once, and stops are reported in the order they came.
NoStopTwice == \A i, j \in DOMAIN reported : i < j => reported[i] < reported[j]

\* What the adapter says reaches whom it is for, once and in order.
ReportsMatch == AnswersMatch /\ NoStopTwice

\* "Never leave a machine or an adapter behind, whatever path got us here"
\* (backend.rs 961): between calls at most the machine and the adapter that the
\* backend holds are alive, and after detach or drop none is.
NothingLeftBehind ==
    call.op = "none" =>
        /\ machines.alive \subseteq {session.qemu}
        /\ \A t \in Attempts : conv[t].adapter = "alive" => t = session.transport

\* A hardware breakpoint that the backend lists is one that gdb has, and has
\* placed: never one that was there before, never a pending one ("plausible
\* false data", P4-4).
ListedIsPlaced ==
    \A b \in session.hardware : conv[b[1]].breakpoints[b[2]] = "hw"

\* "The engine must fail loudly rather than hang the UI" (transport.rs 113): every
\* call returns, whatever the adapter and the target do, unless it is QEMU that
\* starts and neither opens its port nor ends.
CallsReturn ==
    call.op # "none" ~> (call.op = "none" \/ call.step = "draining")

\* "Consume it so a later continue does not immediately stop on a stale event"
\* (backend.rs 585): the stop that continue or a step reports is that of its own
\* resume.  The code does not keep this: a stop that comes after its call has
\* timed out stays in the queue for the next.
StopIsFresh == fresh

=============================================================================
