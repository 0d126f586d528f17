----------------------------- MODULE LspBridge -----------------------------
(***************************************************************************)
(* The bridge between the language client of the page (lsp/client.ts) and  *)
(* the language servers that the shell runs (src-tauri/src/lsp_handler.rs).*)
(* A bridge starts one server.  Messages go out through lsp:send, one call *)
(* each, nobody waiting for it; replies come back on the event channel.    *)
(* The shell holds the mutex of its registry while it writes to a server   *)
(* and while it stops one.  A pipe takes Capacity messages, and whoever    *)
(* writes to a full one waits.                                             *)
(***************************************************************************)
EXTENDS Naturals, Sequences, FiniteSets

CONSTANTS
    Bridges,    \* bridges of the page; a server has the name of its bridge
    Nobody,     \* not a bridge
    Messages,   \* what each bridge sends, numbered from 1
    Capacity    \* of the pipes of a server

ASSUME LspAssumption ==
    /\ IsFiniteSet(Bridges) /\ Nobody \notin Bridges
    /\ Messages \in [Bridges -> Nat] /\ Capacity \in Nat \ {0}

VARIABLES
    bridge,     \* IpcLspBridge: where it is in start and stop
    listening,  \* bridges whose event listener is installed
    sends,      \* per bridge, its lsp:send calls
    lock,       \* the mutex of LspRegistry.instances: the call that holds it
    registry,   \* LspRegistry.instances
    server,     \* per bridge, its process
    stdin, stdout,
    channel,    \* events that the page has yet to handle
    heard,      \* history: what the handlers of a bridge were given
    said        \* history: what a server has written

vars == <<bridge, listening, sends, lock, registry, server, stdin, stdout, channel,
          heard, said>>
pipes == <<server, stdin, stdout, said>>
page == <<bridge, listening, channel, heard>>

Free == <<Nobody, 0>>
StopCall(b) == <<b, 0>>
SendCall(b, k) == <<b, k>>
Numbers(b) == 1 .. Messages[b]

\* lsp:start runs in "starting" and "spawned", lsp:stop in "stopping" to "killed".
BridgeStates == {"new", "starting", "spawned", "started", "open", "failed",
                 "stopping", "removed", "asked", "killed", "closed"}
SendStates == {"unsent", "waiting", "writing", "ok", "failed"}

Init ==
    /\ bridge = [b \in Bridges |-> "new"] /\ listening = {}
    /\ sends = [b \in Bridges |-> [k \in Numbers(b) |-> "unsent"]]
    /\ lock = Free /\ registry = {}
    /\ server = [b \in Bridges |-> "none"]
    /\ stdin = [b \in Bridges |-> <<>>] /\ stdout = [b \in Bridges |-> <<>>]
    /\ channel = <<>>
    /\ heard = [b \in Bridges |-> <<>>] /\ said = [b \in Bridges |-> <<>>]

Become(b, state) == bridge' = [bridge EXCEPT ![b] = state]
Send(b, k, state) == sends' = [sends EXCEPT ![b][k] = state]
Emit(b, kind, number) ==
    channel' = Append(channel, [kind |-> kind, from |-> b, number |-> number])

-----------------------------------------------------------------------------
(* Starting: lsp:start, then the listener. *)

Start(b) ==
    /\ bridge[b] = "new"
    /\ Become(b, "starting")
    /\ UNCHANGED <<listening, sends, lock, registry, pipes, channel, heard>>

\* A bad root or a binary that is not there is answered before anything exists.
LspStart(b) ==
    /\ bridge[b] = "starting"
    /\ \/ Become(b, "failed") /\ UNCHANGED server
       \/ Become(b, "spawned") /\ server' = [server EXCEPT ![b] = "alive"]
    /\ UNCHANGED <<listening, sends, lock, registry, stdin, stdout, said, channel, heard>>

Insert(b) ==
    /\ bridge[b] = "spawned" /\ lock = Free
    /\ registry' = registry \cup {b}
    /\ Become(b, "started")
    /\ UNCHANGED <<listening, sends, lock, pipes, channel, heard>>

\* listenFn is awaited before the bridge is handed out.
Listen(b) ==
    /\ bridge[b] = "started"
    /\ listening' = listening \cup {b}
    /\ Become(b, "open")
    /\ UNCHANGED <<sends, lock, registry, pipes, channel, heard>>

-----------------------------------------------------------------------------
(* lsp:send. *)

\* Fire and forget: the calls of a bridge overtake one another.
SendMessage(b, k) ==
    /\ bridge[b] = "open" /\ sends[b][k] = "unsent"
    /\ k > 1 => sends[b][k - 1] # "unsent"
    /\ Send(b, k, "waiting")
    /\ UNCHANGED <<page, lock, registry, pipes>>

LspSend(b, k) ==
    /\ sends[b][k] = "waiting" /\ lock = Free
    /\ IF b \in registry
       THEN Send(b, k, "writing") /\ lock' = SendCall(b, k)
       ELSE Send(b, k, "failed") /\ UNCHANGED lock
    /\ UNCHANGED <<page, registry, pipes>>

\* write_all: waits for room, fails when the other end is gone.
CanWrite(b) == server[b] # "alive" \/ Len(stdin[b]) < Capacity
Written(b, m) ==
    IF server[b] = "alive" THEN [stdin EXCEPT ![b] = Append(@, m)] ELSE stdin

SendWrites(b, k) ==
    /\ lock = SendCall(b, k) /\ CanWrite(b)
    /\ stdin' = Written(b, k)
    /\ Send(b, k, IF server[b] = "alive" THEN "ok" ELSE "failed")
    /\ lock' = Free
    /\ UNCHANGED <<page, registry, server, stdout, said>>

-----------------------------------------------------------------------------
(* The server, and the thread that reads its stdout until the end of it. *)

ServerReplies(b) ==
    /\ server[b] = "alive" /\ stdin[b] # <<>> /\ Len(stdout[b]) < Capacity
    /\ stdin' = [stdin EXCEPT ![b] = Tail(@)]
    /\ stdout' = [stdout EXCEPT ![b] = Append(@, Head(stdin[b]))]
    /\ said' = [said EXCEPT ![b] = Append(@, Head(stdin[b]))]
    /\ UNCHANGED <<page, sends, lock, registry, server>>

ServerCrashes(b) ==
    /\ server[b] = "alive"
    /\ server' = [server EXCEPT ![b] = "dead"]
    /\ stdin' = [stdin EXCEPT ![b] = <<>>]
    /\ UNCHANGED <<page, sends, lock, registry, stdout, said>>

MayEmitLocked(b) == lock = Free /\ b \in registry    \* mutant
MayEmit(b) == TRUE

ReadLspStream(b) ==
    /\ stdout[b] # <<>> /\ MayEmit(b)
    /\ Emit(b, "message", Head(stdout[b]))
    /\ stdout' = [stdout EXCEPT ![b] = Tail(@)]
    /\ UNCHANGED <<bridge, listening, heard, sends, lock, registry, server, stdin, said>>

-----------------------------------------------------------------------------
(* The page handles an event: every listener sees it, isLspMessageEvent keeps *)
(* those of the bridge's own server.                                          *)

AnyMessage(b, e) == e.kind = "message"    \* mutant
IsLspMessageEvent(b, e) == e.kind = "message" /\ e.from = b

Handle ==
    /\ channel # <<>>
    /\ heard' = [b \in Bridges |->
                   IF b \in listening /\ IsLspMessageEvent(b, Head(channel))
                   THEN Append(heard[b], Head(channel).number) ELSE heard[b]]
    /\ channel' = Tail(channel)
    /\ UNCHANGED <<bridge, listening, sends, lock, registry, pipes>>

-----------------------------------------------------------------------------
(* Stopping. *)

\* The listener goes first, the call is made then.
KeepListening(b) == listening    \* mutant
Unlisten(b) == listening \ {b}

Stop(b) ==
    /\ bridge[b] = "open"
    /\ listening' = Unlisten(b)
    /\ Become(b, "stopping")
    /\ UNCHANGED <<channel, heard, sends, lock, registry, pipes>>

LspStop(b) ==
    /\ bridge[b] = "stopping" /\ lock = Free
    /\ IF b \in registry
       THEN /\ Become(b, "removed") /\ lock' = StopCall(b)
            /\ registry' = registry \ {b}
       ELSE Become(b, "closed") /\ UNCHANGED <<lock, registry>>
    /\ UNCHANGED <<listening, channel, heard, sends, pipes>>

\* The shutdown request; its errors are ignored, but it waits for room like any
\* other.  No number: nothing of the page answers to it.
AskShutdown(b) ==
    /\ bridge[b] = "removed" /\ CanWrite(b)
    /\ stdin' = Written(b, 0)
    /\ Become(b, "asked")
    /\ UNCHANGED <<listening, channel, heard, sends, lock, registry, server, stdout, said>>

\* 200 ms later, still under the lock: kill and wait.
NoKill(b) == server[b]    \* mutant
Killed(b) == "dead"

KillServer(b) ==
    /\ bridge[b] = "asked"
    /\ server' = [server EXCEPT ![b] = Killed(b)]
    /\ stdin' = [stdin EXCEPT ![b] = <<>>]
    /\ Become(b, "killed")
    /\ UNCHANGED <<listening, channel, heard, sends, lock, registry, stdout, said>>

Stopped(b) ==
    /\ bridge[b] = "killed"
    /\ Emit(b, "stopped", 0)
    /\ lock' = Free
    /\ Become(b, "closed")
    /\ UNCHANGED <<listening, heard, sends, registry, pipes>>

-----------------------------------------------------------------------------
Thread(b) ==
    \/ LspStart(b) \/ Insert(b) \/ Listen(b)
    \/ \E k \in Numbers(b) : SendWrites(b, k)
    \/ AskShutdown(b) \/ KillServer(b) \/ Stopped(b)

Next ==
    \/ \E b \in Bridges :
         \/ Start(b) \/ Stop(b) \/ Thread(b) \/ LspStop(b)
         \/ ServerReplies(b) \/ ServerCrashes(b) \/ ReadLspStream(b)
         \/ \E k \in Numbers(b) : SendMessage(b, k) \/ LspSend(b, k)
    \/ Handle

\* Threads run, the page handles its events, and the mutex is fair enough that a
\* call that waits for it gets it some day.  That a server reads what it is sent is
\* assumed of the server: lsp_handler does nothing about one that does not.
Fairness ==
    /\ WF_vars(Handle)
    /\ \A b \in Bridges :
         /\ WF_vars(Thread(b)) /\ SF_vars(LspStop(b)) /\ WF_vars(ReadLspStream(b))
         /\ WF_vars(ServerReplies(b))
         /\ \A k \in Numbers(b) : SF_vars(LspSend(b, k))

Spec == Init /\ [][Next]_vars /\ Fairness

-----------------------------------------------------------------------------
(* Properties. *)

TypeOK ==
    /\ bridge \in [Bridges -> BridgeStates] /\ listening \subseteq Bridges
    /\ \A b \in Bridges : sends[b] \in [Numbers(b) -> SendStates]
    /\ lock = Free \/ \E b \in Bridges : lock[1] = b /\ lock[2] \in 0 .. Messages[b]
    /\ registry \subseteq Bridges
    /\ server \in [Bridges -> {"none", "alive", "dead"}]
    /\ \A b \in Bridges : Len(stdin[b]) <= Capacity /\ Len(stdout[b]) <= Capacity

\* A server that lives can be stopped by somebody: it is in the registry, or the
\* call that starts or stops it has it in hand.  Nothing that lsp:stop has
\* answered for is left running.
NoOrphans ==
    \A b \in Bridges : server[b] = "alive" =>
        b \in registry \/ bridge[b] \in {"spawned", "removed", "asked"}

\* An open bridge hears everything its server has said, once, in order, and
\* nothing of another's: what was heard, what is on its way and what is in the
\* pipe together are what was said ("events for other servers must not leak into
\* this session", client.ts 100).  Place(b, i) is the place in what was said of the
\* event i, if it is for b: after what was heard and the events for b before it.
OnTheWay(b, i) == {j \in 1 .. i : IsLspMessageEvent(b, channel[j])}
Place(b, i) == Len(heard[b]) + Cardinality(OnTheWay(b, i))

HearsItsServer ==
    \A b \in Bridges : bridge[b] = "open" =>
        LET passed == Place(b, Len(channel))
        IN  /\ Len(said[b]) = passed + Len(stdout[b])
            /\ \A n \in 1 .. Len(heard[b]) : said[b][n] = heard[b][n]
            /\ \A i \in OnTheWay(b, Len(channel)) : said[b][Place(b, i)] = channel[i].number
            /\ \A n \in 1 .. Len(stdout[b]) : said[b][passed + n] = stdout[b][n]

\* From the moment stop() is called the client of the editor hears nothing more,
\* though the reader may publish replies long after lsp.stopped.
DeafOnceStopped ==
    [][\A b \in Bridges : bridge[b] \in {"stopping", "removed", "asked", "killed", "closed"}
         => heard'[b] = heard[b]]_vars

\* Every call is answered, whatever crashes: writers wait for servers, servers for
\* the reader threads, and those for nobody, the mutex least of all.
CallsAreAnswered ==
    \A b \in Bridges :
        /\ bridge[b] = "stopping" ~> bridge[b] = "closed"
        /\ \A k \in Numbers(b) :
             sends[b][k] = "waiting" ~> sends[b][k] \in {"ok", "failed"}

\* "lsp.stopped, reason: shutdown | crashed | killed" (10-contracts.md line 79):
\* the page is told of a server that crashed.  The code does not do this: the
\* reader thread returns at the end of the stream and the entry stays.
CrashIsReported ==
    \A b \in Bridges :
        (server[b] = "dead" /\ bridge[b] = "open") ~>
            \E i \in DOMAIN channel : channel[i].kind = "stopped" /\ channel[i].from = b

=============================================================================
