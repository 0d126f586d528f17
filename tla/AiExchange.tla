----------------------------- MODULE AiExchange -----------------------------
(***************************************************************************)
(* Chat requests of princess-ai: OpenAiProvider (openai.rs) over the HTTP  *)
(* client (http.rs) and the stream decoder (sse.rs).  Each request runs on *)
(* a thread of its caller: one exchange with the server, and a second one  *)
(* if the server rejects an option of the first.  Two ways of cancelling   *)
(* reach it from other threads, the token of the operation and the         *)
(* provider's cancel(request_id), which looks for a live exchange.         *)
(*                                                                         *)
(* A read of the socket is a batch of the frames it completes: a text, or  *)
(* the [DONE] of the stream.  Frames with neither are left out.            *)
(***************************************************************************)
EXTENDS Naturals, Sequences, FiniteSets

CONSTANTS
    Requests,   \* calls of chat_completions
    Ids,        \* request ids: the callers choose them
    Choices,    \* the assignments of ids to calls that are looked at
    MaxReads    \* bound on the reads of one exchange

ASSUME AiAssumption ==
    /\ IsFiniteSet(Requests) /\ MaxReads \in Nat
    /\ Choices \subseteq [Requests -> Ids]

VARIABLES
    id,         \* the request id of each call
    call,       \* per call, its thread
    live,       \* OpenAiProvider.live, behind its mutex
    stop,       \* calls whose exchange has its stop flag set
    token,      \* calls whose CancelToken is set
    told,       \* per call, the ai.finished it has sent and whether a text came after
    since       \* history: the reads of this exchange shown after it was told to stop

vars == <<id, call, live, stop, token, told, since>>
outside == <<id, token>>

InExchange == {"connect", "reading", "got", "emitting", "flush"}
Points == InExchange \cup {"idle", "register", "between", "closing", "returned"}
Outcomes == {"none", "ok", "refused", "rejected", "unavailable", "timeout", "cancelled", "sink"}
Batches == {<<>>, <<"text">>, <<"text", "text">>, <<"text", "done">>, <<"done">>}

Init ==
    /\ id \in Choices
    /\ call = [c \in Requests |->
                 [pc |-> "idle", attempt |-> 0, batch |-> <<>>, reads |-> 0,
                  done |-> FALSE, late |-> FALSE, deaf |-> FALSE, result |-> "none"]]
    /\ live = {} /\ stop = {} /\ token = {}
    /\ told = [c \in Requests |-> [finished |-> 0, after |-> FALSE]]
    /\ since = [c \in Requests |-> {}]

TypeOK ==
    /\ id \in [Requests -> Ids]
    /\ call \in [Requests ->
                   [pc : Points, attempt : 0..2,
                    batch : Seq({"text", "done"}), reads : 0..MaxReads, done : BOOLEAN,
                    late : BOOLEAN, deaf : BOOLEAN, result : Outcomes]]
    /\ live \subseteq [id : Ids, call : Requests]
    /\ stop \subseteq Requests /\ token \subseteq Requests
    /\ told \in [Requests -> [finished : Nat, after : BOOLEAN]]
    /\ since \in [Requests -> SUBSET (0..MaxReads)]

At(c, point) == call[c].pc = point
Goto(c, point) == call' = [call EXCEPT ![c].pc = point]

StopOnly(c) == c \in stop    \* mutant
Aborted(c) == c \in stop \/ c \in token

NoDeadline(c) == FALSE    \* mutant
Expired(c) == call[c].late

-----------------------------------------------------------------------------
(* chat_completions, before the first exchange. *)

\* A cancelled, switched-off or unstreamed request opens no socket.
Begin(c) ==
    /\ At(c, "idle")
    /\ \E refusal \in {"none", "refused", "cancelled"} :
         /\ refusal = "cancelled" <=> c \in token
         /\ call' = [call EXCEPT ![c].pc = IF refusal = "none" THEN "register" ELSE "returned",
                                 ![c].attempt = IF refusal = "none" THEN 1 ELSE 0,
                                 ![c].result = refusal]
    /\ UNCHANGED <<outside, live, stop, told, since>>

-----------------------------------------------------------------------------
(* One exchange. *)

\* The stop flag and the deadline belong to the exchange: a second one starts afresh.
Register(c) ==
    /\ At(c, "register")
    /\ live' = live \cup {[id |-> id[c], call |-> c]}
    /\ stop' = stop \ {c}
    /\ Goto(c, "connect")
    /\ since' = [since EXCEPT ![c] = {}]
    /\ UNCHANGED <<outside, told>>

\* The guard of the exchange drops every entry of the id, whoever registered it.
KeepOnError(c, result) ==
    IF result = "ok" THEN {e \in live : e.id # id[c]} ELSE live    \* mutant
LiveWithout(c, result) == {e \in live : e.id # id[c]}

\* The exchange returns; a rejection of the first attempt is tried again.
Leave(c, result) ==
    /\ call' = [call EXCEPT ![c].pc = IF result = "rejected" THEN "between" ELSE "closing",
                            ![c].result = result, ![c].batch = <<>>,
                            ![c].reads = 0, ![c].done = FALSE, ![c].late = FALSE,
                            ![c].deaf = @ \/ result = "sink"]
    /\ live' = LiveWithout(c, result)

\* What ends a wait for the server: the flags, then the clock.
StopWaiting(c) ==
    \/ Aborted(c) /\ Leave(c, "cancelled")
    \/ ~Aborted(c) /\ Expired(c) /\ Leave(c, "timeout")

GiveUp(c) ==
    /\ call[c].pc \in {"connect", "reading"}
    /\ StopWaiting(c)
    /\ UNCHANGED <<outside, stop, told, since>>

\* connect_stream, and the head of the answer.
Connect(c) ==
    /\ At(c, "connect")
    /\ Goto(c, "reading")
    /\ UNCHANGED <<outside, live, stop, told, since>>

ServerFails(c) ==
    /\ call[c].pc \in {"connect", "reading"}
    /\ Leave(c, "unavailable")
    /\ UNCHANGED <<outside, stop, told, since>>

\* read_more looks at the flags and the clock before it waits for the server.
Read(c) ==
    /\ At(c, "reading") /\ ~Aborted(c) /\ ~Expired(c) /\ call[c].reads < MaxReads
    /\ \E batch \in Batches :
         call' = [call EXCEPT ![c].pc = "got", ![c].reads = @ + 1,
                              ![c].batch = IF call[c].done THEN <<>> ELSE batch]
    /\ UNCHANGED <<outside, live, stop, told, since>>

\* The framing says that the body is complete: no flag is looked at any more.
EndOfBody(c) ==
    /\ At(c, "reading")
    /\ call' = [call EXCEPT ![c].pc = "flush", ![c].late = FALSE, ![c].reads = 0]
    /\ UNCHANGED <<outside, live, stop, told, since>>

\* The checkpoint of a read: its frames are dropped or shown together.
Decode(c) ==
    /\ At(c, "got")
    /\ IF Aborted(c) /\ call[c].batch # <<>>
       THEN Leave(c, "cancelled")
       ELSE Goto(c, IF call[c].batch = <<>> THEN "reading" ELSE "emitting") /\ UNCHANGED live
    /\ UNCHANGED <<outside, stop, told, since>>

Shown(c) ==
    /\ told' = [told EXCEPT ![c].after = @ \/ told[c].finished > 0]
    /\ since' = [since EXCEPT ![c] =
                   IF c \in stop \cup token THEN @ \cup {call[c].reads} ELSE @]

\* [DONE] closes the decoder, and what is left of the batch is dropped with it.
Emit(c) ==
    /\ At(c, "emitting")
    /\ \/ /\ Head(call[c].batch) = "done"
          /\ call' = [call EXCEPT ![c].pc = "reading", ![c].batch = <<>>, ![c].done = TRUE]
          /\ UNCHANGED <<live, told, since>>
       \/ /\ Head(call[c].batch) = "text" /\ Shown(c)
          /\ call' = [call EXCEPT ![c].batch = Tail(@),
                                  ![c].pc = IF Len(call[c].batch) = 1 THEN "reading" ELSE @]
          /\ UNCHANGED live
       \/ /\ Head(call[c].batch) = "text" /\ Leave(c, "sink")
          /\ UNCHANGED <<told, since>>
    /\ UNCHANGED <<outside, stop>>

\* A last frame without its blank line is shown like the others.  Then the status of
\* the answer decides, which is looked at here and not before: the body of a refusal
\* went through the decoder too.  A good exchange sends ai.finished itself.
Conclude(c) ==
    /\ At(c, "flush")
    /\ \/ ~call[c].done /\ Aborted(c) /\ Leave(c, "cancelled") /\ UNCHANGED told
       \/ call[c].attempt = 1 /\ Leave(c, "rejected") /\ UNCHANGED told
       \/ Leave(c, "ok") /\ told' = [told EXCEPT ![c].finished = @ + 1]
       \/ \E result \in {"unavailable", "sink"} : Leave(c, result) /\ UNCHANGED told
    /\ UNCHANGED <<outside, stop, since>>

-----------------------------------------------------------------------------
(* chat_completions, after an exchange. *)

\* The note about the retry may find the sink closed: the call returns at once.
Retry(c) ==
    /\ At(c, "between")
    /\ call' \in {[call EXCEPT ![c].pc = "register", ![c].attempt = 2],
                  [call EXCEPT ![c].pc = "returned", ![c].result = "sink", ![c].deaf = TRUE]}
    /\ UNCHANGED <<outside, live, stop, told, since>>

\* A failed request gets its ai.finished here, if the sink still listens.
SilentOnError(c) == told    \* mutant
TerminalOnError(c) ==
    IF call[c].result # "ok" /\ ~call[c].deaf
    THEN [told EXCEPT ![c].finished = @ + 1] ELSE told

Close(c) ==
    /\ At(c, "closing")
    /\ live' = LiveWithout(c, "ok")
    /\ told' = TerminalOnError(c)
    /\ Goto(c, "returned")
    /\ UNCHANGED <<outside, stop, since>>

-----------------------------------------------------------------------------
(* The other threads, and the clock. *)

\* cancel: every live exchange of that id is told to stop.  Finding none is fine.
Entries(i) == {e \in live : e.id = i}

Cancel(i) ==
    /\ \E c \in Requests : id[c] = i
    /\ stop' = stop \cup {e.call : e \in Entries(i)}
    /\ UNCHANGED <<id, call, live, token, told, since>>

SetToken(c) ==
    /\ ~At(c, "returned")
    /\ token' = token \cup {c}
    /\ UNCHANGED <<id, call, live, stop, told, since>>

\* timeout_ms of one exchange has passed.  It is noticed where the thread waits.
Clock(c) ==
    /\ call[c].pc \in {"connect", "reading"} /\ ~call[c].late
    /\ call' = [call EXCEPT ![c].late = TRUE]
    /\ UNCHANGED <<outside, live, stop, told, since>>

-----------------------------------------------------------------------------
\* What the thread does by itself, and what it needs the server for.
Thread(c) ==
    \/ Begin(c) \/ Register(c) \/ GiveUp(c) \/ Decode(c) \/ Emit(c)
    \/ Conclude(c) \/ Retry(c) \/ Close(c)
Server(c) == Connect(c) \/ ServerFails(c) \/ Read(c) \/ EndOfBody(c)

Next ==
    \/ \E c \in Requests : Thread(c) \/ Server(c) \/ SetToken(c) \/ Clock(c)
    \/ \E i \in Ids : Cancel(i)

\* The thread is scheduled and time passes; nothing is assumed of the server.
Fairness == \A c \in Requests : WF_vars(Thread(c)) /\ WF_vars(Clock(c))

Spec == Init /\ [][Next]_vars /\ Fairness

-----------------------------------------------------------------------------
(* Properties. *)

\* The UI can close its spinner: a request that reached the network and whose sink
\* listened has sent exactly one ai.finished when it returns, none twice, and no
\* text after it (finish_with_error and the two places that send it).
StreamCloses ==
    \A c \in Requests :
        /\ told[c].finished <= 1 /\ ~told[c].after
        /\ At(c, "returned") /\ call[c].attempt > 0 /\ ~call[c].deaf => told[c].finished = 1

\* An exchange told to stop shows at most the read it has in hand, the one it was
\* decoding when the flag was set (the checkpoint before the frames of a read).
CancelIsPrompt == \A c \in Requests : Cardinality(since[c]) <= 1

\* An exchange that shares its id with no other request can be found by cancel from
\* its first byte to its last, and no finished one is left to be found.
LiveIsExact ==
    \A c \in Requests :
        /\ call[c].pc \notin InExchange => \A e \in live : e.call # c
        /\ call[c].pc \in InExchange /\ (\A d \in Requests : id[d] = id[c] => d = c)
             => [id |-> id[c], call |-> c] \in live

\* However silent the server is, a request that was begun returns.
RequestsReturn == \A c \in Requests : At(c, "register") ~> At(c, "returned")

=============================================================================
