---------------------------- MODULE EventStream ----------------------------
(***************************************************************************)
(* The event stream of the desktop shell, end to end: operations that run  *)
(* on threads of their own publish envelopes through the EventBus          *)
(* (src-tauri/src/events.rs) and Tauri's event channel to the front end's  *)
(* live stream (src/state/liveStream.ts), which folds them into the event  *)
(* store (src/state/eventStore.ts).  The user may reload the page and ask  *)
(* for a replay (src/app.ts, op_replay in src-tauri/src/commands.rs).      *)
(*                                                                         *)
(* Publishing is three steps of the publishing thread, with nothing that   *)
(* keeps another thread from running in between: take the next sequence    *)
(* number, push the envelope into the ring under its lock, emit it.        *)
(***************************************************************************)
EXTENDS Naturals, Sequences, FiniteSets

CONSTANTS
    Ops,           \* long operations, each publishing from a thread of its own
    Domain,        \* the part of the store an operation's events go to
    MaxLogs,       \* bound on the log.append events of an operation
    RingCapacity,  \* RING_CAPACITY
    MaxReloads     \* bound on the times the page is reloaded

Domains == {"build", "run"}

ASSUME StreamAssumption ==
    /\ Domain \in [Ops -> Domains]
    /\ MaxLogs \in Nat /\ MaxReloads \in Nat
    /\ RingCapacity \in Nat \ {0}

VARIABLES
    seq,        \* EventBus.seq: the last number given out
    ring,       \* EventBus.ring
    task,       \* per operation, where its thread is and what it has published
    chan,       \* envelopes emitted to the page and not yet handled by it
    listening,  \* the page's listener is registered
    store,      \* the front end's IdeState
    first,      \* history: the first number the store has accepted, or 0
    reloads,
    answer      \* the princess:op:replay call in flight

vars == <<seq, ring, task, chan, listening, store, first, reloads, answer>>
bus == <<seq, ring>>
page == <<chan, listening, store, first, reloads>>

Kinds == {"started", "log", "finished"}
Envelope == [seq : Nat \ {0}, op : Ops, kind : Kinds]
Phases == {"idle", "stamped", "recorded", "over"}
NoAnswer == [step |-> "none", from |-> 0, events |-> {}, last |-> 0]

InitialState ==
    [lastSeq |-> 0, applied |-> <<>>, missed |-> 0, needsReplay |-> FALSE,
     ignored |-> {}, view |-> [d \in Domains |-> "none"]]

Init ==
    /\ seq = 0 /\ ring = <<>>
    /\ task = [o \in Ops |-> [phase |-> "idle", sent |-> 0, env |-> <<>>]]
    /\ chan = <<>> /\ listening = FALSE
    /\ store = InitialState /\ first = 0 /\ reloads = 0
    /\ answer = NoAnswer

-----------------------------------------------------------------------------
(* The publishing threads. *)

\* An operation publishes started, then its log, then finished.
MayPublish(o, kind) ==
    \/ kind = "started" /\ task[o].sent = 0
    \/ kind = "log" /\ task[o].sent \in 1 .. MaxLogs
    \/ kind = "finished" /\ task[o].sent > 0

\* fetch_add: the number is taken before the ring is locked.
Stamp(o, kind) ==
    /\ task[o].phase = "idle" /\ MayPublish(o, kind)
    /\ seq' = seq + 1
    /\ task' = [task EXCEPT ![o] =
                  [phase |-> "stamped", sent |-> @.sent + 1,
                   env |-> [seq |-> seq + 1, op |-> o, kind |-> kind]]]
    /\ UNCHANGED <<ring, page, answer>>

\* The ring drops its oldest envelope when it is full.
RingGrow(r, env) == Append(r, env)    \* mutant
RingEarly(r, env) == Append(IF Len(r) + 1 >= RingCapacity THEN Tail(r) ELSE r, env) \* mutant
RingPush(r, env) == Append(IF Len(r) = RingCapacity THEN Tail(r) ELSE r, env)

Record(o) ==
    /\ task[o].phase = "stamped"
    /\ ring' = RingPush(ring, task[o].env)
    /\ task' = [task EXCEPT ![o].phase = "recorded"]
    /\ UNCHANGED <<seq, page, answer>>

\* app.emit: an envelope nobody listens for is gone.
Emit(o) ==
    /\ task[o].phase = "recorded"
    /\ chan' = IF listening THEN Append(chan, task[o].env) ELSE chan
    /\ task' = [task EXCEPT ![o].phase =
                  IF task[o].env.kind = "finished" THEN "over" ELSE "idle"]
    /\ UNCHANGED <<bus, listening, store, first, reloads, answer>>

Publish(o) == (\E kind \in Kinds : Stamp(o, kind)) \/ Record(o) \/ Emit(o)

-----------------------------------------------------------------------------
(* The front end. *)

\* The promise of listen() resolves.
Subscribe ==
    /\ ~listening
    /\ listening' = TRUE
    /\ UNCHANGED <<bus, task, chan, store, first, reloads, answer>>

\* The page is loaded again: a new store, no listener, no call in flight.
Reload ==
    /\ reloads < MaxReloads
    /\ reloads' = reloads + 1
    /\ chan' = <<>> /\ listening' = FALSE
    /\ store' = InitialState /\ first' = 0
    /\ answer' = NoAnswer
    /\ UNCHANGED <<bus, task>>

\* started replaces the view of its domain, finished closes whatever is there.
ViewAfter(view, env) ==
    IF env.kind = "log" THEN view
    ELSE [view EXCEPT ![Domain[env.op]] =
            IF env.kind = "started" THEN "running" ELSE "finished"]

NeverStale(s, env) == FALSE    \* mutant
Stale(s, env) == env.seq <= s.lastSeq

GapOnly(s, env) == env.seq > s.lastSeq + 2 /\ s.lastSeq # 0    \* mutant
Gap(s, env) == s.lastSeq # 0 /\ env.seq # s.lastSeq + 1

\* applyEvent, for an envelope that is not stale.
Applied(s, env) ==
    [s EXCEPT !.lastSeq = env.seq,
              !.applied = Append(@, env.seq),
              !.missed = IF Gap(s, env) THEN @ + env.seq - s.lastSeq - 1 ELSE @,
              !.needsReplay = @ \/ Gap(s, env),
              !.view = ViewAfter(@, env)]

AppliedAfterReplay(s, env) ==    \* mutant: a store that waits for the replay
    IF s.needsReplay \/ Gap(s, env) THEN [s EXCEPT !.needsReplay = TRUE] ELSE Applied(s, env)
Accept(s, env) == Applied(s, env)

Handle ==
    /\ chan # <<>>
    /\ LET env == Head(chan) IN
         IF Stale(store, env)
         THEN /\ store' = [store EXCEPT !.ignored = @ \cup {env.seq}]
              /\ UNCHANGED first
         ELSE /\ store' = Accept(store, env)
              /\ first' = IF first = 0 THEN env.seq ELSE first
    /\ chan' = Tail(chan)
    /\ UNCHANGED <<bus, task, listening, reloads, answer>>

-----------------------------------------------------------------------------
(* Replay. *)

\* The user asks for what follows the last event of the store.
AskReplay ==
    /\ answer.step = "none" /\ store.needsReplay
    /\ answer' = [NoAnswer EXCEPT !.step = "since", !.from = store.lastSeq + 1]
    /\ UNCHANGED <<bus, task, page>>

\* op_replay first copies the ring, then reads the last number given out.  What it
\* answers is a set here: nobody looks at its order, or at all.
Since(from) == {ring[i] : i \in {j \in 1 .. Len(ring) : ring[j].seq >= from}}

CopyRing ==
    /\ answer.step = "since"
    /\ answer' = [answer EXCEPT !.step = "last", !.events = Since(answer.from)]
    /\ UNCHANGED <<bus, task, page>>

LastRecorded == IF ring = <<>> THEN 0 ELSE ring[Len(ring)].seq    \* mutant
LastSeq == seq

ReadLast ==
    /\ answer.step = "last"
    /\ answer' = [answer EXCEPT !.step = "answered", !.last = LastSeq]
    /\ UNCHANGED <<bus, task, page>>

\* The page looks at errors only: the events that came back are dropped.
DropAnswer ==
    /\ answer.step = "answered"
    /\ answer' = NoAnswer
    /\ UNCHANGED <<bus, task, page>>

Replay == AskReplay \/ CopyRing \/ ReadLast \/ DropAnswer

-----------------------------------------------------------------------------
AllOver == \A o \in Ops : task[o].phase = "over"
Terminating == AllOver /\ chan = <<>> /\ UNCHANGED vars

Next ==
    \/ \E o \in Ops : Publish(o)
    \/ Subscribe \/ Reload \/ Handle
    \/ Replay \/ Terminating

\* Operations end, the page handles what arrives, a call is answered.  Nobody
\* has to reload the page or to ask for a replay.
Fairness ==
    /\ \A o \in Ops : WF_vars(Publish(o))
    /\ WF_vars(Subscribe) /\ WF_vars(Handle)
    /\ WF_vars(CopyRing \/ ReadLast \/ DropAnswer)

Spec == Init /\ [][Next]_vars /\ Fairness

-----------------------------------------------------------------------------
(* Properties. *)

TypeOK ==
    /\ seq \in Nat /\ reloads \in 0 .. MaxReloads /\ first \in Nat
    /\ ring \in Seq(Envelope) /\ Len(ring) <= RingCapacity
    /\ chan \in Seq(Envelope) /\ listening \in BOOLEAN
    /\ \A o \in Ops :
         /\ task[o].phase \in Phases /\ task[o].sent \in 0 .. MaxLogs + 2
         /\ task[o].phase \in {"stamped", "recorded"} => task[o].env \in Envelope
    /\ store.lastSeq \in Nat /\ store.applied \in Seq(Nat)
    /\ store.missed \in Nat /\ store.needsReplay \in BOOLEAN
    /\ store.ignored \subseteq Nat
    /\ store.view \in [Domains -> {"none", "running", "finished"}]
    /\ answer.step \in {"none", "since", "last", "answered"}
    /\ answer.events \subseteq Envelope

RingSeqs == {ring[i].seq : i \in 1 .. Len(ring)}
Unrecorded == {task[o].env.seq : o \in {p \in Ops : task[p].phase = "stamped"}}

\* A number that has been given out is in the ring once, or on its way there;
\* only a full ring has forgotten one (what replay relies on).
NothingForgotten ==
    /\ \A i, j \in 1 .. Len(ring) : i # j => ring[i].seq # ring[j].seq
    /\ RingSeqs \cap Unrecorded = {}
    /\ Len(ring) < RingCapacity => RingSeqs \cup Unrecorded = 1 .. seq

\* What the store has shown is in order, whatever order the envelopes of
\* concurrent operations arrive in.
ShownInOrder ==
    \A i, j \in 1 .. Len(store.applied) : i < j => store.applied[i] < store.applied[j]

\* The gaps the store has recorded are exactly the numbers it has passed over
\* since the first one it saw, and it says that a replay is needed if there are
\* any: no loss after the first event is silent.
NoSilentLoss ==
    /\ store.lastSeq # 0 =>
         Len(store.applied) + store.missed = store.lastSeq - first + 1
    /\ store.needsReplay <=> store.missed > 0

\* An envelope the store has ignored as stale was passed over before: it is one
\* of those it counts as missed, or came before all it has seen.
IgnoredIsMissed ==
    \A s \in store.ignored :
        /\ \A i \in 1 .. Len(store.applied) : store.applied[i] # s
        /\ s > first => store.needsReplay

\* What the window shows is in order, and what it does not show is counted or was
\* before all it has seen.
LossIsCounted == ShownInOrder /\ NoSilentLoss /\ IgnoredIsMissed

\* The answer to a replay never has an event beyond the lastSeq it reports,
\* although the ring and the counter are read one after the other.
AnswerIsCovered ==
    answer.step = "answered" =>
        \A env \in answer.events : env.seq <= answer.last

ReplayIsComplete == NothingForgotten /\ AnswerIsCovered

\* "Envelopes with seq >= from_seq, ascending" (since, events.rs): the ring is in the
\* order of recording, and the code does not keep this.
ReplayIsAscending ==
    \A i, j \in 1 .. Len(ring) : i < j => ring[i].seq < ring[j].seq

\* The front end never stalls, gap or no gap: an envelope that has reached the
\* page is shown or passed over, unless the page is reloaded first.
OnItsWay(s) == \E i \in 1 .. Len(chan) : chan[i].seq = s
CatchesUp ==
    \A s \in 1 .. Cardinality(Ops) * (MaxLogs + 2) :
        OnItsWay(s) ~> store.lastSeq >= s \/ ~listening

\* "*.finished events always arrive" (10-contracts.md section 6 rule 5): a view
\* that is running does not stay so.  The code does not keep this.
FinishedIsSeen ==
    \A d \in Domains : store.view[d] = "running" ~> store.view[d] # "running"

=============================================================================
