-------------------------- MODULE EventStreamProofs --------------------------
(***************************************************************************)
(* Proofs about the event stream of the shell, for any set of operations,  *)
(* any number of events and any size of the ring: what the window does not *)
(* show is counted, and the ring answers a replay from all that was given  *)
(* out.                                                                    *)
(***************************************************************************)
EXTENDS EventStream, TLAPS

-----------------------------------------------------------------------------
(* Types. *)

TaskRecord == [phase : Phases, sent : Nat, env : Envelope \cup {<<>>}]
StoreRecord ==
    [lastSeq : Nat, applied : Seq(Nat), missed : Nat, needsReplay : BOOLEAN,
     ignored : SUBSET Nat, view : [Domains -> {"none", "running", "finished"}]]

Typed ==
    /\ seq \in Nat /\ first \in Nat
    /\ ring \in Seq(Envelope) /\ chan \in Seq(Envelope)
    /\ task \in [Ops -> TaskRecord]
    /\ store \in StoreRecord
    /\ answer \in [step : {"none", "since", "last", "answered"}, from : Nat,
                   events : SUBSET Envelope, last : Nat]

LEMMA EnvelopesAreNumbered ==
    ASSUME NEW q \in Seq(Envelope), NEW i \in 1 .. Len(q)
    PROVE  q[i] \in Envelope /\ q[i].seq \in Nat
<1>1. q[i] \in Envelope
  OBVIOUS
<1>2. QED
  BY <1>1 DEF Envelope

\* What Append does, once for all the sequences below.
LEMMA AppendIsOneMore ==
    ASSUME NEW S, NEW q \in Seq(S), NEW e \in S
    PROVE  /\ Len(q) \in Nat /\ Len(Append(q, e)) = Len(q) + 1
           /\ Append(q, e)[Len(q) + 1] = e
           /\ \A i \in 1 .. Len(q) : Append(q, e)[i] = q[i] /\ q[i] \in S
OBVIOUS

-----------------------------------------------------------------------------
(* The inductive invariant of the window. *)

\* An envelope in the hands of its thread.
Held(o) == task[o].phase \in {"stamped", "recorded"}

\* What the store has handled.
Seen(n) == n \in store.ignored \/ \E i \in 1 .. Len(store.applied) : store.applied[i] = n

\* No number is at two places on its way to the page, and none comes back that the
\* store has handled.
NumbersApart ==
    /\ \A o \in Ops : Held(o) => task[o].env \in Envelope /\ task[o].env.seq <= seq
    /\ \A o, p \in Ops : o # p /\ Held(o) /\ Held(p) => task[o].env.seq # task[p].env.seq
    /\ \A i \in 1 .. Len(chan) :
         /\ chan[i].seq <= seq
         /\ \A o \in Ops : Held(o) => task[o].env.seq # chan[i].seq
         /\ \A j \in 1 .. Len(chan) : i # j => chan[i].seq # chan[j].seq

SeenIsGone ==
    \A n \in Nat : Seen(n) =>
        /\ n <= seq
        /\ \A o \in Ops : Held(o) => task[o].env.seq # n
        /\ \A i \in 1 .. Len(chan) : chan[i].seq # n

\* A store that has seen an event has counted from it: each number since is applied
\* or missed, and if none is missed they are all there, one after the other.
Counted(s, f) ==
    /\ s.lastSeq = 0 => s.applied = <<>> /\ s.missed = 0 /\ s.ignored = {} /\ f = 0
    /\ s.lastSeq # 0 =>
         /\ f \in 1 .. s.lastSeq
         /\ Len(s.applied) + s.missed = s.lastSeq - f + 1
         /\ Len(s.applied) > 0 /\ s.applied[Len(s.applied)] = s.lastSeq
    /\ s.needsReplay <=> s.missed > 0
    /\ \A i, j \in 1 .. Len(s.applied) : i < j => s.applied[i] < s.applied[j]
    /\ ~s.needsReplay => \A i \in 1 .. Len(s.applied) : s.applied[i] = f + i - 1

Passed(s, f) ==
    \A n \in s.ignored :
        /\ n <= s.lastSeq
        /\ \A i \in 1 .. Len(s.applied) : s.applied[i] # n
        /\ n > f => s.needsReplay

IInv == Typed /\ NumbersApart /\ SeenIsGone /\ Counted(store, first) /\ Passed(store, first)

LEMMA InitIInv == Init => IInv
<1> SUFFICES ASSUME Init PROVE IInv
  OBVIOUS
<1>1. Typed
  BY DEF Init, Typed, TaskRecord, StoreRecord, InitialState, NoAnswer, Phases
<1>2. NumbersApart /\ SeenIsGone
  BY DEF Init, NumbersApart, SeenIsGone, Held, Seen, InitialState
<1>3. Counted(store, first) /\ Passed(store, first)
  BY DEF Init, Counted, Passed, InitialState
<1>4. QED
  BY <1>1, <1>2, <1>3 DEF IInv

-----------------------------------------------------------------------------
(* The publishing threads. *)

LEMMA StampIInv ==
    ASSUME IInv, NEW o \in Ops, NEW kind \in Kinds, Stamp(o, kind)
    PROVE  IInv'
<1> DEFINE env == [seq |-> seq + 1, op |-> o, kind |-> kind]
           r == [phase |-> "stamped", sent |-> task[o].sent + 1, env |-> env]
<1>1. seq \in Nat /\ task[o] \in TaskRecord
  BY DEF IInv, Typed
<1>2. env \in Envelope /\ r \in TaskRecord
  BY <1>1 DEF Envelope, TaskRecord, Phases
<1>3. task' = [task EXCEPT ![o] = r] /\ seq' = seq + 1
  BY DEF Stamp
<1>4. /\ task' \in [Ops -> TaskRecord] /\ task'[o].phase = "stamped"
      /\ task'[o].env \in Envelope /\ task'[o].env.seq = seq + 1
      /\ \A p \in Ops : p # o => task'[p] = task[p]
  BY <1>2, <1>3 DEF IInv, Typed
<1>5. UNCHANGED <<ring, chan, store, first, answer>>
  BY DEF Stamp, page
<1>6. Typed'
  BY <1>1, <1>3, <1>4, <1>5 DEF IInv, Typed
<1>7. \A p \in Ops : p # o => (Held(p)' <=> Held(p))
  BY <1>4 DEF Held
<1>8. \A p \in Ops : Held(p) => task[p].env.seq \in Nat
  BY DEF IInv, NumbersApart, Envelope
<1>9. \A i \in 1 .. Len(chan) : chan[i].seq \in Nat
  BY EnvelopesAreNumbered DEF IInv, Typed
<1>10. NumbersApart'
  <2>1. \A p \in Ops : Held(p)' => task'[p].env \in Envelope /\ task'[p].env.seq <= seq + 1
    BY <1>1, <1>4, <1>7, <1>8 DEF IInv, NumbersApart
  <2>2. ASSUME NEW p \in Ops, NEW q \in Ops, p # q, Held(p)', Held(q)'
        PROVE  task'[p].env.seq # task'[q].env.seq
    <3>1. CASE p = o
      BY <3>1, <2>2, <1>1, <1>4, <1>7, <1>8 DEF IInv, NumbersApart
    <3>2. CASE q = o
      BY <3>2, <2>2, <1>1, <1>4, <1>7, <1>8 DEF IInv, NumbersApart
    <3>3. CASE p # o /\ q # o
      BY <3>3, <2>2, <1>4, <1>7 DEF IInv, NumbersApart
    <3>4. QED
      BY <3>1, <3>2, <3>3
  <2>3. ASSUME NEW i \in 1 .. Len(chan)
        PROVE  /\ chan[i].seq <= seq + 1
               /\ \A p \in Ops : Held(p)' => task'[p].env.seq # chan[i].seq
    <3>1. chan[i].seq \in Nat /\ chan[i].seq <= seq
      BY <1>9 DEF IInv, NumbersApart
    <3>2. \A p \in Ops : p # o /\ Held(p)' => task'[p].env.seq # chan[i].seq
      BY <1>4, <1>7 DEF IInv, NumbersApart
    <3>3. QED
      BY <3>1, <3>2, <1>1, <1>4
  <2>4. \A i, j \in 1 .. Len(chan) : i # j => chan[i].seq # chan[j].seq
    BY DEF IInv, NumbersApart
  <2>5. QED
    BY <2>1, <2>2, <2>3, <2>4, <1>3, <1>5 DEF NumbersApart
<1>11. \A n \in Nat : Seen(n)' <=> Seen(n)
  BY <1>5 DEF Seen
<1>12. SeenIsGone'
  BY <1>1, <1>3, <1>4, <1>5, <1>7, <1>11 DEF IInv, SeenIsGone
<1>13. QED
  BY <1>5, <1>6, <1>10, <1>12 DEF IInv

LEMMA RecordIInv ==
    ASSUME IInv, NEW o \in Ops, Record(o)
    PROVE  IInv'
<1> DEFINE r == [task[o] EXCEPT !.phase = "recorded"]
<1>1. task[o] \in TaskRecord /\ task[o].phase = "stamped"
  BY DEF IInv, Typed, Record
<1>2. r \in TaskRecord /\ r.phase = "recorded" /\ r.env = task[o].env
  BY <1>1 DEF TaskRecord, Phases
<1>3. task' = [task EXCEPT ![o] = r]
  BY <1>1 DEF Record, TaskRecord
<1>4. /\ task' \in [Ops -> TaskRecord] /\ task'[o] = r
      /\ \A p \in Ops : p # o => task'[p] = task[p]
  BY <1>2, <1>3 DEF IInv, Typed
<1>5. \A p \in Ops : (Held(p)' <=> Held(p)) /\ task'[p].env = task[p].env
  BY <1>1, <1>2, <1>4 DEF Held
<1>6. UNCHANGED <<seq, chan, store, first, answer>>
  BY DEF Record, page
<1>7. task[o].env \in Envelope
  BY <1>1 DEF IInv, NumbersApart, Held
<1>8. ring' \in Seq(Envelope)
  <2>1. ring' = Append(ring, task[o].env) \/ (ring # <<>> /\ ring' = Append(Tail(ring), task[o].env))
    BY StreamAssumption DEF Record, RingPush, IInv, Typed
  <2>2. ring \in Seq(Envelope)
    BY DEF IInv, Typed
  <2>3. ring # <<>> => Tail(ring) \in Seq(Envelope)
    BY <2>2
  <2>4. QED
    BY <2>1, <2>2, <2>3, <1>7
<1>9. Typed'
  BY <1>4, <1>6, <1>8 DEF IInv, Typed
<1>10. NumbersApart'
  BY <1>5, <1>6 DEF IInv, NumbersApart
<1>11. SeenIsGone'
  BY <1>5, <1>6 DEF IInv, SeenIsGone, Seen
<1>12. QED
  BY <1>6, <1>9, <1>10, <1>11 DEF IInv

LEMMA EmitIInv ==
    ASSUME IInv, NEW o \in Ops, Emit(o)
    PROVE  IInv'
<1> DEFINE to == IF task[o].env.kind = "finished" THEN "over" ELSE "idle"
           r == [task[o] EXCEPT !.phase = to]
<1>1. task[o] \in TaskRecord /\ Held(o)
  BY DEF IInv, Typed, Emit, Held
<1>2. r \in TaskRecord /\ r.phase \in {"over", "idle"}
  BY <1>1 DEF TaskRecord, Phases
<1>3. task' = [task EXCEPT ![o] = r]
  BY <1>1 DEF Emit, TaskRecord
<1>4. /\ task' \in [Ops -> TaskRecord] /\ task'[o] = r
      /\ \A p \in Ops : p # o => task'[p] = task[p]
  BY <1>2, <1>3 DEF IInv, Typed
<1>5. ~Held(o)' /\ \A p \in Ops : p # o => (Held(p)' <=> Held(p))
  BY <1>2, <1>4 DEF Held
<1>6. UNCHANGED <<seq, ring, store, first, answer>>
  BY DEF Emit, bus
<1>7. task[o].env \in Envelope
  BY <1>1 DEF IInv, NumbersApart
<1>8. PICK env \in Envelope : env = task[o].env
  BY <1>7
<1>9. chan' = chan \/ chan' = Append(chan, env)
  BY <1>8 DEF Emit
<1>10. /\ chan' \in Seq(Envelope)
       /\ \A i \in 1 .. Len(chan') : chan'[i] = env \/ (i \in 1 .. Len(chan) /\ chan'[i] = chan[i])
  <2>1. chan \in Seq(Envelope)
    BY DEF IInv, Typed
  <2>2. CASE chan' = chan
    BY <2>1, <2>2
  <2>3. CASE chan' = Append(chan, env)
    BY <2>1, <2>3
  <2>4. QED
    BY <1>9, <2>2, <2>3
<1>11. Typed'
  BY <1>4, <1>6, <1>10 DEF IInv, Typed
<1>12. /\ env.seq <= seq
       /\ \A i \in 1 .. Len(chan) : chan[i].seq # env.seq
       /\ \A p \in Ops : p # o /\ Held(p) => task[p].env.seq # env.seq
  BY <1>1, <1>8 DEF IInv, NumbersApart
<1>13. CASE chan' = chan
  <2>1. NumbersApart'
    BY <1>4, <1>5, <1>6, <1>13 DEF IInv, NumbersApart
  <2>2. SeenIsGone'
    BY <1>4, <1>5, <1>6, <1>13 DEF IInv, SeenIsGone, Seen
  <2>3. QED
    BY <2>1, <2>2, <1>6, <1>11 DEF IInv
<1>14. CASE chan' = Append(chan, env)
  <2>1. /\ Len(chan') = Len(chan) + 1 /\ chan'[Len(chan) + 1] = env
        /\ \A i \in 1 .. Len(chan) : chan'[i] = chan[i]
        /\ Len(chan) \in Nat
    BY <1>14 DEF IInv, Typed
  <2>2. \A p \in Ops : Held(p)' => p # o /\ Held(p) /\ task'[p] = task[p]
    BY <1>4, <1>5
  <2>3. \A p \in Ops : Held(p)' => task'[p].env \in Envelope /\ task'[p].env.seq <= seq'
    BY <2>2, <1>6 DEF IInv, NumbersApart
  <2>4. \A p, q \in Ops : p # q /\ Held(p)' /\ Held(q)' => task'[p].env.seq # task'[q].env.seq
    BY <2>2 DEF IInv, NumbersApart
  <2>5. \A i \in 1 .. Len(chan') :
           /\ chan'[i].seq <= seq'
           /\ \A p \in Ops : Held(p)' => task'[p].env.seq # chan'[i].seq
    BY <2>1, <2>2, <1>6, <1>10, <1>12 DEF IInv, NumbersApart
  <2>6. \A i, j \in 1 .. Len(chan') : i # j => chan'[i].seq # chan'[j].seq
    BY <2>1, <1>10, <1>12 DEF IInv, NumbersApart
  <2>7. NumbersApart'
    BY <2>3, <2>4, <2>5, <2>6 DEF NumbersApart
  <2>8. \A n \in Nat : Seen(n)' => Seen(n) /\ n # env.seq
    BY <1>1, <1>6, <1>8 DEF Seen, IInv, SeenIsGone
  <2>9. SeenIsGone'
    BY <2>2, <2>8, <1>6, <1>10 DEF IInv, SeenIsGone
  <2>10. QED
    BY <2>7, <2>9, <1>6, <1>11 DEF IInv
<1>15. QED
  BY <1>9, <1>13, <1>14

-----------------------------------------------------------------------------
(* The page. *)

LEMMA SubscribeIInv ==
    ASSUME IInv, Subscribe
    PROVE  IInv'
BY DEF IInv, Subscribe, bus, Typed, NumbersApart, SeenIsGone, Counted, Passed, Held, Seen

LEMMA ReloadIInv ==
    ASSUME IInv, Reload
    PROVE  IInv'
<1>1. /\ UNCHANGED <<seq, ring, task>> /\ chan' = <<>> /\ first' = 0
      /\ store' = InitialState /\ answer' = NoAnswer
  BY DEF Reload, bus
<1>2. Typed'
  BY <1>1 DEF IInv, Typed, StoreRecord, InitialState, NoAnswer
<1>3. NumbersApart' /\ SeenIsGone'
  BY <1>1 DEF IInv, NumbersApart, SeenIsGone, Held, Seen, InitialState
<1>4. (Counted(store, first) /\ Passed(store, first))'
  BY <1>1 DEF Counted, Passed, InitialState
<1>5. QED
  BY <1>2, <1>3, <1>4 DEF IInv

\* A store that applies an envelope that is not stale stays one that has counted.
LEMMA ApplyCounts ==
    ASSUME StreamAssumption, NEW s \in StoreRecord, NEW f \in Nat, NEW env \in Envelope,
           Counted(s, f), Passed(s, f), ~Stale(s, env)
    PROVE  LET t == Accept(s, env)
               g == IF f = 0 THEN env.seq ELSE f
           IN  t \in StoreRecord /\ Counted(t, g) /\ Passed(t, g)
<1> DEFINE t == Accept(s, env)
           g == IF f = 0 THEN env.seq ELSE f
<1>1. /\ env.seq \in Nat /\ env.seq # 0 /\ env.op \in Ops /\ env.seq > s.lastSeq
      /\ s.lastSeq \in Nat /\ s.missed \in Nat /\ s.applied \in Seq(Nat)
      /\ s.needsReplay \in BOOLEAN /\ s.ignored \in SUBSET Nat
      /\ s.view \in [Domains -> {"none", "running", "finished"}]
  BY DEF Stale, StoreRecord, Envelope
<1>2. ViewAfter(s.view, env) \in [Domains -> {"none", "running", "finished"}]
  BY <1>1 DEF ViewAfter, StreamAssumption
<1>3. PICK m \in Nat : m = IF Gap(s, env) THEN s.missed + env.seq - s.lastSeq - 1 ELSE s.missed
  BY <1>1 DEF Gap
<1>4. PICK n \in BOOLEAN : n <=> s.needsReplay \/ Gap(s, env)
  OBVIOUS
<1>5. t = [s EXCEPT !.lastSeq = env.seq, !.applied = Append(@, env.seq), !.missed = m,
                    !.needsReplay = n, !.view = ViewAfter(@, env)]
  <2>1. n = (s.needsReplay \/ Gap(s, env))
    BY <1>1, <1>4 DEF Gap
  <2>2. QED
    BY <1>3, <2>1, <1>1 DEF Accept, Applied, StoreRecord
<1> HIDE DEF t
<1>6. /\ t \in StoreRecord
      /\ t.lastSeq = env.seq /\ t.applied = Append(s.applied, env.seq) /\ t.missed = m
      /\ t.needsReplay = n /\ t.ignored = s.ignored
  <2>1. Append(s.applied, env.seq) \in Seq(Nat)
    BY <1>1
  <2>2. t = [lastSeq |-> env.seq, applied |-> Append(s.applied, env.seq), missed |-> m,
             needsReplay |-> n, ignored |-> s.ignored, view |-> ViewAfter(s.view, env)]
    BY <1>5 DEF StoreRecord
  <2>3. QED
    BY <1>1, <1>2, <2>1, <2>2 DEF StoreRecord
<1>7. /\ Len(t.applied) = Len(s.applied) + 1 /\ t.applied[Len(s.applied) + 1] = env.seq
      /\ \A i \in 1 .. Len(s.applied) : t.applied[i] = s.applied[i]
      /\ Len(s.applied) \in Nat
      /\ \A i \in 1 .. Len(s.applied) : s.applied[i] \in Nat
  <2>1. s.applied \in Seq(Nat) /\ env.seq \in Nat /\ t.applied = Append(s.applied, env.seq)
    BY <1>1, <1>6
  <2>2. QED
    BY <2>1, AppendIsOneMore
<1>8. \A i \in 1 .. Len(s.applied) : s.applied[i] <= s.lastSeq
  <2>1. CASE s.lastSeq = 0
    BY <2>1 DEF Counted
  <2>2. CASE s.lastSeq # 0
    <3> SUFFICES ASSUME NEW i \in 1 .. Len(s.applied) PROVE s.applied[i] <= s.lastSeq
      OBVIOUS
    <3>1. i = Len(s.applied) \/ i < Len(s.applied)
      BY <1>7
    <3>2. Len(s.applied) \in 1 .. Len(s.applied) /\ s.applied[Len(s.applied)] = s.lastSeq
      BY <2>2, <1>1, <1>7 DEF Counted
    <3>3. i < Len(s.applied) => s.applied[i] < s.applied[Len(s.applied)]
      BY <3>2 DEF Counted
    <3>4. QED
      BY <3>1, <3>2, <3>3, <1>1, <1>7
  <2>3. QED
    BY <2>1, <2>2
<1>9. CASE s.lastSeq = 0
  <2>1. s.applied = <<>> /\ s.missed = 0 /\ s.ignored = {} /\ f = 0 /\ ~s.needsReplay
    BY <1>9 DEF Counted
  <2>2. t.missed = 0 /\ ~t.needsReplay /\ g = env.seq /\ Len(t.applied) = 1
    BY <1>1, <1>3, <1>4, <1>6, <1>7, <1>9, <2>1 DEF Gap
  <2>3. Counted(t, g)
    BY <1>1, <1>3, <1>4, <1>6, <1>7, <2>1, <2>2 DEF Counted
  <2>4. Passed(t, g)
    BY <1>3, <1>4, <1>6, <2>1 DEF Passed
  <2>5. QED
    BY <1>6, <2>3, <2>4 DEF t
<1>10. CASE s.lastSeq # 0
  <2>1. /\ f \in 1 .. s.lastSeq /\ g = f
        /\ Len(s.applied) + s.missed = s.lastSeq - f + 1
    BY <1>10, <1>1 DEF Counted
  <2>2. t.missed = s.missed + env.seq - s.lastSeq - 1
    BY <1>1, <1>3, <1>4, <1>6, <1>10 DEF Gap
  <2>3. t.needsReplay <=> t.missed > 0
    <3>1. s.needsReplay <=> s.missed > 0
      BY DEF Counted
    <3>2. Gap(s, env) <=> env.seq > s.lastSeq + 1
      BY <1>1, <1>10 DEF Gap
    <3>3. n <=> s.missed > 0 \/ env.seq > s.lastSeq + 1
      BY <1>4, <3>1, <3>2
    <3>4. n <=> t.missed > 0
      BY <1>1, <2>2, <3>3
    <3>5. QED
      BY <1>6, <3>4, Zenon
  <2>4. \A i, j \in 1 .. Len(t.applied) : i < j => t.applied[i] < t.applied[j]
    <3> SUFFICES ASSUME NEW i \in 1 .. Len(t.applied), NEW j \in 1 .. Len(t.applied), i < j
                 PROVE  t.applied[i] < t.applied[j]
      OBVIOUS
    <3>1. i \in 1 .. Len(s.applied)
      BY <1>7
    <3>2. CASE j \in 1 .. Len(s.applied)
      BY <3>1, <3>2, <1>7 DEF Counted
    <3>3. CASE j = Len(s.applied) + 1
      <4>1. t.applied[j] = env.seq /\ t.applied[i] = s.applied[i]
        BY <3>1, <3>3, <1>7
      <4>2. s.applied[i] \in Nat /\ s.applied[i] <= s.lastSeq
        BY <3>1, <1>7, <1>8
      <4>3. QED
        BY <4>1, <4>2, <1>1
    <3>4. QED
      BY <3>2, <3>3, <1>7
  <2>5. ~t.needsReplay => \A i \in 1 .. Len(t.applied) : t.applied[i] = g + i - 1
    <3> SUFFICES ASSUME ~t.needsReplay, NEW i \in 1 .. Len(t.applied)
                 PROVE  t.applied[i] = g + i - 1
      OBVIOUS
    <3>1. ~s.needsReplay /\ env.seq = s.lastSeq + 1 /\ s.missed = 0
      BY <1>1, <1>3, <1>4, <1>6, <1>10 DEF Gap, Counted
    <3>2. CASE i \in 1 .. Len(s.applied)
      <4>1. s.applied[i] = f + i - 1 /\ t.applied[i] = s.applied[i]
        BY <3>1, <3>2, <1>7 DEF Counted
      <4>2. QED
        BY <4>1, <2>1
    <3>3. CASE i = Len(s.applied) + 1
      BY <3>1, <3>3, <1>1, <1>7, <2>1
    <3>4. QED
      BY <3>2, <3>3, <1>7
  <2>6. Counted(t, g)
    <3>1. t.lastSeq # 0 /\ g \in 1 .. t.lastSeq
      BY <1>1, <1>6, <2>1
    <3>2. Len(t.applied) + t.missed = t.lastSeq - g + 1
      <4>1. PICK shown \in Nat : shown = Len(s.applied)
        BY <1>7
      <4>2. Len(t.applied) = shown + 1
        BY <4>1, <1>7
      <4>3. shown + s.missed = s.lastSeq - f + 1
        BY <4>1, <2>1
      <4>4. shown + 1 + (s.missed + env.seq - s.lastSeq - 1) = env.seq - f + 1
        <5>1. s.missed \in Nat /\ s.lastSeq \in Nat /\ env.seq \in Nat
          BY <1>1
        <5>2. QED
          BY <4>3, <5>1
      <4>5. t.missed = s.missed + env.seq - s.lastSeq - 1 /\ t.lastSeq = env.seq /\ g = f
        BY <1>6, <2>1, <2>2
      <4>6. QED
        BY <4>2, <4>4, <4>5, Zenon
    <3>3. Len(t.applied) > 0 /\ t.applied[Len(t.applied)] = t.lastSeq
      BY <1>6, <1>7
    <3>4. QED
      BY <3>1, <3>2, <3>3, <2>3, <2>4, <2>5 DEF Counted
  <2>7. Passed(t, g)
    <3> SUFFICES ASSUME NEW p \in t.ignored
                 PROVE  /\ p <= t.lastSeq
                        /\ \A i \in 1 .. Len(t.applied) : t.applied[i] # p
                        /\ p > g => t.needsReplay
      BY DEF Passed
    <3>1. p \in s.ignored /\ p \in Nat
      BY <1>1, <1>6
    <3>2. /\ p <= s.lastSeq /\ (p > f => s.needsReplay)
          /\ \A i \in 1 .. Len(s.applied) : s.applied[i] # p
      BY <3>1 DEF Passed
    <3>3. p < env.seq /\ t.lastSeq = env.seq
      BY <3>1, <3>2, <1>1, <1>6
    <3>4. p > g => t.needsReplay
      BY <3>2, <2>1, <1>4, <1>6
    <3>5. ASSUME NEW i \in 1 .. Len(t.applied) PROVE t.applied[i] # p
      <4>1. CASE i \in 1 .. Len(s.applied)
        BY <4>1, <3>2, <1>7
      <4>2. CASE i = Len(s.applied) + 1
        BY <4>2, <3>1, <3>3, <1>1, <1>7
      <4>3. QED
        BY <4>1, <4>2, <1>7
    <3>6. QED
      BY <3>1, <3>3, <3>4, <3>5, <1>1
  <2>8. QED
    BY <1>6, <2>6, <2>7 DEF t
<1>11. QED
  BY <1>9, <1>10

\* A store that ignores an envelope it has not seen stays so too: without a loss it
\* would have applied that number.
LEMMA IgnoreCounts ==
    ASSUME NEW s \in StoreRecord, NEW f \in Nat, NEW env \in Envelope,
           Counted(s, f), Passed(s, f), Stale(s, env),
           \A i \in 1 .. Len(s.applied) : s.applied[i] # env.seq
    PROVE  LET t == [s EXCEPT !.ignored = @ \cup {env.seq}]
           IN  t \in StoreRecord /\ Counted(t, f) /\ Passed(t, f)
<1> DEFINE t == [s EXCEPT !.ignored = @ \cup {env.seq}]
<1>1. /\ env.seq \in Nat /\ env.seq # 0 /\ env.seq <= s.lastSeq
      /\ s.lastSeq \in Nat /\ s.missed \in Nat /\ Len(s.applied) \in Nat
  BY DEF Stale, StoreRecord, Envelope
<1>2. t \in StoreRecord
  BY <1>1 DEF StoreRecord
<1>3. /\ t.lastSeq = s.lastSeq /\ t.applied = s.applied /\ t.missed = s.missed
      /\ t.needsReplay = s.needsReplay /\ t.ignored = s.ignored \cup {env.seq}
  BY DEF StoreRecord
<1>4. s.lastSeq # 0
  BY <1>1
<1>5. Counted(t, f)
  BY <1>3, <1>4 DEF Counted
<1>6. env.seq > f => s.needsReplay
  <2> SUFFICES ASSUME env.seq > f, ~s.needsReplay PROVE FALSE
    OBVIOUS
  <2>1. s.missed = 0 /\ Len(s.applied) = s.lastSeq - f + 1
    BY <1>1, <1>4 DEF Counted
  <2>2. env.seq - f + 1 \in 1 .. Len(s.applied)
    BY <1>1, <2>1
  <2>3. s.applied[env.seq - f + 1] = f + (env.seq - f + 1) - 1
    BY <2>2 DEF Counted
  <2>4. QED
    BY <1>1, <2>2, <2>3
<1>7. Passed(t, f)
  BY <1>1, <1>3, <1>6 DEF Passed
<1>8. QED
  BY <1>2, <1>5, <1>7

LEMMA HandleIInv ==
    ASSUME IInv, Handle
    PROVE  IInv'
<1>1. PICK env \in Envelope : env = Head(chan) /\ env = chan[1]
  BY DEF IInv, Typed, Handle
<1>2. /\ chan \in Seq(Envelope) /\ chan # <<>> /\ chan' = Tail(chan)
      /\ UNCHANGED <<seq, ring, task, answer>>
  BY DEF IInv, Typed, Handle, bus
<1>3. /\ Len(chan) \in Nat /\ Len(chan) > 0 /\ chan' \in Seq(Envelope)
      /\ Len(chan') = Len(chan) - 1
      /\ \A i \in 1 .. Len(chan') : i + 1 \in 1 .. Len(chan) /\ chan'[i] = chan[i + 1]
  BY <1>2
<1>4. /\ env.seq \in Nat /\ env.seq <= seq
      /\ \A o \in Ops : Held(o) => task[o].env.seq # env.seq
      /\ \A i \in 1 .. Len(chan) : i # 1 => chan[i].seq # env.seq
  BY <1>1, <1>3 DEF IInv, NumbersApart, Envelope
<1>5. \A i \in 1 .. Len(chan') : chan'[i].seq # env.seq
  BY <1>3, <1>4
<1>6. \A n \in Nat : Seen(n)' => Seen(n) \/ n = env.seq
  <2>1. CASE Stale(store, env)
    <3>1. store' = [store EXCEPT !.ignored = @ \cup {env.seq}]
      BY <1>1, <2>1 DEF Handle
    <3>2. store'.ignored = store.ignored \cup {env.seq} /\ store'.applied = store.applied
      BY <3>1 DEF IInv, Typed, StoreRecord
    <3>3. QED
      BY <3>2 DEF Seen
  <2>2. CASE ~Stale(store, env)
    <3>1. store' = Accept(store, env)
      BY <1>1, <2>2 DEF Handle
    <3>2. store'.ignored = store.ignored /\ store'.applied = Append(store.applied, env.seq)
      BY <3>1 DEF IInv, Typed, StoreRecord, Accept, Applied
    <3>3. store.applied \in Seq(Nat)
      BY DEF IInv, Typed, StoreRecord
    <3>4. \A i \in 1 .. Len(store'.applied) :
             store'.applied[i] = env.seq \/ (i \in 1 .. Len(store.applied)
                                             /\ store'.applied[i] = store.applied[i])
      BY <3>2, <3>3, <1>4
    <3>5. QED
      BY <3>2, <3>4 DEF Seen
  <2>3. QED
    BY <2>1, <2>2
<1>7. NumbersApart'
  BY <1>2, <1>3 DEF IInv, NumbersApart, Held
<1>8. SeenIsGone'
  BY <1>2, <1>3, <1>4, <1>5, <1>6 DEF IInv, SeenIsGone, Held
<1>9. store' \in StoreRecord /\ first' \in Nat /\ Counted(store', first') /\ Passed(store', first')
  <2>1. CASE Stale(store, env)
    <3>1. store' = [store EXCEPT !.ignored = @ \cup {env.seq}] /\ first' = first
      BY <1>1, <2>1 DEF Handle
    <3>2. \A i \in 1 .. Len(store.applied) : store.applied[i] # env.seq
      BY <1>1, <1>3, <1>4 DEF IInv, SeenIsGone, Seen
    <3>3. /\ store \in StoreRecord /\ first \in Nat
          /\ Counted(store, first) /\ Passed(store, first)
      BY DEF IInv, Typed
    <3>4. QED
      BY <3>1, <3>2, <3>3, <2>1, IgnoreCounts, Zenon
  <2>2. CASE ~Stale(store, env)
    <3>1. store' = Accept(store, env) /\ first' = IF first = 0 THEN env.seq ELSE first
      BY <1>1, <2>2 DEF Handle
    <3>2. /\ store \in StoreRecord /\ first \in Nat
          /\ Counted(store, first) /\ Passed(store, first)
      BY DEF IInv, Typed
    <3>3. first' \in Nat
      BY <3>1, <3>2, <1>4
    <3>4. QED
      BY <3>1, <3>2, <3>3, <2>2, ApplyCounts, StreamAssumption, Zenon
  <2>3. QED
    BY <2>1, <2>2
<1>10. Typed'
  BY <1>2, <1>3, <1>9 DEF IInv, Typed
<1>11. QED
  BY <1>7, <1>8, <1>9, <1>10 DEF IInv

LEMMA ReplayIInv ==
    ASSUME IInv, Replay
    PROVE  IInv'
<1>1. UNCHANGED <<seq, ring, task, chan, store, first>>
  BY DEF Replay, AskReplay, CopyRing, ReadLast, DropAnswer, bus, page
<1>2. answer' \in [step : {"none", "since", "last", "answered"}, from : Nat,
                   events : SUBSET Envelope, last : Nat]
  <2>1. CASE AskReplay
    <3>1. store.lastSeq + 1 \in Nat
      BY DEF IInv, Typed, StoreRecord
    <3>2. answer' = [step |-> "since", from |-> store.lastSeq + 1, events |-> {}, last |-> 0]
      BY <2>1 DEF AskReplay, NoAnswer
    <3>3. QED
      BY <3>1, <3>2
  <2>2. CASE CopyRing
    <3>1. Since(answer.from) \in SUBSET Envelope
      BY DEF Since, IInv, Typed
    <3>2. QED
      BY <2>2, <3>1 DEF CopyRing, IInv, Typed
  <2>3. CASE ReadLast
    BY <2>3 DEF ReadLast, LastSeq, IInv, Typed
  <2>4. CASE DropAnswer
    BY <2>4 DEF DropAnswer, NoAnswer
  <2>5. QED
    BY <2>1, <2>2, <2>3, <2>4 DEF Replay
<1>3. Typed'
  BY <1>1, <1>2 DEF IInv, Typed
<1>4. NumbersApart' /\ SeenIsGone'
  BY <1>1 DEF IInv, NumbersApart, SeenIsGone, Held, Seen
<1>5. QED
  BY <1>1, <1>3, <1>4 DEF IInv

LEMMA NextIInv == IInv /\ [Next]_vars => IInv'
<1> SUFFICES ASSUME IInv, [Next]_vars PROVE IInv'
  OBVIOUS
<1>1. ASSUME NEW o \in Ops, Publish(o) PROVE IInv'
  BY <1>1, StampIInv, RecordIInv, EmitIInv DEF Publish
<1>2. CASE UNCHANGED vars
  BY <1>2 DEF vars, IInv, Typed, NumbersApart, SeenIsGone, Held, Seen
<1>3. QED
  BY <1>1, <1>2, SubscribeIInv, ReloadIInv, HandleIInv, ReplayIInv DEF Next, Terminating

\* Numbers on the way are apart, and the store has counted what it has passed over, in
\* every reachable state (events.rs, eventStore.ts).
THEOREM StreamInvariant == Spec => []IInv
BY InitIInv, NextIInv, PTL DEF Spec

\* What the window shows is in order, and each number since its first event that it
\* does not show is counted as missed (applyEvent, eventStore.ts).
THEOREM NothingIsLostSilently == Spec => []LossIsCounted
<1>1. IInv => LossIsCounted
  BY DEF IInv, Counted, Passed, LossIsCounted, ShownInOrder, NoSilentLoss, IgnoredIsMissed
<1>2. QED
  BY <1>1, StreamInvariant, PTL

-----------------------------------------------------------------------------
(* The ring, and what it answers. *)

Stamped(o) == task[o].phase = "stamped"

\* A number is recorded once, by the thread that was given it; while the ring has room
\* every number given out is in it or in the hands of that thread.
RingIsWhole ==
    /\ \A i \in 1 .. Len(ring) :
         /\ ring[i].seq <= seq
         /\ \A o \in Ops : Stamped(o) => task[o].env.seq # ring[i].seq
         /\ \A j \in 1 .. Len(ring) : i # j => ring[i].seq # ring[j].seq
    /\ Len(ring) <= RingCapacity
    /\ Len(ring) < RingCapacity =>
         \A n \in 1 .. seq :
            \/ \E i \in 1 .. Len(ring) : ring[i].seq = n
            \/ \E o \in Ops : Stamped(o) /\ task[o].env.seq = n

\* What a replay has copied was given out before it reads the last number.
CopyIsOld ==
    /\ \A env \in answer.events : env.seq <= seq
    /\ answer.step = "answered" => \A env \in answer.events : env.seq <= answer.last

RingInv == IInv /\ RingIsWhole /\ CopyIsOld

LEMMA InitRing == Init => RingInv
<1> SUFFICES ASSUME Init PROVE RingInv
  OBVIOUS
<1>1. RingIsWhole
  BY StreamAssumption DEF Init, RingIsWhole, Stamped
<1>2. CopyIsOld
  BY DEF Init, CopyIsOld, NoAnswer
<1>3. QED
  BY <1>1, <1>2, InitIInv DEF RingInv

LEMMA StampRing ==
    ASSUME RingInv, NEW o \in Ops, NEW kind \in Kinds, Stamp(o, kind)
    PROVE  RingIsWhole' /\ CopyIsOld'
<1>1. seq \in Nat /\ seq' = seq + 1 /\ UNCHANGED <<ring, answer>>
  BY DEF RingInv, IInv, Typed, Stamp
<1>2. /\ Stamped(o)' /\ task'[o].env.seq = seq + 1 /\ task[o].phase = "idle"
      /\ \A p \in Ops : p # o => task'[p] = task[p]
  BY DEF RingInv, IInv, Typed, Stamp, Stamped
<1>3. \A i \in 1 .. Len(ring) : ring[i].seq \in Nat /\ ring[i].seq <= seq
  BY EnvelopesAreNumbered DEF RingInv, IInv, Typed, RingIsWhole
<1>4. ~Stamped(o) /\ \A p \in Ops : p # o => (Stamped(p)' <=> Stamped(p))
  BY <1>2 DEF Stamped
<1>5. \A i \in 1 .. Len(ring) :
         /\ ring[i].seq <= seq + 1
         /\ \A p \in Ops : Stamped(p)' => task'[p].env.seq # ring[i].seq
         /\ \A j \in 1 .. Len(ring) : i # j => ring[i].seq # ring[j].seq
  BY <1>1, <1>2, <1>3, <1>4 DEF RingInv, RingIsWhole
<1>6. ASSUME Len(ring) < RingCapacity, NEW n \in 1 .. seq + 1
      PROVE  \/ \E i \in 1 .. Len(ring) : ring[i].seq = n
             \/ \E p \in Ops : Stamped(p)' /\ task'[p].env.seq = n
  <2>1. CASE n = seq + 1
    BY <2>1, <1>2
  <2>2. CASE n \in 1 .. seq
    <3>1. CASE \E i \in 1 .. Len(ring) : ring[i].seq = n
      BY <3>1
    <3>2. CASE \E p \in Ops : Stamped(p) /\ task[p].env.seq = n
      BY <3>2, <1>2, <1>4
    <3>3. QED
      BY <1>6, <2>2, <3>1, <3>2 DEF RingInv, RingIsWhole
  <2>3. QED
    BY <2>1, <2>2, <1>1
<1>7. RingIsWhole'
  BY <1>1, <1>5, <1>6 DEF RingInv, RingIsWhole
<1>8. \A env \in answer.events : env.seq \in Nat
  BY DEF RingInv, IInv, Typed, Envelope
<1>9. CopyIsOld'
  BY <1>1, <1>8 DEF RingInv, CopyIsOld
<1>10. QED
  BY <1>7, <1>9

LEMMA RecordRing ==
    ASSUME RingInv, NEW o \in Ops, Record(o)
    PROVE  RingIsWhole' /\ CopyIsOld'
<1>1. UNCHANGED <<seq, answer>>
  BY DEF Record, page
<1>2. /\ Stamped(o) /\ ~Stamped(o)'
      /\ \A p \in Ops : p # o => task'[p] = task[p] /\ (Stamped(p)' <=> Stamped(p))
  BY DEF RingInv, IInv, Typed, Record, Stamped
<1>3. PICK env \in Envelope : env = task[o].env
  BY <1>2 DEF RingInv, IInv, NumbersApart, Held, Stamped
<1>4. /\ env.seq <= seq /\ env.seq \in Nat
      /\ \A p \in Ops : p # o /\ Stamped(p) => task[p].env.seq # env.seq
      /\ \A i \in 1 .. Len(ring) : ring[i].seq # env.seq
  BY <1>2, <1>3 DEF RingInv, IInv, NumbersApart, RingIsWhole, Held, Stamped, Envelope
<1>5. /\ ring \in Seq(Envelope) /\ Len(ring) \in Nat /\ Len(ring) <= RingCapacity
      /\ RingCapacity \in Nat \ {0}
  BY StreamAssumption DEF RingInv, IInv, Typed, RingIsWhole
<1>6. CASE Len(ring) = RingCapacity
  <2>1. ring' = Append(Tail(ring), env) /\ ring # <<>>
    BY <1>3, <1>5, <1>6 DEF Record, RingPush
  <2>2. PICK rest \in Seq(Envelope) : rest = Tail(ring)
    <3>1. Tail(ring) \in Seq(Envelope)
      BY <1>5, <2>1
    <3>2. QED
      BY <3>1
  <2>3. /\ Len(rest) = Len(ring) - 1
        /\ \A i \in 1 .. Len(rest) : i + 1 \in 1 .. Len(ring) /\ rest[i] = ring[i + 1]
    BY <1>5, <2>1, <2>2
  <2>4. /\ Len(ring') = Len(ring) /\ ring'[Len(ring)] = env
        /\ \A i \in 1 .. Len(ring) : i # Len(ring) => i \in 1 .. Len(rest) /\ ring'[i] = rest[i]
    <3>1. ring' = Append(rest, env) /\ Len(rest) \in Nat
      BY <2>1, <2>2
    <3>2. Len(ring') = Len(rest) + 1 /\ ring'[Len(rest) + 1] = env
      BY <3>1
    <3>3. \A i \in 1 .. Len(rest) : ring'[i] = rest[i]
      BY <3>1
    <3>4. QED
      BY <1>5, <2>3, <3>1, <3>2, <3>3
  <2>5. \A i \in 1 .. Len(ring) :
           i # Len(ring) => i + 1 \in 1 .. Len(ring) /\ ring'[i] = ring[i + 1]
    BY <2>3, <2>4
  <2>6. \A i \in 1 .. Len(ring) :
           /\ ring'[i].seq <= seq
           /\ \A p \in Ops : Stamped(p)' => task'[p].env.seq # ring'[i].seq
    BY <1>2, <1>4, <2>4, <2>5 DEF RingInv, RingIsWhole
  <2>7. ASSUME NEW i \in 1 .. Len(ring), NEW j \in 1 .. Len(ring), i # j
        PROVE  ring'[i].seq # ring'[j].seq
    <3>1. CASE i = Len(ring)
      BY <3>1, <2>7, <2>4, <2>5, <1>4
    <3>2. CASE j = Len(ring)
      BY <3>2, <2>7, <2>4, <2>5, <1>4
    <3>3. CASE i # Len(ring) /\ j # Len(ring)
      <4>1. /\ i + 1 \in 1 .. Len(ring) /\ ring'[i] = ring[i + 1]
            /\ j + 1 \in 1 .. Len(ring) /\ ring'[j] = ring[j + 1]
        BY <3>3, <2>5
      <4>2. i + 1 # j + 1
        BY <2>7, <1>5
      <4>3. QED
        BY <4>1, <4>2 DEF RingInv, RingIsWhole
    <3>4. QED
      BY <3>1, <3>2, <3>3
  <2>8. RingIsWhole'
    BY <1>1, <1>5, <1>6, <2>4, <2>6, <2>7 DEF RingIsWhole
  <2>9. QED
    BY <2>8, <1>1 DEF RingInv, CopyIsOld
<1>7. CASE Len(ring) # RingCapacity
  <2>1. ring' = Append(ring, env)
    BY <1>3, <1>7 DEF Record, RingPush
  <2>2. /\ Len(ring') = Len(ring) + 1 /\ ring'[Len(ring) + 1] = env
        /\ \A i \in 1 .. Len(ring) : ring'[i] = ring[i]
    BY <1>5, <2>1
  <2>3. \A i \in 1 .. Len(ring') : i = Len(ring) + 1 \/ i \in 1 .. Len(ring)
    BY <1>5, <2>2
  <2>4. \A i \in 1 .. Len(ring') :
           /\ ring'[i].seq <= seq
           /\ \A p \in Ops : Stamped(p)' => task'[p].env.seq # ring'[i].seq
    BY <1>2, <1>4, <2>2, <2>3 DEF RingInv, RingIsWhole
  <2>5. \A i, j \in 1 .. Len(ring') : i # j => ring'[i].seq # ring'[j].seq
    BY <1>4, <2>2, <2>3 DEF RingInv, RingIsWhole
  <2>6. Len(ring') <= RingCapacity
    BY <1>5, <1>7, <2>2
  <2>7. ASSUME NEW n \in 1 .. seq
        PROVE  \/ \E i \in 1 .. Len(ring') : ring'[i].seq = n
               \/ \E p \in Ops : Stamped(p)' /\ task'[p].env.seq = n
    <3>1. Len(ring) < RingCapacity
      BY <1>5, <1>7
    <3>2. CASE n = env.seq
      BY <3>2, <1>5, <2>2
    <3>3. CASE \E i \in 1 .. Len(ring) : ring[i].seq = n
      <4>1. PICK i \in 1 .. Len(ring) : ring[i].seq = n
        BY <3>3
      <4>2. i \in 1 .. Len(ring') /\ ring'[i].seq = n
        BY <4>1, <1>5, <2>2
      <4>3. QED
        BY <4>2
    <3>4. CASE \E p \in Ops : p # o /\ Stamped(p) /\ task[p].env.seq = n
      BY <3>4, <1>2
    <3>5. QED
      BY <1>3, <2>7, <3>1, <3>2, <3>3, <3>4 DEF RingInv, RingIsWhole
  <2>8. RingIsWhole'
    BY <1>1, <2>4, <2>5, <2>6, <2>7 DEF RingIsWhole
  <2>9. QED
    BY <2>8, <1>1 DEF RingInv, CopyIsOld
<1>8. QED
  BY <1>6, <1>7

LEMMA EmitRing ==
    ASSUME RingInv, NEW o \in Ops, Emit(o)
    PROVE  RingIsWhole' /\ CopyIsOld'
<1>1. UNCHANGED <<seq, ring, answer>>
  BY DEF Emit, bus
<1>2. \A p \in Ops : (Stamped(p)' <=> Stamped(p)) /\ (p # o => task'[p] = task[p])
  BY DEF RingInv, IInv, Typed, Emit, Stamped
<1>3. ~Stamped(o)
  BY DEF Emit, Stamped
<1>4. RingIsWhole'
  BY <1>1, <1>2, <1>3 DEF RingInv, RingIsWhole
<1>5. QED
  BY <1>1, <1>4 DEF RingInv, CopyIsOld

LEMMA ReplayRing ==
    ASSUME RingInv, Replay
    PROVE  RingIsWhole' /\ CopyIsOld'
<1>1. UNCHANGED <<seq, ring, task>>
  BY DEF Replay, AskReplay, CopyRing, ReadLast, DropAnswer, bus, page
<1>2. RingIsWhole'
  BY <1>1 DEF RingInv, RingIsWhole, Stamped
<1>3. answer \in [step : {"none", "since", "last", "answered"}, from : Nat,
                  events : SUBSET Envelope, last : Nat]
  BY DEF RingInv, IInv, Typed
<1>4. CASE AskReplay
  BY <1>1, <1>2, <1>4 DEF AskReplay, NoAnswer, CopyIsOld
<1>5. CASE CopyRing
  <2>1. \A env \in Since(answer.from) : env.seq <= seq
    BY DEF Since, RingInv, RingIsWhole
  <2>2. answer'.events = Since(answer.from) /\ answer'.step = "last"
    BY <1>3, <1>5 DEF CopyRing
  <2>3. QED
    BY <1>1, <1>2, <2>1, <2>2 DEF CopyIsOld
<1>6. CASE ReadLast
  <2>1. answer'.events = answer.events /\ answer'.last = seq
    BY <1>3, <1>6 DEF ReadLast, LastSeq
  <2>2. QED
    BY <1>1, <1>2, <2>1 DEF RingInv, CopyIsOld
<1>7. CASE DropAnswer
  BY <1>1, <1>2, <1>7 DEF DropAnswer, NoAnswer, CopyIsOld
<1>8. QED
  BY <1>2, <1>4, <1>5, <1>6, <1>7 DEF Replay

LEMMA NextRing == RingInv /\ [Next]_vars => RingInv'
<1> SUFFICES ASSUME RingInv, [Next]_vars PROVE RingIsWhole' /\ CopyIsOld'
  BY NextIInv DEF RingInv
<1>1. ASSUME NEW o \in Ops, Publish(o) PROVE RingIsWhole' /\ CopyIsOld'
  BY <1>1, StampRing, RecordRing, EmitRing DEF Publish
<1>2. CASE Subscribe \/ Reload \/ Handle \/ UNCHANGED vars
  <2>1. UNCHANGED <<seq, ring, task>> /\ (answer' = answer \/ answer' = NoAnswer)
    BY <1>2 DEF Subscribe, Reload, Handle, bus, vars
  <2>2. QED
    BY <2>1 DEF RingInv, RingIsWhole, CopyIsOld, Stamped, NoAnswer
<1>3. QED
  BY <1>1, <1>2, ReplayRing DEF Next, Terminating

\* With the ring and the answer of a replay, in every reachable state (events.rs).
THEOREM RingInvariant == Spec => []RingInv
BY InitRing, NextRing, PTL DEF Spec

\* A ring that is not full has every number that was given out and recorded, each once,
\* and a replay answers nothing beyond the last number it reports (since, op_replay).
THEOREM NothingIsForgotten == Spec => []ReplayIsComplete
<1>1. RingInv => ReplayIsComplete
  <2> SUFFICES ASSUME RingInv PROVE ReplayIsComplete
    OBVIOUS
  <2>1. AnswerIsCovered
    BY DEF RingInv, CopyIsOld, AnswerIsCovered
  <2>2. seq \in Nat /\ \A i \in 1 .. Len(ring) : ring[i].seq \in 1 .. seq
    <3>1. \A i \in 1 .. Len(ring) : ring[i] \in Envelope
      BY EnvelopesAreNumbered DEF RingInv, IInv, Typed
    <3>2. QED
      BY <3>1 DEF RingInv, IInv, Typed, RingIsWhole, Envelope
  <2>3. RingSeqs \cap Unrecorded = {}
    BY DEF RingInv, RingIsWhole, RingSeqs, Unrecorded, Stamped
  <2>4. \A o \in Ops : Stamped(o) => task[o].env.seq \in 1 .. seq
    BY <2>2 DEF RingInv, IInv, NumbersApart, Held, Stamped, Envelope
  <2>5. ASSUME Len(ring) < RingCapacity PROVE RingSeqs \cup Unrecorded = 1 .. seq
    <3>1. RingSeqs \cup Unrecorded \subseteq 1 .. seq
      BY <2>2, <2>4 DEF RingSeqs, Unrecorded, Stamped
    <3>2. \A n \in 1 .. seq : n \in RingSeqs \cup Unrecorded
      BY <2>5 DEF RingInv, RingIsWhole, RingSeqs, Unrecorded, Stamped
    <3>3. QED
      BY <3>1, <3>2
  <2>6. NothingForgotten
    BY <2>3, <2>5 DEF RingInv, RingIsWhole, NothingForgotten
  <2>7. QED
    BY <2>1, <2>6 DEF ReplayIsComplete
<1>2. QED
  BY <1>1, RingInvariant, PTL

=============================================================================
