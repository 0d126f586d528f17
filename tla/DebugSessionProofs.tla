------------------------- MODULE DebugSessionProofs -------------------------
(***************************************************************************)
(* Proofs about a debug session of princess-debug, for any number of       *)
(* attempts to attach and of calls: responses and stops reach whom they    *)
(* are for, nothing is left behind, and a breakpoint that is listed is one *)
(* that gdb has placed.                                                    *)
(***************************************************************************)
EXTENDS DebugSession, SequenceTheorems, TLAPS

-----------------------------------------------------------------------------
(* Types. *)

Message == [kind : {"response", "stopped"}, seq : Nat, ok : BOOLEAN, note : Nat]
Commands == Requests \cup {"attach"}
Wire == [seq : Nat, command : Commands]
Conversation ==
    [adapter : {"none", "alive", "dead"}, next : Nat \ {0}, wire : Seq(Wire), owed : Nat,
     incoming : Seq(Message), eof : BOOLEAN, early : SUBSET Message, events : Seq(Message),
     closed : BOOLEAN, breakpoints : Seq({"hw", "pending"})]

Sessions ==
    [state : States, transport : Attempts \cup {0}, qemu : Attempts \cup {0},
     hardware : SUBSET (Attempts \X (Nat \ {0}))]
Ops == {"none", "attach", "resume", "frame", "simple", "prepare", "hbreak", "detach", "drop"}
Steps == {"none", "launch", "ready", "draining", "spawn", "stop", "drop"} \cup Requests \cup Attach
Calls ==
    [op : Ops, step : Steps, t : Attempts \cup {0}, seq : Nat, run : Nat, known : Nat]

Typed ==
    /\ session \in Sessions /\ call \in Calls /\ conv \in [Attempts -> Conversation]
    /\ machines \in [alive : SUBSET Attempts, port : Attempts \cup {0}]
    /\ target \in [running : BOOLEAN, run : Nat]
    /\ reported \in Seq(Nat) /\ mixed = FALSE
    /\ used \in [calls : Nat, attempts : 0 .. MaxAttach]
    /\ session.transport <= used.attempts

\* Which steps a call is made of, and whose conversation it is about.
CallIsInShape ==
    \/ call.op = "none" /\ call.step = "none"
    \/ /\ call.op = "attach" /\ call.t = used.attempts /\ call.t # 0
       /\ call.step \in {"launch", "ready", "draining", "spawn"} \cup Attach
    \/ /\ call.t = session.transport /\ call.t # 0
       /\ \/ call.op = "resume" /\ call.step \in {"resume", "stop", "frame", "registers"}
          \/ call.op = "frame" /\ call.step = "frame"
          \/ call.op = "simple" /\ call.step = "simple"
          \/ call.op = "prepare" /\ call.step \in {"symbols", "check"}
          \/ call.op = "hbreak" /\ call.step \in {"before", "hbreak", "after"}
          \/ call.op = "detach" /\ call.step = "disconnect"
    \/ call.op \in {"detach", "drop"} /\ call.step = "drop"

-----------------------------------------------------------------------------
(* Sequences. *)

LEMMA AppendIsOneMore ==
    ASSUME NEW S, NEW q \in Seq(S), NEW e \in S
    PROVE  /\ Append(q, e) \in Seq(S)
           /\ Len(q) \in Nat /\ Len(Append(q, e)) = Len(q) + 1
           /\ Append(q, e)[Len(q) + 1] = e
           /\ \A i \in 1 .. Len(q) : Append(q, e)[i] = q[i] /\ q[i] \in S
           /\ \A i \in 1 .. Len(Append(q, e)) : i \in 1 .. Len(q) \/ i = Len(q) + 1
<1>1. /\ Append(q, e) \in Seq(S) /\ Len(Append(q, e)) = Len(q) + 1
      /\ Append(q, e)[Len(q) + 1] = e
      /\ \A i \in 1 .. Len(q) : Append(q, e)[i] = q[i]
  BY AppendProperties
<1>2. Len(q) \in Nat
  BY LenProperties
<1>3. \A i \in 1 .. Len(q) : q[i] \in S
  BY ElementOfSeq
<1>4. QED
  BY <1>1, <1>2, <1>3

LEMMA TailIsOneLess ==
    ASSUME NEW S, NEW q \in Seq(S), q # <<>>
    PROVE  /\ Tail(q) \in Seq(S) /\ Head(q) \in S /\ Head(q) = q[1] /\ 1 \in 1 .. Len(q)
           /\ Len(q) \in Nat /\ Len(Tail(q)) = Len(q) - 1
           /\ \A i \in 1 .. Len(Tail(q)) : i + 1 \in 1 .. Len(q) /\ Tail(q)[i] = q[i + 1]
<1>1. Len(q) \in Nat /\ Len(q) # 0 /\ Head(q) = q[1]
  BY EmptySeq
<1>2. Head(q) \in S /\ Tail(q) \in Seq(S) /\ Len(Tail(q)) = Len(q) - 1
  BY HeadTailProperties
<1>3. \A i \in 1 .. Len(Tail(q)) : Tail(q)[i] = q[i + 1]
  BY HeadTailProperties
<1>4. QED
  BY <1>1, <1>2, <1>3

LEMMA NoMessages == <<>> \in Seq(Message) /\ <<>> \in Seq(Wire) /\ Len(<<>>) = 0
BY EmptySeq

-----------------------------------------------------------------------------
(* One conversation. *)

\* The runs whose end it has been told and has not passed on.
Stops(cv) ==
    {cv.events[i].note : i \in 1 .. Len(cv.events)}
    \cup {cv.incoming[i].note : i \in {j \in 1 .. Len(cv.incoming) : IsStop(cv.incoming[j])}}

\* Stops wait in the order of the runs, those that were put aside first.
Orderly(cv) ==
    /\ \A i, j \in 1 .. Len(cv.events) : i < j => cv.events[i].note < cv.events[j].note
    /\ \A i, j \in 1 .. Len(cv.incoming) :
         i < j /\ IsStop(cv.incoming[i]) /\ IsStop(cv.incoming[j])
           => cv.incoming[i].note < cv.incoming[j].note
    /\ \A i \in 1 .. Len(cv.events), j \in 1 .. Len(cv.incoming) :
         IsStop(cv.incoming[j]) => cv.events[i].note < cv.incoming[j].note

\* The number of the next request is above all that are on the way.
Numbered(cv) ==
    /\ \A i \in 1 .. Len(cv.wire) : cv.wire[i].seq < cv.next
    /\ \A i \in 1 .. Len(cv.incoming) : cv.incoming[i].seq < cv.next
    /\ \A m \in cv.early : m.seq < cv.next
    /\ cv.owed < cv.next

Sound(cv) == cv \in Conversation /\ Orderly(cv) /\ Numbered(cv)

\* What leaves the two queues alone leaves it in order.
LEMMA SameQueues ==
    ASSUME NEW cv, NEW cw \in Conversation, Sound(cv),
           cw.events = cv.events, cw.incoming = cv.incoming, cw.early \subseteq cv.early,
           cw.next = cv.next, cw.owed \in {cv.owed, 0}, cw.wire \in {cv.wire, <<>>}
    PROVE  Sound(cw) /\ Stops(cw) = Stops(cv)
<1>1. Orderly(cw)
  BY DEF Sound, Orderly
<1>2. Numbered(cw)
  BY DEF Sound, Numbered, Conversation
<1>3. QED
  BY <1>1, <1>2 DEF Sound, Stops

\* Taking the next message off the channel.
Rest(cv) == [cv EXCEPT !.incoming = Tail(@)]

LEMMA TakeFirst ==
    ASSUME NEW cv, Sound(cv), cv.incoming # <<>>
    PROVE  /\ Sound(Rest(cv)) /\ Head(cv.incoming) \in Message
           /\ Head(cv.incoming).seq < cv.next
           /\ Stops(Rest(cv)) \subseteq Stops(cv)
           /\ IsStop(Head(cv.incoming)) =>
                /\ Head(cv.incoming).note \in Stops(cv)
                /\ \A i \in 1 .. Len(cv.events) : cv.events[i].note < Head(cv.incoming).note
                /\ \A j \in 1 .. Len(Rest(cv).incoming) :
                     IsStop(Rest(cv).incoming[j])
                       => Head(cv.incoming).note < Rest(cv).incoming[j].note
<1> DEFINE cw == Rest(cv)
           q == cv.incoming
<1>1. cv \in Conversation /\ q \in Seq(Message)
  BY DEF Sound, Conversation
<1>2. /\ Tail(q) \in Seq(Message) /\ Head(q) \in Message /\ Head(q) = q[1] /\ 1 \in 1 .. Len(q)
      /\ Len(q) \in Nat
      /\ \A i \in 1 .. Len(Tail(q)) : i + 1 \in 1 .. Len(q) /\ Tail(q)[i] = q[i + 1]
  BY <1>1, TailIsOneLess
<1>3. /\ cw \in Conversation /\ cw.incoming = Tail(q) /\ cw.events = cv.events
      /\ cw.wire = cv.wire /\ cw.early = cv.early /\ cw.owed = cv.owed /\ cw.next = cv.next
  BY <1>1, <1>2 DEF Rest, Conversation
<1> HIDE DEF cw
<1>4. \A i \in 1 .. Len(cw.incoming) : i + 1 \in 1 .. Len(q) /\ cw.incoming[i] = q[i + 1]
  BY <1>2, <1>3
<1>5. ASSUME NEW i \in 1 .. Len(cw.incoming), NEW j \in 1 .. Len(cw.incoming), i < j,
             IsStop(cw.incoming[i]), IsStop(cw.incoming[j])
      PROVE  cw.incoming[i].note < cw.incoming[j].note
  <2>1. i + 1 < j + 1 /\ i + 1 \in 1 .. Len(q) /\ j + 1 \in 1 .. Len(q)
    BY <1>4, <1>5
  <2>2. IsStop(q[i + 1]) /\ IsStop(q[j + 1]) => q[i + 1].note < q[j + 1].note
    BY <2>1 DEF Sound, Orderly
  <2>3. QED
    BY <2>2, <1>4, <1>5
<1>6. \A i \in 1 .. Len(cw.events), j \in 1 .. Len(cw.incoming) :
        IsStop(cw.incoming[j]) => cw.events[i].note < cw.incoming[j].note
  BY <1>3, <1>4 DEF Sound, Orderly
<1>7. Orderly(cw)
  BY <1>3, <1>5, <1>6 DEF Sound, Orderly
<1>8. Numbered(cw)
  BY <1>3, <1>4 DEF Sound, Numbered
<1>9. Stops(cw) \subseteq Stops(cv)
  BY <1>3, <1>4 DEF Stops
<1>10. Head(q).seq < cv.next
  BY <1>2 DEF Sound, Numbered
<1>11. IsStop(Head(q)) => Head(q).note \in Stops(cv)
  BY <1>2 DEF Stops
<1>12. IsStop(Head(q)) => \A i \in 1 .. Len(cv.events) : cv.events[i].note < Head(q).note
  BY <1>2 DEF Sound, Orderly
<1>13. ASSUME IsStop(Head(q)), NEW j \in 1 .. Len(cw.incoming), IsStop(cw.incoming[j])
       PROVE  Head(q).note < cw.incoming[j].note
  <2>1. 1 < j + 1 /\ j + 1 \in 1 .. Len(q)
    BY <1>4
  <2>2. IsStop(q[1]) /\ IsStop(q[j + 1]) => q[1].note < q[j + 1].note
    BY <2>1, <1>2 DEF Sound, Orderly
  <2>3. QED
    BY <2>2, <1>2, <1>4, <1>13
<1>14. QED
  BY <1>3, <1>7, <1>8, <1>9, <1>2, <1>10, <1>11, <1>12, <1>13 DEF Sound, cw

\* A message that is put aside: a stop goes behind those that wait.
LEMMA KeptIsSound ==
    ASSUME NEW cv, Sound(cv), cv.incoming # <<>>
    PROVE  /\ Sound(Kept(cv)) /\ Stops(Kept(cv)) \subseteq Stops(cv)
           /\ Kept(cv).adapter = cv.adapter /\ Kept(cv).breakpoints = cv.breakpoints
           /\ Kept(cv).wire = cv.wire /\ Kept(cv).next = cv.next
           /\ \A i \in 1 .. Len(Kept(cv).incoming) :
                \E j \in 1 .. Len(cv.incoming) : Kept(cv).incoming[i] = cv.incoming[j]
           /\ Kept(cv).early \subseteq cv.early \cup {Head(cv.incoming)}
           /\ \E j \in 1 .. Len(cv.incoming) : Head(cv.incoming) = cv.incoming[j]
<1> DEFINE m == Head(cv.incoming)
           cr == Rest(cv)
           cw == Kept(cv)
<1>1. cv \in Conversation /\ cv.incoming \in Seq(Message)
  BY DEF Sound, Conversation
<1>2. /\ Sound(cr) /\ m \in Message /\ m.seq < cv.next /\ Stops(cr) \subseteq Stops(cv)
      /\ IsStop(m) => /\ m.note \in Stops(cv)
                      /\ \A i \in 1 .. Len(cv.events) : cv.events[i].note < m.note
                      /\ \A j \in 1 .. Len(cr.incoming) :
                           IsStop(cr.incoming[j]) => m.note < cr.incoming[j].note
  BY TakeFirst
<1>3. /\ cr \in Conversation /\ cr.events = cv.events /\ cr.early = cv.early
      /\ cr.adapter = cv.adapter /\ cr.breakpoints = cv.breakpoints /\ cr.incoming = Tail(cv.incoming)
      /\ cr.wire = cv.wire /\ cr.next = cv.next
  BY <1>1, <1>2 DEF Sound, Rest, Conversation
<1>4. /\ \A i \in 1 .. Len(cr.incoming) :
           \E j \in 1 .. Len(cv.incoming) : cr.incoming[i] = cv.incoming[j]
      /\ \E j \in 1 .. Len(cv.incoming) : m = cv.incoming[j]
  BY <1>1, <1>3, TailIsOneLess
<1>5. CASE IsStop(m)
  <2>1. cw = [cr EXCEPT !.events = Append(cv.events, m)]
    BY <1>5, <1>3 DEF Kept, Rest
  <2>2. cv.events \in Seq(Message)
    BY <1>1 DEF Conversation
  <2>3. /\ Append(cv.events, m) \in Seq(Message) /\ Len(cv.events) \in Nat
        /\ Append(cv.events, m)[Len(cv.events) + 1] = m
        /\ \A i \in 1 .. Len(cv.events) : Append(cv.events, m)[i] = cv.events[i]
        /\ \A i \in 1 .. Len(Append(cv.events, m)) : i \in 1 .. Len(cv.events) \/ i = Len(cv.events) + 1
    BY <2>2, <1>2, AppendIsOneMore
  <2>4. /\ cw \in Conversation /\ cw.events = Append(cv.events, m) /\ cw.incoming = cr.incoming
        /\ cw.early = cr.early /\ cw.next = cr.next /\ cw.owed = cr.owed /\ cw.wire = cr.wire
        /\ cw.adapter = cr.adapter /\ cw.breakpoints = cr.breakpoints
    BY <2>1, <2>3, <1>3 DEF Conversation
  <2> HIDE DEF cw
  <2>5. ASSUME NEW i \in 1 .. Len(cw.events), NEW j \in 1 .. Len(cw.events), i < j
        PROVE  cw.events[i].note < cw.events[j].note
    <3>1. i \in 1 .. Len(cv.events) /\ cw.events[i] = cv.events[i]
      BY <2>3, <2>4, <2>5
    <3>2. CASE j \in 1 .. Len(cv.events)
      BY <3>1, <3>2, <2>3, <2>4, <2>5 DEF Sound, Orderly
    <3>3. CASE j = Len(cv.events) + 1
      BY <3>1, <3>3, <2>3, <2>4, <1>2, <1>5
    <3>4. QED
      BY <3>2, <3>3, <2>3, <2>4
  <2>6. ASSUME NEW i \in 1 .. Len(cw.events), NEW j \in 1 .. Len(cw.incoming),
               IsStop(cw.incoming[j])
        PROVE  cw.events[i].note < cw.incoming[j].note
    <3>1. CASE i \in 1 .. Len(cv.events)
      BY <3>1, <2>3, <2>4, <2>6, <1>2, <1>3 DEF Sound, Orderly
    <3>2. CASE i = Len(cv.events) + 1
      BY <3>2, <2>3, <2>4, <2>6, <1>2, <1>5
    <3>3. QED
      BY <3>1, <3>2, <2>3, <2>4
  <2>7. Orderly(cw)
    BY <2>4, <2>5, <2>6, <1>2 DEF Sound, Orderly
  <2>8. Numbered(cw)
    BY <2>4, <1>2 DEF Sound, Numbered
  <2>9. \A i \in 1 .. Len(cw.events) : cw.events[i].note \in Stops(cv)
    <3>1. \A i \in 1 .. Len(cv.events) : cv.events[i].note \in Stops(cv)
      BY DEF Stops
    <3>2. QED
      BY <3>1, <2>3, <2>4, <1>2, <1>5
  <2>10. Stops(cw) \subseteq Stops(cv)
    BY <2>4, <2>9, <1>2 DEF Stops
  <2>11. QED
    BY <2>4, <2>7, <2>8, <2>10, <1>3, <1>4 DEF Sound, cw
<1>6. CASE ~IsStop(m)
  <2>1. cw = [cr EXCEPT !.early = @ \cup {m}]
    BY <1>6 DEF Kept, Rest
  <2>2. /\ cw \in Conversation /\ cw.early = cr.early \cup {m} /\ cw.incoming = cr.incoming
        /\ cw.events = cr.events /\ cw.next = cr.next /\ cw.owed = cr.owed /\ cw.wire = cr.wire
        /\ cw.adapter = cr.adapter /\ cw.breakpoints = cr.breakpoints
    BY <2>1, <1>2, <1>3 DEF Conversation
  <2> HIDE DEF cw
  <2>3. Orderly(cw) /\ Stops(cw) = Stops(cr)
    BY <2>2, <1>2 DEF Sound, Orderly, Stops
  <2>4. Numbered(cw)
    BY <2>2, <1>2, <1>3 DEF Sound, Numbered
  <2>5. QED
    BY <2>2, <2>3, <2>4, <1>2, <1>3, <1>4 DEF Sound, cw
<1>7. QED
  BY <1>5, <1>6

\* The first of the stops that were put aside is passed on, and was before all others.
LEMMA TakeEvent ==
    ASSUME NEW cv, Sound(cv), cv.events # <<>>
    PROVE  LET cw == [cv EXCEPT !.events = Remove(@)] IN
           /\ Sound(cw) /\ Stops(cw) \subseteq Stops(cv)
           /\ Head(cv.events).note \in Stops(cv) /\ Head(cv.events) \in Message
           /\ \A s \in Stops(cw) : Head(cv.events).note < s
<1> DEFINE cw == [cv EXCEPT !.events = Remove(@)]
           q == cv.events
<1>1. cv \in Conversation /\ q \in Seq(Message)
  BY DEF Sound, Conversation
<1>2. /\ Tail(q) \in Seq(Message) /\ Head(q) \in Message /\ Head(q) = q[1] /\ 1 \in 1 .. Len(q)
      /\ Len(q) \in Nat
      /\ \A i \in 1 .. Len(Tail(q)) : i + 1 \in 1 .. Len(q) /\ Tail(q)[i] = q[i + 1]
  BY <1>1, TailIsOneLess
<1>3. /\ cw \in Conversation /\ cw.events = Tail(q) /\ cw.incoming = cv.incoming
      /\ cw.wire = cv.wire /\ cw.early = cv.early /\ cw.owed = cv.owed /\ cw.next = cv.next
  BY <1>1, <1>2 DEF Remove, Conversation
<1> HIDE DEF cw
<1>4. \A i \in 1 .. Len(cw.events) : i + 1 \in 1 .. Len(q) /\ cw.events[i] = q[i + 1]
  BY <1>2, <1>3
<1>5. ASSUME NEW i \in 1 .. Len(cw.events), NEW j \in 1 .. Len(cw.events), i < j
      PROVE  cw.events[i].note < cw.events[j].note
  <2>1. i + 1 < j + 1 /\ i + 1 \in 1 .. Len(q) /\ j + 1 \in 1 .. Len(q)
    BY <1>4, <1>5
  <2>2. q[i + 1].note < q[j + 1].note
    BY <2>1 DEF Sound, Orderly
  <2>3. QED
    BY <2>2, <1>4
<1>6. Orderly(cw)
  BY <1>3, <1>4, <1>5 DEF Sound, Orderly
<1>7. Numbered(cw)
  BY <1>3 DEF Sound, Numbered
<1>8. Stops(cw) \subseteq Stops(cv)
  BY <1>3, <1>4 DEF Stops
<1>9. Head(q).note \in Stops(cv)
  BY <1>2 DEF Stops
<1>10. ASSUME NEW i \in 1 .. Len(cw.events) PROVE Head(q).note < cw.events[i].note
  <2>1. 1 < i + 1 /\ i + 1 \in 1 .. Len(q)
    BY <1>4
  <2>2. q[1].note < q[i + 1].note
    BY <2>1, <1>2 DEF Sound, Orderly
  <2>3. QED
    BY <2>2, <1>2, <1>4
<1>11. \A j \in 1 .. Len(cw.incoming) : IsStop(cw.incoming[j]) => Head(q).note < cw.incoming[j].note
  BY <1>2, <1>3 DEF Sound, Orderly
<1>12. \A s \in Stops(cw) : Head(q).note < s
  BY <1>10, <1>11 DEF Stops
<1>13. QED
  BY <1>2, <1>3, <1>6, <1>7, <1>8, <1>9, <1>12 DEF Sound, cw

\* The other events are dropped when the target is there.
LEMMA DropEvents ==
    ASSUME NEW cv, Sound(cv)
    PROVE  LET cw == [cv EXCEPT !.events = <<>>] IN
           Sound(cw) /\ Stops(cw) \subseteq Stops(cv)
<1> DEFINE cw == [cv EXCEPT !.events = <<>>]
<1>1. /\ cw \in Conversation /\ cw.events = <<>> /\ cw.incoming = cv.incoming
      /\ cw.wire = cv.wire /\ cw.early = cv.early /\ cw.owed = cv.owed /\ cw.next = cv.next
  <2>1. cv \in Conversation
    BY DEF Sound
  <2>2. QED
    BY <2>1, NoMessages DEF Conversation
<1> HIDE DEF cw
<1>2. Orderly(cw) /\ Numbered(cw)
  BY <1>1 DEF Sound, Orderly, Numbered
<1>3. Stops(cw) \subseteq Stops(cv)
  BY <1>1 DEF Stops
<1>4. QED
  BY <1>1, <1>2, <1>3 DEF Sound, cw

\* A request goes out under a number that nothing on the way has.
LEMMA SentIsSound ==
    ASSUME NEW cv, NEW command \in Commands, Sound(cv)
    PROVE  LET cw == Sent(cv, command) IN
           /\ Sound(cw) /\ Stops(cw) = Stops(cv) /\ cw.next = cv.next + 1
           /\ cw.adapter = cv.adapter /\ cw.breakpoints = cv.breakpoints
           /\ cw.incoming = cv.incoming /\ cw.early = cv.early
           /\ \A i \in 1 .. Len(cw.wire) :
                cw.wire[i].seq < cv.next \/ cw.wire[i] = [seq |-> cv.next, command |-> command]
<1> DEFINE cw == Sent(cv, command)
           r == [seq |-> cv.next, command |-> command]
           q == cv.wire
<1>1. cv \in Conversation /\ q \in Seq(Wire) /\ r \in Wire /\ cv.next \in Nat
  BY DEF Sound, Conversation, Wire
<1>2. /\ Append(q, r) \in Seq(Wire) /\ Append(q, r)[Len(q) + 1] = r
      /\ \A i \in 1 .. Len(q) : Append(q, r)[i] = q[i] /\ q[i] \in Wire
      /\ \A i \in 1 .. Len(Append(q, r)) : i \in 1 .. Len(q) \/ i = Len(q) + 1
  BY <1>1, AppendIsOneMore
<1>3. /\ cw \in Conversation /\ cw.wire = Append(q, r) /\ cw.next = cv.next + 1
      /\ cw.events = cv.events /\ cw.incoming = cv.incoming /\ cw.early = cv.early
      /\ cw.owed = cv.owed /\ cw.adapter = cv.adapter /\ cw.breakpoints = cv.breakpoints
  <2>1. cw = [cv EXCEPT !.wire = Append(q, r), !.next = cv.next + 1]
    BY DEF Sent
  <2>2. cv.next + 1 \in Nat \ {0}
    BY <1>1
  <2> HIDE DEF r
  <2>3. QED
    BY <2>1, <2>2, <1>1, <1>2 DEF Conversation
<1> HIDE DEF cw
<1>4. \A i \in 1 .. Len(cw.wire) : cw.wire[i].seq < cv.next \/ cw.wire[i] = r
  BY <1>2, <1>3 DEF Sound, Numbered
<1>5. Numbered(cw)
  <2>1. \A i \in 1 .. Len(cw.wire) : cw.wire[i] \in Wire
    BY <1>3, ElementOfSeq DEF Conversation
  <2>2. \A i \in 1 .. Len(cw.wire) : cw.wire[i].seq \in Nat /\ cw.wire[i].seq < cv.next + 1
    BY <2>1, <1>1, <1>4 DEF Wire
  <2>3. \A i \in 1 .. Len(cv.incoming) : cv.incoming[i] \in Message
    BY <1>1, ElementOfSeq DEF Conversation
  <2>4. \A i \in 1 .. Len(cv.incoming) : cv.incoming[i].seq < cv.next + 1
    BY <2>3, <1>1 DEF Sound, Numbered, Message
  <2>5. (\A m \in cv.early : m.seq < cv.next + 1) /\ cv.owed < cv.next + 1
    BY <1>1 DEF Sound, Numbered, Conversation, Message
  <2>6. QED
    BY <2>2, <2>4, <2>5, <1>3 DEF Numbered
<1>6. Orderly(cw) /\ Stops(cw) = Stops(cv)
  BY <1>3 DEF Sound, Orderly, Stops
<1>7. QED
  BY <1>3, <1>4, <1>5, <1>6 DEF Sound, cw

\* What the adapter says goes behind what it has said.
LEMMA PostIsSound ==
    ASSUME NEW cv, NEW m \in Message, Sound(cv), m.seq < cv.next,
           IsStop(m) => \A s \in Stops(cv) : s < m.note
    PROVE  LET cw == Post(cv, m) IN
           /\ Sound(cw) /\ Stops(cw) \subseteq Stops(cv) \cup {n \in {m.note} : IsStop(m)}
           /\ cw.adapter = cv.adapter /\ cw.breakpoints = cv.breakpoints
           /\ cw.wire = cv.wire /\ cw.early = cv.early /\ cw.next = cv.next
           /\ \A i \in 1 .. Len(cw.incoming) :
                cw.incoming[i] = m \/ (i \in 1 .. Len(cv.incoming) /\ cw.incoming[i] = cv.incoming[i])
<1> DEFINE cw == Post(cv, m)
           q == cv.incoming
<1>1. cv \in Conversation /\ q \in Seq(Message)
  BY DEF Sound, Conversation
<1>2. /\ Append(q, m) \in Seq(Message) /\ Append(q, m)[Len(q) + 1] = m /\ Len(q) \in Nat
      /\ \A i \in 1 .. Len(q) : Append(q, m)[i] = q[i] /\ q[i] \in Message
      /\ \A i \in 1 .. Len(Append(q, m)) : i \in 1 .. Len(q) \/ i = Len(q) + 1
  BY <1>1, AppendIsOneMore
<1>3. /\ cw \in Conversation /\ cw.incoming = Append(q, m) /\ cw.next = cv.next
      /\ cw.events = cv.events /\ cw.wire = cv.wire /\ cw.early = cv.early
      /\ cw.owed = cv.owed /\ cw.adapter = cv.adapter /\ cw.breakpoints = cv.breakpoints
  BY <1>1, <1>2 DEF Post, Conversation
<1> HIDE DEF cw
<1>4. \A i \in 1 .. Len(cw.incoming) :
        cw.incoming[i] = m \/ (i \in 1 .. Len(q) /\ cw.incoming[i] = q[i])
  BY <1>2, <1>3
<1>5. /\ \A i \in 1 .. Len(cv.events) : cv.events[i].note \in Stops(cv)
      /\ \A i \in 1 .. Len(q) : IsStop(q[i]) => q[i].note \in Stops(cv)
  BY DEF Stops
<1>6. ASSUME NEW i \in 1 .. Len(cw.incoming), NEW j \in 1 .. Len(cw.incoming), i < j,
             IsStop(cw.incoming[i]), IsStop(cw.incoming[j])
      PROVE  cw.incoming[i].note < cw.incoming[j].note
  <2>1. i \in 1 .. Len(q) /\ cw.incoming[i] = q[i]
    BY <1>2, <1>3, <1>6
  <2>2. CASE j \in 1 .. Len(q)
    <3>1. cw.incoming[j] = q[j]
      BY <2>2, <1>2, <1>3
    <3>2. QED
      BY <2>1, <2>2, <3>1, <1>6 DEF Sound, Orderly
  <2>3. CASE j = Len(q) + 1
    <3>1. cw.incoming[j] = m
      BY <2>3, <1>2, <1>3
    <3>2. QED
      BY <2>1, <3>1, <1>5, <1>6
  <2>4. QED
    BY <2>2, <2>3, <1>2, <1>3
<1>7. ASSUME NEW i \in 1 .. Len(cw.events), NEW j \in 1 .. Len(cw.incoming),
             IsStop(cw.incoming[j])
      PROVE  cw.events[i].note < cw.incoming[j].note
  BY <1>3, <1>4, <1>5, <1>7 DEF Sound, Orderly
<1>8. Orderly(cw)
  BY <1>3, <1>6, <1>7 DEF Sound, Orderly
<1>9. Numbered(cw)
  BY <1>3, <1>4 DEF Sound, Numbered
<1>10. Stops(cw) \subseteq Stops(cv) \cup {n \in {m.note} : IsStop(m)}
  BY <1>3, <1>4, <1>5 DEF Stops
<1>11. QED
  BY <1>3, <1>4, <1>8, <1>9, <1>10 DEF Sound, cw

\* The adapter takes the first request.
Served(cv, owed, placed) ==
    [cv EXCEPT !.wire = Tail(@), !.owed = owed, !.breakpoints = placed]

\* It may remember it (attach) or place a breakpoint.
LEMMA ServedIsSound ==
    ASSUME NEW cv, Sound(cv), cv.wire # <<>>,
           NEW owed \in Nat, owed < cv.next, NEW placed \in Seq({"hw", "pending"})
    PROVE  LET cw == Served(cv, owed, placed) IN
           /\ Sound(cw) /\ Stops(cw) = Stops(cv) /\ cw.adapter = cv.adapter
           /\ cw.incoming = cv.incoming /\ cw.early = cv.early /\ cw.breakpoints = placed
           /\ cw.next = cv.next
           /\ Head(cv.wire) \in Wire /\ Head(cv.wire).seq < cv.next
           /\ \E j \in 1 .. Len(cv.wire) : Head(cv.wire) = cv.wire[j]
           /\ \A i \in 1 .. Len(cw.wire) : \E j \in 1 .. Len(cv.wire) : cw.wire[i] = cv.wire[j]
<1> DEFINE cw == Served(cv, owed, placed)
           q == cv.wire
<1>1. cv \in Conversation /\ q \in Seq(Wire)
  BY DEF Sound, Conversation
<1>2. /\ Tail(q) \in Seq(Wire) /\ Head(q) \in Wire /\ Head(q) = q[1] /\ 1 \in 1 .. Len(q)
      /\ Len(q) \in Nat
      /\ \A i \in 1 .. Len(Tail(q)) : i + 1 \in 1 .. Len(q) /\ Tail(q)[i] = q[i + 1]
  BY <1>1, TailIsOneLess
<1>3. Head(q).seq < cv.next /\ Head(q).seq \in Nat
  BY <1>2 DEF Sound, Numbered, Wire
<1>5. /\ cw \in Conversation /\ cw.wire = Tail(q) /\ cw.owed = owed /\ cw.next = cv.next
      /\ cw.events = cv.events /\ cw.incoming = cv.incoming /\ cw.early = cv.early
      /\ cw.adapter = cv.adapter /\ cw.breakpoints = placed
  BY <1>1, <1>2 DEF Conversation, Served
<1> HIDE DEF cw
<1>6. \A i \in 1 .. Len(cw.wire) : \E j \in 1 .. Len(q) : cw.wire[i] = q[j]
  BY <1>2, <1>5
<1>7. Numbered(cw)
  BY <1>5, <1>6 DEF Sound, Numbered
<1>8. Orderly(cw) /\ Stops(cw) = Stops(cv)
  BY <1>5 DEF Sound, Orderly, Stops
<1>9. QED
  BY <1>2, <1>3, <1>5, <1>6, <1>7, <1>8 DEF Sound, cw

-----------------------------------------------------------------------------
(* What a wait may end with. *)

\* A wait takes from a conversation, and adds nothing to it.
Later(cv, cw) ==
    /\ Sound(cw) /\ Stops(cw) \subseteq Stops(cv)
    /\ cw.adapter = cv.adapter /\ cw.breakpoints = cv.breakpoints

Said(cv) == cv.early \cup {cv.incoming[i] : i \in 1 .. Len(cv.incoming)}

LEMMA ClosedIsLater ==
    ASSUME NEW cv, Sound(cv)
    PROVE  Later(cv, cv) /\ Later(cv, [cv EXCEPT !.closed = TRUE])
<1> DEFINE cw == [cv EXCEPT !.closed = TRUE]
<1>1. /\ cw \in Conversation /\ cw.events = cv.events /\ cw.incoming = cv.incoming
      /\ cw.early = cv.early /\ cw.next = cv.next /\ cw.owed = cv.owed /\ cw.wire = cv.wire
      /\ cw.adapter = cv.adapter /\ cw.breakpoints = cv.breakpoints
  BY DEF Sound, Conversation
<1> HIDE DEF cw
<1>2. Sound(cw) /\ Stops(cw) = Stops(cv)
  BY <1>1, SameQueues
<1>3. QED
  BY <1>1, <1>2 DEF Later, cw

LEMMA EarlyIsLater ==
    ASSUME NEW cv, Sound(cv), NEW m
    PROVE  Later(cv, [cv EXCEPT !.early = @ \ {m}])
<1> DEFINE cw == [cv EXCEPT !.early = @ \ {m}]
<1>1. /\ cw \in Conversation /\ cw.events = cv.events /\ cw.incoming = cv.incoming
      /\ cw.early \subseteq cv.early /\ cw.next = cv.next /\ cw.owed = cv.owed
      /\ cw.wire = cv.wire /\ cw.adapter = cv.adapter /\ cw.breakpoints = cv.breakpoints
  BY DEF Sound, Conversation
<1> HIDE DEF cw
<1>2. Sound(cw) /\ Stops(cw) = Stops(cv)
  BY <1>1, SameQueues
<1>3. QED
  BY <1>1, <1>2 DEF Later, cw

LEMMA RestIsLater ==
    ASSUME NEW cv, Sound(cv), cv.incoming # <<>>
    PROVE  Later(cv, Rest(cv))
<1>1. Sound(Rest(cv)) /\ Stops(Rest(cv)) \subseteq Stops(cv)
  BY TakeFirst
<1>2. Rest(cv).adapter = cv.adapter /\ Rest(cv).breakpoints = cv.breakpoints
  BY DEF Rest, Sound, Conversation
<1>3. QED
  BY <1>1, <1>2 DEF Later

\* Whoever waits for a response gets one to the request it sent, or none.
LEMMA ResponseIsTheOne ==
    ASSUME NEW cv, Sound(cv), NEW seq \in Nat, NEW r \in WaitResponse(cv, seq)
    PROVE  /\ r.right = TRUE /\ Later(cv, r.conv) /\ r.note \in Nat
           /\ r.how \in {"ok", "refused"} =>
                \E m \in Said(cv) : Answers(m, seq) /\ m.note = r.note
<1>1. cv \in Conversation
  BY DEF Sound
<1>2. CASE Early(cv, seq) # {}
  <2>1. PICK m \in Early(cv, seq) : r = Response(m, seq, [cv EXCEPT !.early = @ \ {m}])
    BY <1>2 DEF WaitResponse
  <2>2. m \in cv.early /\ Answers(m, seq) /\ m \in Message
    BY <2>1, <1>1 DEF Early, Conversation
  <2>3. r.right = (m.seq = seq) /\ r.conv = [cv EXCEPT !.early = @ \ {m}] /\ r.note = m.note
    BY <2>1 DEF Response, Result
  <2>4. m.seq = seq /\ m.note \in Nat /\ m \in Said(cv)
    BY <2>2 DEF Answers, Message, Said
  <2>5. Later(cv, r.conv)
    BY <2>3, EarlyIsLater
  <2>6. QED
    BY <2>2, <2>3, <2>4, <2>5
<1>3. CASE r \in InTime(cv, seq) /\ r.how \in {"ok", "refused"}
  <2>1. /\ cv.incoming # <<>> /\ Answers(Head(cv.incoming), seq)
        /\ r = Response(Head(cv.incoming), seq, Rest(cv))
    BY <1>3 DEF InTime, Result, Rest
  <2>2. Head(cv.incoming) \in Message /\ Head(cv.incoming) \in Said(cv)
    <3>1. cv.incoming \in Seq(Message)
      BY <1>1 DEF Conversation
    <3>2. QED
      BY <3>1, <2>1, TailIsOneLess DEF Said
  <2>3. r.right = (Head(cv.incoming).seq = seq) /\ r.conv = Rest(cv) /\ r.note = Head(cv.incoming).note
    BY <2>1 DEF Response, Result
  <2>4. Head(cv.incoming).seq = seq /\ Head(cv.incoming).note \in Nat
    BY <2>1, <2>2 DEF Answers, Message
  <2>5. QED
    BY <2>1, <2>2, <2>3, <2>4, RestIsLater
<1>4. CASE r \in InTime(cv, seq) /\ r.how \notin {"ok", "refused"}
  <2>1. r = Result("closed", 0, [cv EXCEPT !.closed = TRUE], TRUE)
    BY <1>4 DEF InTime, Result, Response
  <2>2. /\ r.right = TRUE /\ r.conv = [cv EXCEPT !.closed = TRUE] /\ r.note = 0
        /\ r.how = "closed"
    BY <2>1 DEF Result
  <2>3. QED
    BY <2>2, ClosedIsLater
<1>5. CASE r \in Deadline(cv)
  <2>1. r = Result("timeout", 0, cv, TRUE)
    BY <1>5 DEF Deadline
  <2>2. r.right = TRUE /\ r.conv = cv /\ r.note = 0 /\ r.how = "timeout"
    BY <2>1 DEF Result
  <2>3. Later(cv, cv)
    BY ClosedIsLater
  <2>4. QED
    BY <2>2, <2>3
<1>6. QED
  BY <1>2, <1>3, <1>4, <1>5 DEF WaitResponse

\* Whoever waits for a stop gets the oldest that has not been passed on, or none.
LEMMA StopIsTheOldest ==
    ASSUME NEW cv, Sound(cv), NEW r \in WaitStopped(cv)
    PROVE  /\ Later(cv, r.conv)
           /\ r.how = "ok" => /\ r.note \in Nat /\ r.note \in Stops(cv)
                              /\ \A s \in Stops(r.conv) : r.note < s
<1>1. cv \in Conversation
  BY DEF Sound
<1>2. CASE cv.events # <<>>
  <2> DEFINE cw == [cv EXCEPT !.events = Remove(@)]
  <2>1. r.how = "ok" /\ r.note = Head(cv.events).note /\ r.conv = cw
    BY <1>2 DEF WaitStopped, Result
  <2>2. /\ Sound(cw) /\ Stops(cw) \subseteq Stops(cv)
        /\ Head(cv.events).note \in Stops(cv) /\ Head(cv.events) \in Message
        /\ \A s \in Stops(cw) : Head(cv.events).note < s
    BY <1>2, TakeEvent
  <2>3. cw.adapter = cv.adapter /\ cw.breakpoints = cv.breakpoints
    BY <1>1 DEF Conversation
  <2>4. QED
    BY <2>1, <2>2, <2>3 DEF Later, Message
<1>3. CASE cv.events = <<>> /\ r.how = "ok"
  <2>1. /\ cv.incoming # <<>> /\ IsStop(Head(cv.incoming))
        /\ r.note = Head(cv.incoming).note /\ r.conv = Rest(cv)
    BY <1>3 DEF WaitStopped, Result, Rest
  <2>2. /\ Head(cv.incoming) \in Message /\ Head(cv.incoming).note \in Stops(cv)
        /\ \A j \in 1 .. Len(Rest(cv).incoming) :
             IsStop(Rest(cv).incoming[j]) => Head(cv.incoming).note < Rest(cv).incoming[j].note
    BY <2>1, TakeFirst
  <2>3. Rest(cv).events = <<>>
    BY <1>1, <1>3 DEF Rest, Conversation
  <2>4. \A s \in Stops(Rest(cv)) : Head(cv.incoming).note < s
    BY <2>2, <2>3, NoMessages DEF Stops
  <2>5. QED
    BY <2>1, <2>2, <2>4, RestIsLater DEF Message
<1>4. CASE cv.events = <<>> /\ r.how # "ok"
  <2> DEFINE cw == [cv EXCEPT !.closed = TRUE]
             cr == [cv EXCEPT !.incoming = Tail(@)]
  <2> HIDE DEF cw, cr
  <2>1. \/ r = Result("ok", Head(cv.incoming).note, cr, TRUE)
        \/ r = Result("closed", 0, cw, TRUE) \/ r = Result("timeout", 0, cv, TRUE)
    BY <1>4 DEF WaitStopped, cw, cr
  <2>2. r.conv = cv \/ r.conv = cw
    BY <2>1, <1>4 DEF Result
  <2>3. Later(cv, cv) /\ Later(cv, cw)
    BY ClosedIsLater DEF cw
  <2>4. QED
    BY <2>2, <2>3, <1>4
<1>5. QED
  BY <1>2, <1>3, <1>4

-----------------------------------------------------------------------------
(* The invariant. *)

\* A run whose end has been told is not ahead of the target.
Ended(s) == s \in Nat /\ s <= target.run /\ (target.running => s < target.run)

Runs ==
    \A t \in Attempts :
       /\ Sound(conv[t])
       /\ \A s \in Stops(conv[t]) : Ended(s)
       /\ t > used.attempts => Stops(conv[t]) = {}

Told ==
    /\ \A i \in 1 .. Len(reported) : Ended(reported[i])
    /\ \A i, j \in 1 .. Len(reported) : i < j => reported[i] < reported[j]

\* The conversation of the backend, and the one that is to take its place.
Current(t) == t = session.transport \/ (call.op = "attach" /\ t = call.t)

\* What is still to be passed on comes after all that has been.
Ahead ==
    \A t \in Attempts : Current(t) =>
       \A i \in 1 .. Len(reported) : \A s \in Stops(conv[t]) : reported[i] < s

\* Who is alive is the backend's, or belongs to the attempt that is going on.
Tidy ==
    /\ \A k \in machines.alive :
         k = session.qemu \/ (call.op = "attach" /\ call.step \in {"ready", "draining"} /\ k = call.t)
    /\ \A t \in Attempts : conv[t].adapter = "alive" =>
         t = session.transport \/ (call.op = "attach" /\ call.step \in Attach /\ t = call.t)

\* The listed breakpoints are among those of gdb, which only ever get more.
Placed(b) ==
    b[2] \in 1 .. Len(conv[b[1]].breakpoints) /\ conv[b[1]].breakpoints[b[2]] = "hw"

Listed == \A b \in session.hardware : Placed(b)

\* The answer to a listing is no longer than the list.
Answerable(cv, seq) ==
    /\ \A i \in 1 .. Len(cv.wire) :
         cv.wire[i].seq = seq => cv.wire[i].command \notin {"configured", "resume"}
    /\ \A m \in Said(cv) : Answers(m, seq) => m.note <= Len(cv.breakpoints)

Asked == call.step = "after" /\ call.seq # 0 => Answerable(conv[call.t], call.seq)

IInv ==
    /\ Typed /\ CallIsInShape /\ Runs /\ Told /\ Ahead /\ Tidy /\ Listed /\ Asked

-----------------------------------------------------------------------------
(* Steps that tell a conversation of no new stop. *)

Grows(p, q) == \A k \in 1 .. Len(p) : k \in 1 .. Len(q) /\ q[k] = p[k]

Quiet(cv, cw) ==
    /\ Sound(cw) /\ Stops(cw) \subseteq Stops(cv)
    /\ Grows(cv.breakpoints, cw.breakpoints)

LEMMA LaterIsQuiet ==
    ASSUME NEW cv, NEW cw, Later(cv, cw)
    PROVE  Quiet(cv, cw)
BY DEF Later, Quiet, Grows

LEMMA SameIsQuiet ==
    ASSUME NEW cv, Sound(cv)
    PROVE  Quiet(cv, cv)
BY DEF Quiet, Grows

LEMMA QuietTwice ==
    ASSUME NEW cv, NEW cu, NEW cw, Quiet(cv, cu), Quiet(cu, cw)
    PROVE  Quiet(cv, cw)
BY DEF Quiet, Grows

\* An adapter that ends leaves what it has said.
LEMMA ShutdownIsQuiet ==
    ASSUME NEW cv, Sound(cv)
    PROVE  /\ Quiet(cv, Shutdown(cv)) /\ Shutdown(cv).adapter # "alive"
           /\ \A seq : Answerable(cv, seq) => Answerable(Shutdown(cv), seq)
<1> DEFINE cw == Shutdown(cv)
           a == IF cv.adapter = "alive" THEN "dead" ELSE cv.adapter
<1>1. cv \in Conversation /\ a \in {"none", "dead"}
  BY DEF Sound, Conversation
<1>2. cw = [cv EXCEPT !.adapter = a, !.wire = <<>>]
  BY DEF Shutdown
<1> HIDE DEF a
<1>3. /\ cw \in Conversation /\ cw.events = cv.events /\ cw.incoming = cv.incoming
      /\ cw.early = cv.early /\ cw.next = cv.next /\ cw.owed = cv.owed /\ cw.wire = <<>>
      /\ cw.breakpoints = cv.breakpoints /\ cw.adapter = a
  BY <1>1, <1>2, NoMessages DEF Conversation
<1> HIDE DEF cw
<1>4. Sound(cw) /\ Stops(cw) = Stops(cv)
  BY <1>3, SameQueues
<1>5. Quiet(cv, cw)
  BY <1>3, <1>4 DEF Quiet, Grows
<1>6. ASSUME NEW seq, Answerable(cv, seq) PROVE Answerable(cw, seq)
  <2>1. Said(cw) = Said(cv)
    BY <1>3 DEF Said
  <2>2. Len(cw.wire) = 0
    BY <1>3, NoMessages
  <2>3. QED
    BY <2>1, <2>2, <1>3, <1>6 DEF Answerable
<1>7. QED
  BY <1>1, <1>3, <1>5, <1>6 DEF cw

\* A step in which no conversation is told of a stop, none is passed on, and the
\* target at most begins another run.
StartsRun == target' = [running |-> TRUE, run |-> target.run + 1]

LEMMA QuietStep ==
    ASSUME Runs, Told, Ahead, Listed, Typed,
           \A t \in Attempts : Quiet(conv[t], conv'[t]),
           target' = target \/ StartsRun,
           reported' = reported, used'.attempts \in {used.attempts, used.attempts + 1},
           \A b \in session'.hardware : b \in session.hardware \/ Placed(b)',
           \A t \in Attempts : Current(t)' => Current(t) \/ t > used.attempts
    PROVE  Runs' /\ Told' /\ Ahead' /\ Listed'
<1>1. ASSUME NEW s, Ended(s) PROVE Ended(s)'
  <2>1. CASE target' = target
    BY <1>1, <2>1 DEF Ended
  <2>2. CASE StartsRun
    <3>1. target'.run = target.run + 1 /\ target.run \in Nat
      BY <2>2 DEF StartsRun, Typed
    <3>2. QED
      BY <3>1, <1>1 DEF Ended
  <2>3. QED
    BY <2>1, <2>2
<1>2. ASSUME NEW t \in Attempts
      PROVE  /\ Sound(conv'[t]) /\ \A s \in Stops(conv'[t]) : s \in Stops(conv[t]) /\ Ended(s)'
             /\ t > used'.attempts => Stops(conv'[t]) = {}
  <2>1. Sound(conv'[t]) /\ Stops(conv'[t]) \subseteq Stops(conv[t])
    BY <1>2 DEF Quiet
  <2>2. \A s \in Stops(conv[t]) : Ended(s)
    BY DEF Runs
  <2>3. t > used'.attempts => Stops(conv[t]) = {}
    BY DEF Runs, Typed, Attempts
  <2>4. QED
    BY <2>1, <2>2, <2>3, <1>1
<1>3. Runs'
  BY <1>2 DEF Runs
<1>4. Told'
  BY <1>1 DEF Told
<1>5. Ahead'
  <2>1. SUFFICES ASSUME NEW t \in Attempts, Current(t)', NEW i \in 1 .. Len(reported),
                        NEW s \in Stops(conv'[t])
                 PROVE  reported[i] < s
    BY DEF Ahead
  <2>2. s \in Stops(conv[t])
    BY <1>2
  <2>3. CASE Current(t)
    BY <2>2, <2>3 DEF Ahead
  <2>4. CASE t > used.attempts
    BY <2>2, <2>4 DEF Runs
  <2>5. QED
    BY <2>1, <2>3, <2>4
<1>6. Listed'
  <2>1. ASSUME NEW b \in session.hardware
        PROVE  Placed(b)'
    <3>1. b[1] \in Attempts
      BY DEF Typed, Sessions
    <3>2. Grows(conv[b[1]].breakpoints, conv'[b[1]].breakpoints)
      BY <3>1 DEF Quiet
    <3>3. b[2] \in 1 .. Len(conv[b[1]].breakpoints) /\ conv[b[1]].breakpoints[b[2]] = "hw"
      BY DEF Listed, Placed
    <3>4. QED
      BY <3>2, <3>3 DEF Grows, Placed
  <2>2. QED
    BY <2>1 DEF Listed
<1>7. QED
  BY <1>3, <1>4, <1>5, <1>6

-----------------------------------------------------------------------------
(* The calls of the engine. *)

\* What the operators on calls give.
LEMMA CallMoves ==
    ASSUME call \in Calls
    PROVE  /\ Done \in Calls /\ Done.op = "none" /\ Done.step = "none" /\ Done.seq = 0
           /\ \A step \in Steps :
                /\ To(step) \in Calls /\ To(step).step = step /\ To(step).seq = 0
                /\ To(step).op = call.op /\ To(step).t = call.t
<1>1. Done \in Calls /\ Done.op = "none" /\ Done.step = "none" /\ Done.seq = 0
  <2> DEFINE c == [call EXCEPT !.op = "none", !.step = "none", !.t = 0]
             d == [c EXCEPT !.seq = 0, !.run = 0, !.known = 0]
  <2>1. c \in Calls /\ c.op = "none" /\ c.step = "none"
    BY DEF Calls, Ops, Steps
  <2>2. Done = d
    BY DEF Done
  <2> HIDE DEF c
  <2>3. d \in Calls /\ d.op = c.op /\ d.step = c.step /\ d.seq = 0
    BY <2>1 DEF Calls
  <2>4. QED
    BY <2>1, <2>2, <2>3
<1>2. ASSUME NEW step \in Steps
      PROVE  /\ To(step) \in Calls /\ To(step).step = step /\ To(step).seq = 0
             /\ To(step).op = call.op /\ To(step).t = call.t
  BY DEF To, Calls
<1>3. QED
  BY <1>1, <1>2

LEMMA CallBegins ==
    ASSUME call \in Calls, NEW op \in Ops, NEW step \in Steps, NEW t \in Attempts \cup {0},
           call' = [call EXCEPT !.op = op, !.step = step, !.t = t]
    PROVE  call' \in Calls /\ call'.op = op /\ call'.step = step /\ call'.t = t
BY DEF Calls

\* What the invariant needs of a step that leaves all conversations alone.
LEMMA AloneIsQuiet ==
    ASSUME Runs, conv' = conv
    PROVE  \A t \in Attempts : Quiet(conv[t], conv'[t])
BY SameIsQuiet DEF Runs

LEMMA BeginAttachIInv ==
    ASSUME IInv, BeginAttach
    PROVE  IInv'
<1> DEFINE n == used.attempts + 1
<1>1. /\ Typed /\ CallIsInShape /\ Runs /\ Told /\ Ahead /\ Tidy /\ Listed
      /\ call.op = "none" /\ used.attempts < MaxAttach
      /\ call' = [call EXCEPT !.op = "attach", !.step = "launch", !.t = n]
      /\ session' = [session EXCEPT !.state = "Attaching"]
      /\ used' = [calls |-> used.calls + 1, attempts |-> n]
      /\ conv' = conv /\ machines' = machines /\ target' = target /\ reported' = reported
      /\ mixed' = mixed
  BY DEF IInv, BeginAttach, Begin, history
<1>2. n \in Attempts /\ n # 0
  BY <1>1, DebugAssumption DEF Typed, Attempts
<1>3. call' \in Calls /\ call'.op = "attach" /\ call'.step = "launch" /\ call'.t = n
  <2> HIDE DEF n
  <2>1. call \in Calls /\ n \in Attempts \cup {0} /\ "attach" \in Ops /\ "launch" \in Steps
    BY <1>1, <1>2 DEF Typed, Ops, Steps
  <2>2. QED
    BY <1>1, <2>1, CallBegins
<1>4. /\ session' \in Sessions /\ session'.transport = session.transport
      /\ session'.qemu = session.qemu /\ session'.hardware = session.hardware
  BY <1>1 DEF Typed, Sessions, States
<1>5. used' \in [calls : Nat, attempts : 0 .. MaxAttach] /\ used'.attempts = n
  BY <1>1, <1>2 DEF Typed, Attempts
<1>6. Typed'
  <2>1. session.transport \in Nat /\ session.transport <= used.attempts /\ used.attempts \in Nat
    BY <1>1 DEF Typed, Sessions, Attempts
  <2>2. session'.transport <= used'.attempts
    BY <2>1, <1>4, <1>5
  <2> HIDE DEF n
  <2>3. QED
    BY <2>2, <1>1, <1>3, <1>4, <1>5 DEF Typed
<1>7. CallIsInShape'
  BY <1>2, <1>3, <1>5 DEF CallIsInShape
<1>8. Tidy'
  BY <1>1, <1>3, <1>4 DEF Tidy
<1>9. \A t \in Attempts : Current(t)' => Current(t) \/ t > used.attempts
  BY <1>1, <1>3, <1>4 DEF Current, Typed
<1>10. Runs' /\ Told' /\ Ahead' /\ Listed'
  BY <1>1, <1>4, <1>5, <1>9, AloneIsQuiet, QuietStep
<1>11. Asked'
  BY <1>3 DEF Asked
<1>12. QED
  BY <1>6, <1>7, <1>8, <1>10, <1>11 DEF IInv

\* A call that begins on a session that has a transport, or ends one that has none.
LEMMA BeginIInv ==
    ASSUME IInv, NEW op \in Ops, NEW step \in Steps, Begin(op, step, session.transport),
           session' = session, conv' = conv, machines' = machines, target' = target,
           reported' = reported, mixed' = mixed, used' \in [calls : Nat, attempts : 0 .. MaxAttach],
           used'.attempts = used.attempts,
           \/ op \in {"detach", "drop"} /\ step = "drop"
           \/ /\ session.transport # 0
              /\ \/ op \in {"resume", "frame", "simple"} /\ step = op
                 \/ op = "prepare" /\ step = "symbols"
                 \/ op = "hbreak" /\ step = "before"
                 \/ op = "detach" /\ step = "disconnect"
    PROVE  IInv'
<1>1. /\ Typed /\ CallIsInShape /\ Runs /\ Told /\ Ahead /\ Tidy /\ Listed
      /\ call.op = "none"
      /\ call' = [call EXCEPT !.op = op, !.step = step, !.t = session.transport]
  BY DEF IInv, Begin
<1>2. call \in Calls /\ session.transport \in Attempts \cup {0}
  BY <1>1 DEF Typed, Sessions
<1>3. call' \in Calls /\ call'.op = op /\ call'.step = step /\ call'.t = session.transport
  BY <1>1, <1>2, CallBegins
<1>4. Typed'
  BY <1>1, <1>3 DEF Typed
<1>5. CallIsInShape'
  BY <1>3 DEF CallIsInShape
<1>6. Tidy'
  BY <1>1, <1>3 DEF Tidy
<1>7. \A t \in Attempts : Current(t)' => Current(t) \/ t > used.attempts
  BY <1>3 DEF Current
<1>8. Runs' /\ Told' /\ Ahead' /\ Listed'
  BY <1>1, <1>7, AloneIsQuiet, QuietStep
<1>9. Asked'
  BY <1>3 DEF Asked
<1>10. QED
  BY <1>4, <1>5, <1>6, <1>8, <1>9 DEF IInv

LEMMA BeginReadyIInv ==
    ASSUME IInv, NEW op \in {"resume", "frame", "simple"}, BeginReady(op)
    PROVE  IInv'
<1>1. /\ Typed /\ CallIsInShape /\ Runs /\ Told /\ Ahead /\ Tidy /\ Listed /\ Asked
      /\ session.transport # 0 /\ used' = [used EXCEPT !.calls = @ + 1]
      /\ conv' = conv /\ machines' = machines /\ target' = target /\ reported' = reported
      /\ mixed' = mixed
  BY DEF IInv, BeginReady, history
<1>2. used' \in [calls : Nat, attempts : 0 .. MaxAttach] /\ used'.attempts = used.attempts
  BY <1>1 DEF Typed
<1>3. CASE conv[session.transport].closed
  <2>1. session' = [session EXCEPT !.state = "Poisoned"] /\ call' = call
    BY <1>3 DEF BeginReady
  <2>2. /\ session' \in Sessions /\ session'.transport = session.transport
        /\ session'.qemu = session.qemu /\ session'.hardware = session.hardware
    BY <1>1, <2>1 DEF Typed, Sessions, States
  <2>3. Typed'
    BY <1>1, <1>2, <2>1, <2>2 DEF Typed
  <2>4. CallIsInShape'
    BY <1>1, <1>2, <2>1, <2>2 DEF CallIsInShape
  <2>5. Tidy' /\ Asked' /\ \A t \in Attempts : Current(t)' => Current(t) \/ t > used.attempts
    BY <1>1, <2>1, <2>2 DEF Tidy, Asked, Current
  <2>6. Runs' /\ Told' /\ Ahead' /\ Listed'
    BY <1>1, <1>2, <2>2, <2>5, AloneIsQuiet, QuietStep
  <2>7. QED
    BY <2>3, <2>4, <2>5, <2>6 DEF IInv
<1>4. CASE ~conv[session.transport].closed
  <2>1. Begin(op, op, session.transport) /\ session' = session
    BY <1>4 DEF BeginReady
  <2>2. op \in Ops /\ op \in Steps
    BY DEF Ops, Steps, Requests
  <2>3. QED
    BY <1>1, <1>2, <2>1, <2>2, BeginIInv
<1>5. QED
  BY <1>3, <1>4

LEMMA BeginOthersIInv ==
    ASSUME IInv, PrepareTarget \/ BeginHardware \/ BeginDetach
    PROVE  IInv'
<1>1. /\ Typed /\ session' = session /\ conv' = conv /\ machines' = machines
      /\ target' = target /\ reported' = reported /\ mixed' = mixed
      /\ \/ used' = [used EXCEPT !.calls = @ + 1] \/ used' = [used EXCEPT !.calls = MaxCalls]
  BY DEF IInv, PrepareTarget, BeginHardware, BeginDetach, history
<1>2. used' \in [calls : Nat, attempts : 0 .. MaxAttach] /\ used'.attempts = used.attempts
  BY <1>1, DebugAssumption DEF Typed
<1> USE DEF Ops, Steps, Requests
<1>3. CASE PrepareTarget
  BY <1>1, <1>2, <1>3, BeginIInv DEF PrepareTarget
<1>4. CASE BeginHardware
  BY <1>1, <1>2, <1>4, BeginIInv DEF BeginHardware
<1>5. CASE BeginDetach
  <2>1. CASE Begin("drop", "drop", session.transport)
    BY <1>1, <1>2, <2>1, BeginIInv
  <2>2. CASE Begin("detach", "drop", session.transport)
    BY <1>1, <1>2, <2>2, BeginIInv
  <2>3. CASE session.transport # 0 /\ Begin("detach", "disconnect", session.transport)
    BY <1>1, <1>2, <2>3, BeginIInv
  <2>4. QED
    BY <1>5, <2>1, <2>2, <2>3 DEF BeginDetach
<1>6. QED
  BY <1>3, <1>4, <1>5

-----------------------------------------------------------------------------
(* The machines. *)

\* A machine is ended, and no other.
LEMMA TerminateEnds ==
    ASSUME machines \in [alive : SUBSET Attempts, port : Attempts \cup {0}], NEW k
    PROVE  /\ Terminate(k) \in [alive : SUBSET Attempts, port : Attempts \cup {0}]
           /\ Terminate(k).alive = machines.alive \ {k}
BY DEF Terminate

LEMMA LaunchIInv ==
    ASSUME IInv, Launch
    PROVE  IInv'
<1>1. /\ Typed /\ CallIsInShape /\ Runs /\ Told /\ Ahead /\ Tidy /\ Listed
      /\ call.step = "launch" /\ session' = session /\ conv' = conv /\ target' = target
      /\ reported' = reported /\ mixed' = mixed /\ used' = used
  BY DEF IInv, Launch, history
<1>2. call.op = "attach" /\ call.t \in Attempts /\ call \in Calls
  BY <1>1 DEF CallIsInShape, Typed, Calls, Attach
<1>3. \/ call' = Done /\ machines' = machines
      \/ call' = To("ready") /\ machines' = [machines EXCEPT !.alive = @ \cup {call.t}]
  BY DEF Launch
<1>4. /\ call' \in Calls /\ call'.seq = 0
      /\ \/ call'.op = "none" /\ call'.step = "none"
         \/ call'.op = "attach" /\ call'.step = "ready" /\ call'.t = call.t
  BY <1>2, <1>3, CallMoves DEF Steps
<1>5. /\ machines' \in [alive : SUBSET Attempts, port : Attempts \cup {0}]
      /\ \/ machines'.alive = machines.alive
         \/ machines'.alive = machines.alive \cup {call.t} /\ call' = To("ready")
  BY <1>1, <1>2, <1>3 DEF Typed
<1>6. Typed'
  BY <1>1, <1>4, <1>5 DEF Typed
<1>7. CallIsInShape'
  BY <1>1, <1>2, <1>4 DEF CallIsInShape
<1>8. Tidy'
  <2>1. \A k \in machines'.alive : k = session.qemu \/ (call' = To("ready") /\ k = call.t)
    BY <1>1, <1>5 DEF Tidy
  <2>2. call' = To("ready") => call'.op = "attach" /\ call'.step = "ready" /\ call'.t = call.t
    BY <1>2, CallMoves DEF Steps
  <2>3. QED
    BY <2>1, <2>2, <1>1 DEF Tidy, Attach
<1>9. \A t \in Attempts : Current(t)' => Current(t) \/ t > used.attempts
  BY <1>1, <1>2, <1>4 DEF Current
<1>10. Runs' /\ Told' /\ Ahead' /\ Listed'
  BY <1>1, <1>9, AloneIsQuiet, QuietStep
<1>11. Asked'
  BY <1>4 DEF Asked
<1>12. QED
  BY <1>6, <1>7, <1>8, <1>10, <1>11 DEF IInv

LEMMA ReadyIInv ==
    ASSUME IInv, Ready
    PROVE  IInv'
<1>1. /\ Typed /\ CallIsInShape /\ Runs /\ Told /\ Ahead /\ Tidy /\ Listed
      /\ call.step = "ready" /\ conv' = conv /\ target' = target
      /\ reported' = reported /\ mixed' = mixed /\ used' = used
      /\ session' = [session EXCEPT !.qemu = call.t] /\ call' = To("spawn")
      /\ machines' = IF session.qemu = 0 THEN machines ELSE Terminate(session.qemu)
  BY DEF IInv, Ready, history
<1>2. call.op = "attach" /\ call.t \in Attempts /\ call \in Calls
  BY <1>1 DEF CallIsInShape, Typed, Calls, Attach
<1>3. /\ call' \in Calls /\ call'.seq = 0 /\ call'.op = "attach" /\ call'.step = "spawn"
      /\ call'.t = call.t
  BY <1>1, <1>2, CallMoves DEF Steps
<1>4. /\ session' \in Sessions /\ session'.transport = session.transport
      /\ session'.qemu = call.t /\ session'.hardware = session.hardware
  BY <1>1, <1>2 DEF Typed, Sessions
<1>5. /\ machines' \in [alive : SUBSET Attempts, port : Attempts \cup {0}]
      /\ machines'.alive \subseteq machines.alive \ {session.qemu}
  <2>1. CASE session.qemu = 0
    <3>1. 0 \notin Attempts
      BY DEF Attempts
    <3>2. QED
      BY <2>1, <3>1, <1>1 DEF Typed
  <2>2. CASE session.qemu # 0
    BY <2>2, <1>1, TerminateEnds DEF Typed
  <2>3. QED
    BY <2>1, <2>2
<1>6. Typed'
  BY <1>1, <1>3, <1>4, <1>5 DEF Typed
<1>7. CallIsInShape'
  BY <1>1, <1>2, <1>3 DEF CallIsInShape
<1>8. Tidy'
  BY <1>1, <1>3, <1>4, <1>5 DEF Tidy, Attach
<1>9. \A t \in Attempts : Current(t)' => Current(t) \/ t > used.attempts
  BY <1>1, <1>2, <1>3, <1>4 DEF Current
<1>10. Runs' /\ Told' /\ Ahead' /\ Listed'
  BY <1>1, <1>4, <1>9, AloneIsQuiet, QuietStep
<1>11. Asked'
  BY <1>3 DEF Asked
<1>12. QED
  BY <1>6, <1>7, <1>8, <1>10, <1>11 DEF IInv

\* The machine did not come up: the attempt waits for its end, and is over.
LEMMA NotUpIInv ==
    ASSUME IInv, NotReady \/ StartupFailure
    PROVE  IInv'
<1>1. /\ Typed /\ CallIsInShape /\ Runs /\ Told /\ Ahead /\ Tidy /\ Listed
      /\ call.step \in {"ready", "draining"} /\ session' = session /\ conv' = conv
      /\ target' = target /\ reported' = reported /\ mixed' = mixed /\ used' = used
      /\ \/ machines' = machines /\ call' = To("draining")
         \/ machines' = Terminate(call.t) /\ call' = Done
  BY DEF IInv, NotReady, StartupFailure, history
<1>2. call.op = "attach" /\ call.t \in Attempts /\ call \in Calls
  BY <1>1 DEF CallIsInShape, Typed, Calls, Attach
<1>3. /\ call' \in Calls /\ call'.seq = 0
      /\ \/ call' = Done /\ call'.op = "none" /\ call'.step = "none"
         \/ /\ call' = To("draining") /\ call'.op = "attach" /\ call'.step = "draining"
            /\ call'.t = call.t
  BY <1>1, <1>2, CallMoves DEF Steps
<1>4. /\ machines' \in [alive : SUBSET Attempts, port : Attempts \cup {0}]
      /\ machines'.alive \subseteq machines.alive
      /\ call'.op = "none" => call.t \notin machines'.alive
  <2>1. CASE machines' = machines /\ call' = To("draining")
    <3>1. call'.op = "attach"
      BY <2>1, <1>2, CallMoves DEF Steps
    <3>2. QED
      BY <2>1, <3>1, <1>1 DEF Typed
  <2>2. CASE machines' = Terminate(call.t)
    BY <2>2, <1>1, TerminateEnds DEF Typed
  <2>3. QED
    BY <2>1, <2>2, <1>1
<1>5. Typed'
  BY <1>1, <1>3, <1>4 DEF Typed
<1>6. CallIsInShape'
  BY <1>1, <1>2, <1>3 DEF CallIsInShape
<1>7. Tidy'
  BY <1>1, <1>3, <1>4 DEF Tidy, Attach
<1>8. \A t \in Attempts : Current(t)' => Current(t) \/ t > used.attempts
  BY <1>1, <1>2, <1>3 DEF Current
<1>9. Runs' /\ Told' /\ Ahead' /\ Listed'
  BY <1>1, <1>8, AloneIsQuiet, QuietStep
<1>10. Asked'
  BY <1>3 DEF Asked
<1>11. QED
  BY <1>5, <1>6, <1>7, <1>9, <1>10 DEF IInv

LEMMA MachineIInv ==
    ASSUME IInv, NEW k \in Attempts, Bind(k) \/ MachineDies(k)
    PROVE  IInv'
<1>1. /\ Typed /\ CallIsInShape /\ Runs /\ Told /\ Ahead /\ Tidy /\ Listed /\ Asked
      /\ session' = session /\ call' = call /\ conv' = conv /\ target' = target
      /\ reported' = reported /\ mixed' = mixed /\ used' = used
  BY DEF IInv, Bind, MachineDies, history
<1>2. /\ machines' \in [alive : SUBSET Attempts, port : Attempts \cup {0}]
      /\ machines'.alive \subseteq machines.alive
  <2>1. machines' = Terminate(k) \/ machines' = [machines EXCEPT !.port = k]
    BY DEF Bind, MachineDies, Terminate
  <2>2. CASE machines' = Terminate(k)
    BY <2>2, <1>1, TerminateEnds DEF Typed
  <2>3. CASE machines' = [machines EXCEPT !.port = k]
    BY <2>3, <1>1 DEF Typed
  <2>4. QED
    BY <2>1, <2>2, <2>3
<1>3. Typed'
  BY <1>1, <1>2 DEF Typed
<1>4. CallIsInShape' /\ Asked'
  BY <1>1 DEF CallIsInShape, Asked
<1>5. Tidy'
  BY <1>1, <1>2 DEF Tidy
<1>6. Runs' /\ Told' /\ Ahead' /\ Listed'
  <2>1. \A t \in Attempts : Current(t)' => Current(t) \/ t > used.attempts
    BY <1>1 DEF Current
  <2>2. QED
    BY <2>1, <1>1, AloneIsQuiet, QuietStep
<1>7. QED
  BY <1>3, <1>4, <1>5, <1>6 DEF IInv

-----------------------------------------------------------------------------
(* The steps of a call. *)

\* A step that changes one conversation.
LEMMA OneConversation ==
    ASSUME Typed, Runs, NEW t \in Attempts, NEW cw, Quiet(conv[t], cw),
           conv' = [conv EXCEPT ![t] = cw]
    PROVE  /\ conv' \in [Attempts -> Conversation] /\ conv'[t] = cw
           /\ \A u \in Attempts : u # t => conv'[u] = conv[u]
           /\ \A u \in Attempts : Quiet(conv[u], conv'[u])
<1>1. cw \in Conversation /\ conv \in [Attempts -> Conversation]
  BY DEF Quiet, Sound, Typed
<1>2. /\ conv' \in [Attempts -> Conversation] /\ conv'[t] = cw
      /\ \A u \in Attempts : u # t => conv'[u] = conv[u]
  BY <1>1
<1>3. ASSUME NEW u \in Attempts PROVE Quiet(conv[u], conv'[u])
  <2>1. CASE u = t
    BY <2>1, <1>2
  <2>2. CASE u # t
    BY <2>2, <1>2, SameIsQuiet DEF Runs
  <2>3. QED
    BY <2>1, <2>2
<1>4. QED
  BY <1>2, <1>3

\* Whose conversation a request is about, and who may be alive meanwhile.
LEMMA InRequest ==
    ASSUME Typed, CallIsInShape, Tidy, call.step \in Requests \cup Attach
    PROVE  /\ call \in Calls /\ call.t \in Attempts /\ conv[call.t] \in Conversation
           /\ \/ call.op = "attach" /\ call.step \in Attach
              \/ call.op # "attach" /\ call.op # "none" /\ call.step \notin Attach
                 /\ call.t = session.transport
           /\ \A k \in machines.alive : k = session.qemu
           /\ \A t \in Attempts : conv[t].adapter = "alive" => t = session.transport \/ t = call.t
<1>1. /\ call.t # 0
      /\ \/ call.op = "attach" /\ call.step \in Attach
         \/ call.op # "attach" /\ call.op # "none" /\ call.step \notin Attach
            /\ call.t = session.transport
  BY DEF CallIsInShape, Requests, Attach
<1>2. call \in Calls /\ call.t \in Attempts
  BY <1>1 DEF Typed, Calls
<1>3. call.step \notin {"ready", "draining"}
  BY DEF Requests, Attach
<1>4. QED
  BY <1>1, <1>2, <1>3 DEF Typed, Tidy

LEMMA ErrorIInv ==
    ASSUME IInv, NEW how, NEW cv, call.step \in Requests \cup Attach,
           Later(conv[call.t], cv), Error(how, cv), machines' = machines, target' = target,
           reported' = reported, mixed' = mixed, used' = used
    PROVE  IInv'
<1> DEFINE cw == IF call.step \in Attach THEN Shutdown(cv) ELSE cv
<1>1. /\ Typed /\ CallIsInShape /\ Runs /\ Told /\ Ahead /\ Tidy /\ Listed
  BY DEF IInv
<1>2. /\ call \in Calls /\ call.t \in Attempts /\ conv[call.t] \in Conversation
      /\ \/ call.op = "attach" /\ call.step \in Attach
         \/ call.op # "attach" /\ call.op # "none" /\ call.step \notin Attach
            /\ call.t = session.transport
      /\ \A k \in machines.alive : k = session.qemu
      /\ \A t \in Attempts : conv[t].adapter = "alive" => t = session.transport \/ t = call.t
  BY <1>1, InRequest
<1>3. /\ session' \in Sessions /\ session'.transport = session.transport
      /\ session'.qemu = session.qemu /\ session'.hardware = session.hardware
  <2>1. session' = session \/ session' = [session EXCEPT !.state = "Poisoned"]
    BY DEF Error
  <2>2. QED
    BY <2>1, <1>1 DEF Typed, Sessions, States
<1>4. /\ call' \in Calls /\ call'.seq = 0
      /\ \/ call'.op = "none" /\ call'.step = "none"
         \/ call'.op = "resume" /\ call.op = "resume" /\ call'.step = "registers" /\ call'.t = call.t
         \/ call.step = "disconnect" /\ call'.op = call.op /\ call'.step = "drop"
  <2>1. \/ call' = Done
        \/ call' = To("registers") /\ call.op = "resume"
        \/ call' = To("drop") /\ call.step = "disconnect"
    BY DEF Error
  <2>2. QED
    BY <2>1, <1>2, CallMoves DEF Steps, Requests
<1>5. Quiet(conv[call.t], cw) /\ (cw.adapter = "alive" => call.t = session.transport)
  <2>1. Quiet(conv[call.t], cv) /\ Sound(cv)
    BY LaterIsQuiet DEF Later
  <2>2. CASE call.step \in Attach
    BY <2>1, <2>2, ShutdownIsQuiet, QuietTwice
  <2>3. CASE call.step \notin Attach
    BY <2>1, <2>3, <1>2
  <2>4. QED
    BY <2>2, <2>3
<1>6. conv' = [conv EXCEPT ![call.t] = cw]
  BY DEF Error
<1> HIDE DEF cw
<1>7. /\ conv' \in [Attempts -> Conversation] /\ conv'[call.t] = cw
      /\ \A u \in Attempts : u # call.t => conv'[u] = conv[u]
      /\ \A u \in Attempts : Quiet(conv[u], conv'[u])
  BY <1>1, <1>2, <1>5, <1>6, OneConversation
<1>8. Typed'
  BY <1>1, <1>3, <1>4, <1>7 DEF Typed
<1>9. CallIsInShape'
  <2>1. call.step = "disconnect" => call.op = "detach"
    BY <1>1 DEF CallIsInShape, Attach
  <2>2. call.op = "resume" => call.t = session.transport /\ call.t # 0
    BY <1>2 DEF Attempts
  <2>3. QED
    BY <2>1, <2>2, <1>3, <1>4 DEF CallIsInShape
<1>10. Tidy'
  <2>1. \A t \in Attempts : conv'[t].adapter = "alive" => t = session.transport
    BY <1>2, <1>5, <1>7
  <2>2. QED
    BY <2>1, <1>2, <1>3 DEF Tidy
<1>11. \A t \in Attempts : Current(t)' => Current(t) \/ t > used.attempts
  <2>1. call'.op # "attach"
    BY <1>2, <1>4, <1>1 DEF CallIsInShape, Attach
  <2>2. QED
    BY <2>1, <1>3 DEF Current
<1>12. Runs' /\ Told' /\ Ahead' /\ Listed'
  BY <1>1, <1>3, <1>7, <1>11, QuietStep
<1>13. Asked'
  BY <1>4 DEF Asked
<1>14. QED
  BY <1>8, <1>9, <1>10, <1>12, <1>13 DEF IInv

\* Transport::spawn.
LEMMA SpawnIInv ==
    ASSUME IInv, Spawn
    PROVE  IInv'
<1> DEFINE cw == [conv[call.t] EXCEPT !.adapter = "alive"]
<1>1. /\ Typed /\ CallIsInShape /\ Runs /\ Told /\ Ahead /\ Tidy /\ Listed
      /\ call.step = "spawn" /\ session' = session /\ machines' = machines /\ target' = target
      /\ reported' = reported /\ mixed' = mixed /\ used' = used
  BY DEF IInv, Spawn, history
<1>2. /\ call.op = "attach" /\ call.t \in Attempts /\ call \in Calls
      /\ conv[call.t] \in Conversation /\ conv \in [Attempts -> Conversation]
  BY <1>1 DEF CallIsInShape, Typed, Calls, Attach
<1>3. \/ call' = Done /\ conv' = conv
      \/ call' = To("initialize") /\ conv' = [conv EXCEPT ![call.t] = cw]
  BY DEF Spawn
<1>4. /\ call' \in Calls /\ call'.seq = 0
      /\ \/ call' = Done /\ call'.op = "none" /\ call'.step = "none"
         \/ /\ call' = To("initialize") /\ call'.op = "attach" /\ call'.step = "initialize"
            /\ call'.t = call.t
  BY <1>2, <1>3, CallMoves DEF Steps, Requests
<1>5. Quiet(conv[call.t], cw)
  <2>1. Sound(conv[call.t])
    BY <1>1, <1>2 DEF Runs
  <2>2. /\ cw \in Conversation /\ cw.events = conv[call.t].events
        /\ cw.incoming = conv[call.t].incoming /\ cw.early = conv[call.t].early
        /\ cw.next = conv[call.t].next /\ cw.owed = conv[call.t].owed
        /\ cw.wire = conv[call.t].wire /\ cw.breakpoints = conv[call.t].breakpoints
    BY <1>2 DEF Conversation
  <2> HIDE DEF cw
  <2>3. Sound(cw) /\ Stops(cw) = Stops(conv[call.t])
    BY <2>1, <2>2, SameQueues
  <2>4. QED
    BY <2>2, <2>3 DEF Quiet, Grows
<1> HIDE DEF cw
<1>6. /\ conv' \in [Attempts -> Conversation]
      /\ \A u \in Attempts : conv'[u] = conv[u] \/ (u = call.t /\ call' = To("initialize"))
      /\ \A u \in Attempts : Quiet(conv[u], conv'[u])
  <2>1. CASE conv' = conv
    BY <2>1, <1>1, <1>2, AloneIsQuiet
  <2>2. CASE call' = To("initialize") /\ conv' = [conv EXCEPT ![call.t] = cw]
    BY <2>2, <1>1, <1>2, <1>5, OneConversation
  <2>3. QED
    BY <2>1, <2>2, <1>3
<1>7. Typed'
  BY <1>1, <1>4, <1>6 DEF Typed
<1>8. CallIsInShape'
  BY <1>1, <1>2, <1>4 DEF CallIsInShape, Attach
<1>9. Tidy'
  <2>1. \A t \in Attempts : conv'[t].adapter = "alive" =>
          t = session.transport \/ (t = call.t /\ call' = To("initialize"))
    BY <1>1, <1>6 DEF Tidy, Attach
  <2>2. call' = To("initialize") => call'.op = "attach" /\ call'.step \in Attach /\ call'.t = call.t
    BY <1>2, CallMoves DEF Steps, Attach
  <2>3. QED
    BY <2>1, <2>2, <1>1 DEF Tidy
<1>10. \A t \in Attempts : Current(t)' => Current(t) \/ t > used.attempts
  BY <1>1, <1>2, <1>4 DEF Current
<1>11. Runs' /\ Told' /\ Ahead' /\ Listed'
  BY <1>1, <1>6, <1>10, QuietStep
<1>12. Asked'
  BY <1>4 DEF Asked
<1>13. QED
  BY <1>7, <1>8, <1>9, <1>11, <1>12 DEF IInv

\* A request that goes out is the only one of its number, and nobody has answered it.
LEMMA SentIsQuiet ==
    ASSUME NEW cv, NEW command \in Commands, Sound(cv)
    PROVE  LET cw == Sent(cv, command) IN
           /\ Quiet(cv, cw) /\ cw.adapter = cv.adapter /\ cw.next = cv.next + 1
           /\ command \notin {"configured", "resume"} => Answerable(cw, cv.next)
<1> DEFINE cw == Sent(cv, command)
           r == [seq |-> cv.next, command |-> command]
<1>1. /\ Sound(cw) /\ Stops(cw) = Stops(cv) /\ cw.next = cv.next + 1
      /\ cw.adapter = cv.adapter /\ cw.breakpoints = cv.breakpoints
      /\ cw.incoming = cv.incoming /\ cw.early = cv.early
      /\ \A i \in 1 .. Len(cw.wire) : cw.wire[i].seq < cv.next \/ cw.wire[i] = r
  BY SentIsSound
<1> HIDE DEF cw
<1>2. cv.next \in Nat /\ cv \in Conversation /\ cw \in Conversation
  BY <1>1 DEF Sound, Conversation
<1>3. ASSUME command \notin {"configured", "resume"}, NEW i \in 1 .. Len(cw.wire),
             cw.wire[i].seq = cv.next
      PROVE  cw.wire[i].command \notin {"configured", "resume"}
  BY <1>1, <1>2, <1>3
<1>4. ASSUME NEW m \in Said(cw) PROVE ~Answers(m, cv.next)
  <2>1. m \in cv.early \/ \E i \in 1 .. Len(cv.incoming) : m = cv.incoming[i]
    BY <1>1, <1>4 DEF Said
  <2>2. m.seq < cv.next
    BY <2>1 DEF Sound, Numbered
  <2>3. QED
    BY <2>2, <1>2 DEF Answers
<1>5. Quiet(cv, cw)
  BY <1>1 DEF Quiet, Grows
<1>6. QED
  BY <1>1, <1>3, <1>4, <1>5 DEF Answerable, cw

LEMMA AskIInv ==
    ASSUME IInv, Ask
    PROVE  IInv'
<1> DEFINE cv == conv[call.t]
           out == IF call.step = "configured" THEN Sent(cv, "attach") ELSE cv
           cw == Sent(out, call.step)
<1>1. /\ Typed /\ CallIsInShape /\ Runs /\ Told /\ Ahead /\ Tidy /\ Listed
      /\ call.step \in Requests /\ machines' = machines /\ target' = target
      /\ reported' = reported /\ mixed' = mixed /\ used' = used
  BY DEF IInv, Ask, history
<1>2. /\ call \in Calls /\ call.t \in Attempts /\ cv \in Conversation
      /\ \A k \in machines.alive : k = session.qemu
  BY <1>1, InRequest
<1>3. Sound(cv)
  BY <1>1, <1>2 DEF Runs
<1>4. CASE ~CanSend(cv)
  <2>1. Error("closed", cv) \/ Error("unsent", cv)
    BY <1>4 DEF Ask
  <2>2. Later(cv, cv)
    BY <1>3, ClosedIsLater
  <2>3. QED
    BY <2>1, <2>2, <1>1, ErrorIInv
<1>5. CASE CanSend(cv)
  <2>1. conv' = [conv EXCEPT ![call.t] = cw] /\ call' = [call EXCEPT !.seq = out.next]
        /\ session' = session
    BY <1>5 DEF Ask
  <2>2. Quiet(cv, out) /\ out.adapter = cv.adapter
    <3>1. CASE call.step = "configured"
      BY <3>1, <1>3, SentIsQuiet DEF Commands
    <3>2. CASE call.step # "configured"
      BY <3>2, <1>3, SameIsQuiet
    <3>3. QED
      BY <3>1, <3>2
  <2>3. Sound(out) /\ out.next \in Nat
    BY <2>2 DEF Quiet, Sound, Conversation
  <2> HIDE DEF out, cv
  <2>4. /\ Quiet(out, cw) /\ cw.adapter = out.adapter
        /\ call.step = "after" => Answerable(cw, out.next)
    BY <2>3, <1>1, SentIsQuiet DEF Commands
  <2> HIDE DEF cw
  <2>5. Quiet(cv, cw)
    BY <2>2, <2>4, QuietTwice
  <2>6. /\ conv' \in [Attempts -> Conversation] /\ conv'[call.t] = cw
        /\ \A u \in Attempts : u # call.t => conv'[u] = conv[u]
        /\ \A u \in Attempts : Quiet(conv[u], conv'[u])
    BY <2>1, <2>5, <1>1, <1>2, OneConversation DEF cv
  <2>7. /\ call' \in Calls /\ call'.op = call.op /\ call'.step = call.step /\ call'.t = call.t
        /\ call'.seq = out.next
    BY <2>1, <2>3, <1>2 DEF Calls
  <2>8. Typed'
    BY <2>1, <2>6, <2>7, <1>1 DEF Typed
  <2>9. CallIsInShape'
    BY <2>1, <2>7, <1>1 DEF CallIsInShape
  <2>10. Tidy'
    <3>1. \A u \in Attempts : conv'[u].adapter = conv[u].adapter
      BY <2>2, <2>4, <2>6 DEF cv
    <3>2. QED
      BY <3>1, <2>1, <2>7, <1>1 DEF Tidy
  <2>11. \A t \in Attempts : Current(t)' => Current(t) \/ t > used.attempts
    BY <2>1, <2>7 DEF Current
  <2>12. Runs' /\ Told' /\ Ahead' /\ Listed'
    BY <2>1, <2>6, <2>11, <1>1, QuietStep
  <2>13. Asked'
    BY <2>4, <2>6, <2>7 DEF Asked
  <2>14. QED
    BY <2>8, <2>9, <2>10, <2>12, <2>13 DEF IInv
<1>6. QED
  BY <1>4, <1>5

\* Where a good response leads, by the kind of call.
LEMMA AfterMoves ==
    ASSUME Typed, CallIsInShape, NEW r, r.note \in Nat, call.seq # 0,
           call.step \in Requests \cup {"attached"}
    PROVE  /\ After(r) \in Calls /\ (After(r).step = "after" => After(r).seq = 0)
           /\ \/ After(r).op = "none" /\ After(r).step = "none"
              \/ /\ After(r).op = call.op /\ After(r).t = call.t
                 /\ \/ call.op = "attach" /\ After(r).step \in Attach
                    \/ call.op = "resume" /\ After(r).step \in {"stop", "registers"}
                    \/ call.op = "hbreak" /\ After(r).step \in {"hbreak", "after"}
                    \/ call.op = "prepare" /\ After(r).step = "check"
                    \/ call.op = "detach" /\ After(r).step = "drop"
<1> DEFINE c == After(r)
<1>1. /\ call \in Calls /\ Done \in Calls /\ Done.op = "none" /\ Done.step = "none"
      /\ Done.seq = 0
      /\ \A step \in Steps :
           /\ To(step) \in Calls /\ To(step).step = step /\ To(step).seq = 0
           /\ To(step).op = call.op /\ To(step).t = call.t
  BY CallMoves DEF Typed
<1>2. {"configured", "entry", "stop", "registers", "hbreak", "after", "check", "drop", "attached"}
        \subseteq Steps
  BY DEF Steps, Requests, Attach
<1>3. CASE call.step \in {"initialize", "attached"}
  <2>1. call.op = "attach"
    BY <1>3 DEF CallIsInShape, Attach
  <2>2. c = To("configured") \/ c = To("entry")
    BY <1>3 DEF After
  <2>3. QED
    BY <2>1, <2>2, <1>1, <1>2 DEF Attach
<1>4. CASE call.step = "configured"
  <2>1. call.op = "attach"
    BY <1>4 DEF CallIsInShape, Attach
  <2>2. c = [call EXCEPT !.step = "attached", !.seq = call.seq - 1]
    BY <1>4 DEF After
  <2>3. call.seq - 1 \in Nat
    BY <1>1 DEF Calls
  <2> HIDE DEF c
  <2>4. c \in Calls /\ c.op = call.op /\ c.t = call.t /\ c.step = "attached"
    BY <2>2, <2>3, <1>1, <1>2 DEF Calls
  <2>5. QED
    BY <2>1, <2>4 DEF Attach, c
<1>5. CASE call.step = "resume"
  <2>1. call.op = "resume"
    BY <1>5 DEF CallIsInShape, Attach
  <2>2. c = [To("stop") EXCEPT !.run = r.note]
    BY <1>5 DEF After
  <2>3. /\ To("stop") \in Calls /\ To("stop").op = call.op /\ To("stop").step = "stop"
        /\ To("stop").t = call.t
    BY <1>1, <1>2
  <2> HIDE DEF c
  <2>4. c \in Calls /\ c.op = call.op /\ c.t = call.t /\ c.step = "stop"
    BY <2>2, <2>3 DEF Calls
  <2>5. QED
    BY <2>1, <2>4 DEF c
<1>6. CASE call.step = "before"
  <2>1. call.op = "hbreak"
    BY <1>6 DEF CallIsInShape, Attach
  <2>2. c = [To("hbreak") EXCEPT !.known = r.note]
    BY <1>6 DEF After
  <2>3. /\ To("hbreak") \in Calls /\ To("hbreak").op = call.op /\ To("hbreak").step = "hbreak"
        /\ To("hbreak").t = call.t
    BY <1>1, <1>2
  <2> HIDE DEF c
  <2>4. c \in Calls /\ c.op = call.op /\ c.t = call.t /\ c.step = "hbreak"
    BY <2>2, <2>3 DEF Calls
  <2>5. QED
    BY <2>1, <2>4 DEF c
<1>7. CASE call.step = "hbreak"
  <2>1. call.op = "hbreak" /\ c = To("after")
    BY <1>7 DEF CallIsInShape, Attach, After
  <2>2. QED
    BY <2>1, <1>1, <1>2
<1>8. CASE call.step = "symbols"
  <2>1. call.op = "prepare" /\ c = To("check")
    BY <1>8 DEF CallIsInShape, Attach, After
  <2>2. QED
    BY <2>1, <1>1, <1>2
<1>9. CASE call.step = "disconnect"
  <2>1. call.op = "detach" /\ c = To("drop")
    BY <1>9 DEF CallIsInShape, Attach, After
  <2>2. QED
    BY <2>1, <1>1, <1>2
<1>10. CASE call.step \in {"frame", "registers", "after", "simple", "check"}
  <2>1. c = Done \/ (call.op = "resume" /\ c = To("registers"))
    BY <1>10 DEF After
  <2>2. QED
    BY <2>1, <1>1, <1>2
<1>11. QED
  BY <1>3, <1>4, <1>5, <1>6, <1>7, <1>8, <1>9, <1>10 DEF Requests

LEMMA RespondIInv ==
    ASSUME IInv, Respond
    PROVE  IInv'
<1> DEFINE cv == conv[call.t]
<1>1. /\ Typed /\ CallIsInShape /\ Runs /\ Told /\ Ahead /\ Tidy /\ Listed /\ Asked
      /\ call.step \in Requests \cup {"attached"} /\ call.seq # 0
      /\ machines' = machines /\ target' = target /\ reported' = reported /\ used' = used
  BY DEF IInv, Respond
<1>2. call.step \in Requests \cup Attach
  BY <1>1 DEF Attach
<1>3. /\ call \in Calls /\ call.t \in Attempts /\ cv \in Conversation
      /\ \/ call.op = "attach" /\ call.step \in Attach
         \/ call.op # "attach" /\ call.op # "none" /\ call.step \notin Attach
            /\ call.t = session.transport
      /\ \A k \in machines.alive : k = session.qemu
      /\ \A t \in Attempts : conv[t].adapter = "alive" => t = session.transport \/ t = call.t
  BY <1>1, <1>2, InRequest
<1>4. Sound(cv) /\ call.seq \in Nat
  BY <1>1, <1>3 DEF Runs, Calls
<1>5. PICK r \in WaitResponse(cv, call.seq) :
        /\ mixed' = (mixed \/ ~r.right)
        /\ IF r.how = "ok" \/ (r.how = "refused" /\ call.step = "configured")
           THEN /\ call' = After(r)
                /\ conv' = [conv EXCEPT ![call.t] = r.conv]
                /\ session' = IF call.step = "after"
                              THEN [session EXCEPT !.hardware =
                                      @ \cup {<<call.t, k>> : k \in Created(r, r.conv)}]
                              ELSE session
           ELSE Error(r.how, r.conv)
  BY DEF Respond
<1>6. /\ r.right = TRUE /\ Later(cv, r.conv) /\ r.note \in Nat
      /\ r.how \in {"ok", "refused"} =>
           \E m \in Said(cv) : Answers(m, call.seq) /\ m.note = r.note
  <2>1. r \in WaitResponse(cv, call.seq)
    BY <1>5
  <2> HIDE DEF cv
  <2>2. QED
    BY <2>1, <1>4, ResponseIsTheOne
<1>7. mixed' = mixed
  BY <1>1, <1>5, <1>6 DEF Typed
<1>8. CASE ~(r.how = "ok" \/ (r.how = "refused" /\ call.step = "configured"))
  <2>1. Error(r.how, r.conv)
    BY <1>5, <1>8
  <2>2. QED
    BY <2>1, <1>1, <1>2, <1>6, <1>7, ErrorIInv
<1>9. CASE r.how = "ok" \/ (r.how = "refused" /\ call.step = "configured")
  <2> DEFINE cw == r.conv
  <2>1. /\ call' = After(r) /\ conv' = [conv EXCEPT ![call.t] = cw]
        /\ session' = IF call.step = "after"
                      THEN [session EXCEPT !.hardware =
                              @ \cup {<<call.t, k>> : k \in Created(r, cw)}]
                      ELSE session
    BY <1>5, <1>9
  <2>2. Quiet(cv, cw) /\ cw.adapter = cv.adapter /\ cw.breakpoints = cv.breakpoints
    BY <1>6, LaterIsQuiet DEF Later
  <2> HIDE DEF cw
  <2>3. /\ conv' \in [Attempts -> Conversation] /\ conv'[call.t] = cw
        /\ \A u \in Attempts : u # call.t => conv'[u] = conv[u]
        /\ \A u \in Attempts : Quiet(conv[u], conv'[u])
    BY <2>1, <2>2, <1>1, <1>3, OneConversation
  <2>4. /\ call' \in Calls /\ (call'.step = "after" => call'.seq = 0)
        /\ \/ call'.op = "none" /\ call'.step = "none"
           \/ /\ call'.op = call.op /\ call'.t = call.t
              /\ \/ call.op = "attach" /\ call'.step \in Attach
                 \/ call.op = "resume" /\ call'.step \in {"stop", "registers"}
                 \/ call.op = "hbreak" /\ call'.step \in {"hbreak", "after"}
                 \/ call.op = "prepare" /\ call'.step = "check"
                 \/ call.op = "detach" /\ call'.step = "drop"
    BY <2>1, <1>1, <1>6, AfterMoves
  <2>5. ASSUME call.step = "after", NEW k \in Created(r, cw), NEW b, b = <<call.t, k>>
        PROVE  k \in Nat \ {0} /\ Placed(b)'
    <3>1. k = call.known + 1 /\ k <= r.note /\ cw.breakpoints[k] = "hw" /\ k \in Nat \ {0}
      BY <2>5, <1>3 DEF Created, Calls
    <3>2. PICK m \in Said(cv) : Answers(m, call.seq) /\ m.note = r.note
      BY <1>6, <1>9
    <3>3. r.note <= Len(cv.breakpoints)
      BY <3>2, <2>5, <1>1 DEF Asked, Answerable
    <3>4. Len(cv.breakpoints) \in Nat
      BY <1>3, LenProperties DEF Conversation
    <3>5. k \in 1 .. Len(cw.breakpoints)
      BY <3>1, <3>3, <3>4, <2>2, <1>6
    <3>6. QED
      BY <3>1, <3>5, <2>3, <2>5 DEF Placed
  <2>6. /\ session' \in Sessions /\ session'.transport = session.transport
        /\ session'.qemu = session.qemu
        /\ \A b \in session'.hardware : b \in session.hardware \/ Placed(b)'
    <3>1. CASE call.step = "after"
      <4> DEFINE more == {<<call.t, k>> : k \in Created(r, cw)}
      <4>1. more \subseteq Attempts \X (Nat \ {0}) /\ \A b \in more : Placed(b)'
        BY <3>1, <2>5, <1>3
      <4>2. session' = [session EXCEPT !.hardware = session.hardware \cup more]
        BY <3>1, <2>1
      <4> HIDE DEF more
      <4>3. QED
        BY <4>1, <4>2, <1>1 DEF Typed, Sessions
    <3>2. CASE call.step # "after"
      BY <3>2, <2>1, <1>1 DEF Typed
    <3>3. QED
      BY <3>1, <3>2
  <2>7. Typed'
    BY <2>3, <2>4, <2>6, <1>1, <1>7 DEF Typed
  <2>8. CallIsInShape'
    <3>1. call.op = "attach" => call.t = used.attempts /\ call.t # 0
      BY <1>1 DEF CallIsInShape
    <3>2. call.op \notin {"attach", "none"} => call.t = session.transport /\ call.t # 0
      BY <1>3 DEF Attempts
    <3>3. QED
      BY <3>1, <3>2, <2>4, <2>6, <1>1 DEF CallIsInShape
  <2>9. Tidy'
    <3>1. \A u \in Attempts : conv'[u].adapter = conv[u].adapter
      BY <2>2, <2>3
    <3>2. \A u \in Attempts : conv'[u].adapter = "alive" =>
            u = session.transport \/ (u = call.t /\ call.op = "attach")
      BY <3>1, <1>3
    <3>3. call.op = "attach" => call'.op = "attach" /\ call'.step \in Attach /\ call'.t = call.t
      <4>1. call.op = "attach" => call.step # "after"
        BY <1>3 DEF Attach
      <4>2. call.op = "attach" => call.step \in {"initialize", "configured", "attached"}
        BY <1>1, <1>3 DEF Requests, Attach
      <4>3. call.op = "attach" => call'.step # "none"
        BY <4>2, <2>1, <1>3, CallMoves DEF After, Steps, Requests, Attach, Calls
      <4>4. QED
        BY <4>3, <2>4
    <3>4. QED
      BY <3>2, <3>3, <2>6, <1>1, <1>3 DEF Tidy
  <2>10. \A t \in Attempts : Current(t)' => Current(t) \/ t > used.attempts
    BY <2>4, <2>6 DEF Current
  <2>11. Runs' /\ Told' /\ Ahead' /\ Listed'
    BY <2>3, <2>6, <2>10, <1>1, QuietStep
  <2>12. Asked'
    BY <2>4 DEF Asked
  <2>13. QED
    BY <2>7, <2>8, <2>9, <2>11, <2>12 DEF IInv
<1>10. QED
  BY <1>8, <1>9

\* What is not waited for is put aside.
LEMMA KeepIInv ==
    ASSUME IInv, Keep
    PROVE  IInv'
<1> DEFINE cv == conv[call.t]
           cw == Kept(cv)
<1>1. /\ Typed /\ CallIsInShape /\ Runs /\ Told /\ Ahead /\ Tidy /\ Listed /\ Asked
      /\ call.t # 0 /\ cv.incoming # <<>> /\ conv' = [conv EXCEPT ![call.t] = cw]
      /\ session' = session /\ call' = call /\ machines' = machines /\ target' = target
      /\ reported' = reported /\ mixed' = mixed /\ used' = used
  BY DEF IInv, Keep, history
<1>2. call.t \in Attempts
  BY <1>1 DEF Typed, Calls
<1>3. Sound(cv)
  BY <1>1, <1>2 DEF Runs
<1>4. /\ Sound(cw) /\ Stops(cw) \subseteq Stops(cv)
      /\ cw.adapter = cv.adapter /\ cw.breakpoints = cv.breakpoints /\ cw.wire = cv.wire
      /\ \A i \in 1 .. Len(cw.incoming) :
           \E j \in 1 .. Len(cv.incoming) : cw.incoming[i] = cv.incoming[j]
      /\ cw.early \subseteq cv.early \cup {Head(cv.incoming)}
      /\ \E j \in 1 .. Len(cv.incoming) : Head(cv.incoming) = cv.incoming[j]
  BY <1>1, <1>3, KeptIsSound
<1> HIDE DEF cw
<1>5. Quiet(cv, cw)
  BY <1>4 DEF Quiet, Grows
<1>6. /\ conv' \in [Attempts -> Conversation] /\ conv'[call.t] = cw
      /\ \A u \in Attempts : u # call.t => conv'[u] = conv[u]
      /\ \A u \in Attempts : Quiet(conv[u], conv'[u])
  BY <1>1, <1>2, <1>5, OneConversation
<1>7. Typed'
  BY <1>1, <1>6 DEF Typed
<1>8. CallIsInShape'
  BY <1>1 DEF CallIsInShape
<1>9. Tidy'
  <2>1. \A u \in Attempts : conv'[u].adapter = conv[u].adapter
    BY <1>4, <1>6
  <2>2. QED
    BY <2>1, <1>1 DEF Tidy
<1>10. \A t \in Attempts : Current(t)' => Current(t) \/ t > used.attempts
  BY <1>1 DEF Current
<1>11. Runs' /\ Told' /\ Ahead' /\ Listed'
  BY <1>1, <1>6, <1>10, QuietStep
<1>12. Asked'
  <2>1. Said(cw) \subseteq Said(cv)
    BY <1>4 DEF Said
  <2>2. ASSUME NEW seq, Answerable(cv, seq) PROVE Answerable(cw, seq)
    BY <2>1, <2>2, <1>4 DEF Answerable
  <2>3. QED
    BY <2>2, <1>1, <1>6 DEF Asked
<1>13. QED
  BY <1>7, <1>8, <1>9, <1>11, <1>12 DEF IInv

\* attach, step 5: the new transport takes the place of the old one.
LEMMA EntryIInv ==
    ASSUME IInv, Entry
    PROVE  IInv'
<1> DEFINE cv == conv[call.t]
<1>1. /\ Typed /\ CallIsInShape /\ Runs /\ Told /\ Ahead /\ Tidy /\ Listed
      /\ call.step = "entry" /\ machines' = machines /\ target' = target
      /\ reported' = reported /\ mixed' = mixed /\ used' = used
  BY DEF IInv, Entry, history
<1>2. call.step \in Requests \cup Attach /\ call.step \in Attach
  BY <1>1 DEF Attach
<1>3. /\ call \in Calls /\ call.t \in Attempts /\ cv \in Conversation /\ call.op = "attach"
      /\ \A k \in machines.alive : k = session.qemu
      /\ \A t \in Attempts : conv[t].adapter = "alive" => t = session.transport \/ t = call.t
  BY <1>1, <1>2, InRequest
<1>4. Sound(cv)
  BY <1>1, <1>3 DEF Runs
<1>5. PICK r \in WaitStopped(cv) :
        IF r.how = "closed" THEN Error(r.how, r.conv)
        ELSE /\ session' = [session EXCEPT !.transport = call.t, !.state = "Ready"]
             /\ conv' = [t \in Attempts |->
                           IF t = call.t THEN [r.conv EXCEPT !.events = <<>>]
                           ELSE IF t = session.transport THEN Shutdown(conv[t]) ELSE conv[t]]
             /\ call' = Done
  BY DEF Entry
<1>6. Later(cv, r.conv)
  <2>1. r \in WaitStopped(cv)
    BY <1>5
  <2> HIDE DEF cv
  <2>2. QED
    BY <2>1, <1>4, StopIsTheOldest
<1>7. CASE r.how = "closed"
  <2>1. Error(r.how, r.conv)
    BY <1>5, <1>7
  <2>2. QED
    BY <2>1, <1>1, <1>2, <1>6, ErrorIInv
<1>8. CASE r.how # "closed"
  <2> DEFINE cw == [r.conv EXCEPT !.events = <<>>]
  <2>1. /\ session' = [session EXCEPT !.transport = call.t, !.state = "Ready"]
        /\ conv' = [t \in Attempts |->
                      IF t = call.t THEN cw
                      ELSE IF t = session.transport THEN Shutdown(conv[t]) ELSE conv[t]]
        /\ call' = Done
    BY <1>5, <1>8
  <2>2. Quiet(cv, cw)
    <3>1. Sound(r.conv) /\ r.conv.breakpoints = cv.breakpoints /\ Stops(r.conv) \subseteq Stops(cv)
      BY <1>6 DEF Later
    <3>2. Sound(cw) /\ Stops(cw) \subseteq Stops(r.conv)
      BY <3>1, DropEvents
    <3>3. cw.breakpoints = r.conv.breakpoints
      BY <3>1 DEF Sound, Conversation
    <3>4. QED
      BY <3>1, <3>2, <3>3 DEF Quiet, Grows
  <2> HIDE DEF cw
  <2>3. ASSUME NEW t \in Attempts
        PROVE  /\ Quiet(conv[t], conv'[t]) /\ conv'[t] \in Conversation
               /\ conv'[t].adapter = "alive" => t = call.t
    <3>1. CASE t = call.t
      BY <3>1, <2>1, <2>2, <1>3 DEF Quiet, Sound
    <3>2. CASE t # call.t /\ t = session.transport
      <4>1. conv'[t] = Shutdown(conv[t])
        BY <3>2, <2>1
      <4>2. Sound(conv[t])
        BY <1>1 DEF Runs
      <4>3. QED
        BY <4>1, <4>2, <3>2, ShutdownIsQuiet DEF Quiet, Sound
    <3>3. CASE t # call.t /\ t # session.transport
      <4>1. conv'[t] = conv[t] /\ Sound(conv[t])
        BY <3>3, <2>1, <1>1 DEF Runs
      <4>2. QED
        BY <4>1, <3>3, <1>3, SameIsQuiet DEF Sound
    <3>4. QED
      BY <3>1, <3>2, <3>3
  <2>4. conv' \in [Attempts -> Conversation]
    BY <2>1, <2>3
  <2>5. /\ session' \in Sessions /\ session'.transport = call.t
        /\ session'.qemu = session.qemu /\ session'.hardware = session.hardware
    BY <2>1, <1>1, <1>3 DEF Typed, Sessions, States
  <2>6. call' \in Calls /\ call'.op = "none" /\ call'.step = "none" /\ call'.seq = 0
    BY <2>1, <1>3, CallMoves
  <2>7. Typed'
    <3>1. call.t <= used.attempts
      BY <1>1, <1>3 DEF CallIsInShape, Typed, Calls, Attempts
    <3>2. QED
      BY <3>1, <2>4, <2>5, <2>6, <1>1 DEF Typed
  <2>8. CallIsInShape'
    BY <2>6 DEF CallIsInShape
  <2>9. Tidy'
    BY <2>3, <2>5, <1>1, <1>3 DEF Tidy
  <2>10. \A t \in Attempts : Current(t)' => Current(t) \/ t > used.attempts
    BY <2>5, <2>6, <1>3 DEF Current
  <2>11. Runs' /\ Told' /\ Ahead' /\ Listed'
    BY <2>3, <2>5, <2>10, <1>1, QuietStep
  <2>12. Asked'
    BY <2>6 DEF Asked
  <2>13. QED
    BY <2>7, <2>8, <2>9, <2>11, <2>12 DEF IInv
<1>9. QED
  BY <1>7, <1>8

\* await_stop: what is reported comes after all that has been, and before the rest.
LEMMA StoppedIInv ==
    ASSUME IInv, Stopped
    PROVE  IInv'
<1> DEFINE cv == conv[call.t]
<1>1. /\ Typed /\ CallIsInShape /\ Runs /\ Told /\ Ahead /\ Tidy /\ Listed
      /\ call.step = "stop" /\ session' = session /\ machines' = machines /\ target' = target
      /\ mixed' = mixed /\ used' = used
  BY DEF IInv, Stopped
<1>2. /\ call.op = "resume" /\ call.t = session.transport /\ call.t \in Attempts
      /\ call \in Calls /\ cv \in Conversation
  BY <1>1 DEF CallIsInShape, Typed, Calls, Attach
<1>3. Sound(cv)
  BY <1>1, <1>2 DEF Runs
<1>4. PICK r \in WaitStopped(cv) :
        /\ conv' = [conv EXCEPT ![call.t] = r.conv]
        /\ IF r.how = "ok"
           THEN /\ reported' = Append(reported, r.note)
                /\ fresh' = (fresh /\ r.note = call.run)
                /\ call' = To("frame")
           ELSE call' = Done /\ UNCHANGED <<reported, fresh>>
  BY DEF Stopped
<1>5. /\ Later(cv, r.conv)
      /\ r.how = "ok" => /\ r.note \in Nat /\ r.note \in Stops(cv)
                         /\ \A s \in Stops(r.conv) : r.note < s
  <2>1. r \in WaitStopped(cv)
    BY <1>4
  <2> HIDE DEF cv
  <2>2. QED
    BY <2>1, <1>3, StopIsTheOldest
<1> DEFINE cw == r.conv
<1>6. conv' = [conv EXCEPT ![call.t] = cw]
  BY <1>4
<1>7. Quiet(cv, cw) /\ cw.adapter = cv.adapter
  BY <1>5, LaterIsQuiet DEF Later
<1> HIDE DEF cw
<1>8. /\ conv' \in [Attempts -> Conversation] /\ conv'[call.t] = cw
      /\ \A u \in Attempts : u # call.t => conv'[u] = conv[u]
      /\ \A u \in Attempts : Quiet(conv[u], conv'[u])
  BY <1>1, <1>2, <1>6, <1>7, OneConversation
<1>9. /\ call' \in Calls /\ call'.seq = 0
      /\ \/ call'.op = "none" /\ call'.step = "none"
         \/ call'.op = "resume" /\ call'.step = "frame" /\ call'.t = call.t
  <2>1. call' = Done \/ call' = To("frame")
    BY <1>4
  <2>2. QED
    BY <2>1, <1>2, CallMoves DEF Steps, Requests
<1>10. /\ reported' \in Seq(Nat)
       /\ \/ reported' = reported
          \/ /\ reported' = Append(reported, r.note) /\ r.note \in Nat /\ r.note \in Stops(cv)
             /\ \A s \in Stops(cw) : r.note < s
  <2>1. CASE r.how = "ok"
    <3>1. reported' = Append(reported, r.note) /\ reported \in Seq(Nat)
      BY <2>1, <1>1, <1>4 DEF Typed
    <3>2. r.note \in Nat /\ r.note \in Stops(cv) /\ \A s \in Stops(cw) : r.note < s
      BY <2>1, <1>5 DEF cw
    <3> HIDE DEF cv
    <3>3. Append(reported, r.note) \in Seq(Nat)
      BY <3>1, <3>2, AppendIsOneMore
    <3>4. QED
      BY <3>1, <3>2, <3>3
  <2>2. CASE r.how # "ok"
    BY <2>2, <1>1, <1>4 DEF Typed
  <2>3. QED
    BY <2>1, <2>2
<1>11. Typed'
  BY <1>1, <1>8, <1>9, <1>10 DEF Typed
<1>12. CallIsInShape'
  BY <1>1, <1>2, <1>9 DEF CallIsInShape, Attempts
<1>13. Tidy'
  <2>1. \A u \in Attempts : conv'[u].adapter = "alive" => u = session.transport
    BY <1>1, <1>2, <1>7, <1>8 DEF Tidy
  <2>2. QED
    BY <2>1, <1>1, <1>2 DEF Tidy
<1>14. \A t \in Attempts : Current(t)' <=> t = session.transport
  BY <1>1, <1>9 DEF Current
<1>15. Asked'
  BY <1>9 DEF Asked
<1>16. CASE reported' = reported
  <2>1. Runs' /\ Told' /\ Ahead' /\ Listed'
    BY <1>1, <1>8, <1>14, <1>16, QuietStep DEF Current
  <2>2. QED
    BY <2>1, <1>11, <1>12, <1>13, <1>15 DEF IInv
<1>17. CASE /\ reported' = Append(reported, r.note) /\ r.note \in Nat /\ r.note \in Stops(cv)
            /\ \A s \in Stops(cw) : r.note < s
  <2>1. /\ Len(reported) \in Nat /\ Append(reported, r.note)[Len(reported) + 1] = r.note
        /\ \A i \in 1 .. Len(reported) :
             Append(reported, r.note)[i] = reported[i] /\ reported[i] \in Nat
        /\ \A i \in 1 .. Len(Append(reported, r.note)) :
             i \in 1 .. Len(reported) \/ i = Len(reported) + 1
    BY <1>1, <1>17, AppendIsOneMore DEF Typed
  <2>2. Ended(r.note) /\ \A i \in 1 .. Len(reported) : reported[i] < r.note
    BY <1>1, <1>2, <1>17 DEF Runs, Ahead, Current
  <2>3. Told'
    <3>1. \A i \in 1 .. Len(reported') : Ended(reported'[i])
      BY <2>1, <2>2, <1>1, <1>17 DEF Told
    <3>2. ASSUME NEW i \in 1 .. Len(reported'), NEW j \in 1 .. Len(reported'), i < j
          PROVE  reported'[i] < reported'[j]
      <4>1. i \in 1 .. Len(reported) /\ reported'[i] = reported[i]
        BY <2>1, <1>17, <3>2
      <4>2. CASE j \in 1 .. Len(reported)
        BY <4>1, <4>2, <2>1, <1>1, <1>17, <3>2 DEF Told
      <4>3. CASE j = Len(reported) + 1
        BY <4>1, <4>3, <2>1, <2>2, <1>17
      <4>4. QED
        BY <4>2, <4>3, <2>1, <1>17
    <3>3. QED
      BY <3>1, <3>2, <1>1 DEF Told, Ended
  <2>4. Ahead'
    <3>1. SUFFICES ASSUME NEW t \in Attempts, t = session.transport,
                          NEW i \in 1 .. Len(reported'), NEW s \in Stops(conv'[t])
                   PROVE  reported'[i] < s
      BY <1>14 DEF Ahead
    <3>2. s \in Stops(cw) /\ s \in Stops(cv)
      BY <3>1, <1>2, <1>7, <1>8 DEF Quiet
    <3>3. CASE i \in 1 .. Len(reported)
      BY <3>1, <3>2, <3>3, <2>1, <1>1, <1>2, <1>17 DEF Ahead, Current
    <3>4. CASE i = Len(reported) + 1
      BY <3>2, <3>4, <2>1, <1>17
    <3>5. QED
      BY <3>3, <3>4, <2>1, <1>17
  <2>5. Runs'
    <3>1. ASSUME NEW t \in Attempts
          PROVE  /\ Sound(conv'[t]) /\ \A s \in Stops(conv'[t]) : Ended(s)
                 /\ t > used.attempts => Stops(conv'[t]) = {}
      <4>1. Sound(conv'[t]) /\ Stops(conv'[t]) \subseteq Stops(conv[t])
        BY <1>8 DEF Quiet
      <4>2. QED
        BY <4>1, <1>1 DEF Runs
    <3>2. QED
      BY <3>1, <1>1 DEF Runs, Ended
  <2>6. Listed'
    <3>1. ASSUME NEW b \in session.hardware PROVE Placed(b)'
      <4>1. b[1] \in Attempts /\ Placed(b)
        BY <1>1 DEF Typed, Sessions, Listed
      <4>2. Grows(conv[b[1]].breakpoints, conv'[b[1]].breakpoints)
        BY <4>1, <1>8 DEF Quiet
      <4>3. QED
        BY <4>1, <4>2 DEF Grows, Placed
    <3>2. QED
      BY <3>1, <1>1 DEF Listed
  <2>7. QED
    BY <2>3, <2>4, <2>5, <2>6, <1>11, <1>12, <1>13, <1>15 DEF IInv
<1>18. QED
  BY <1>10, <1>16, <1>17

\* Drop takes the transport and the machine along.
LEMMA DropIInv ==
    ASSUME IInv, Drop
    PROVE  IInv'
<1>1. /\ Typed /\ CallIsInShape /\ Runs /\ Told /\ Ahead /\ Tidy /\ Listed
      /\ call.step = "drop" /\ call' = Done /\ target' = target
      /\ reported' = reported /\ mixed' = mixed /\ used' = used
      /\ conv' = [t \in Attempts |-> IF t = session.transport THEN Shutdown(conv[t]) ELSE conv[t]]
      /\ machines' = IF session.qemu = 0 THEN machines ELSE Terminate(session.qemu)
      /\ session' = [session EXCEPT !.transport = 0, !.qemu = 0, !.state = "Detached"]
  BY DEF IInv, Drop, history
<1>2. /\ call.op \in {"detach", "drop"} /\ call \in Calls
      /\ \A k \in machines.alive : k = session.qemu
      /\ \A t \in Attempts : conv[t].adapter = "alive" => t = session.transport
  BY <1>1 DEF CallIsInShape, Typed, Tidy, Attach
<1>3. ASSUME NEW t \in Attempts
      PROVE  /\ Quiet(conv[t], conv'[t]) /\ conv'[t] \in Conversation
             /\ conv'[t].adapter # "alive"
  <2>1. Sound(conv[t])
    BY <1>1 DEF Runs
  <2>2. CASE t = session.transport
    <3>1. conv'[t] = Shutdown(conv[t])
      BY <2>2, <1>1
    <3>2. QED
      BY <3>1, <2>1, ShutdownIsQuiet DEF Quiet, Sound
  <2>3. CASE t # session.transport
    <3>1. conv'[t] = conv[t]
      BY <2>3, <1>1
    <3>2. QED
      BY <3>1, <2>1, <2>3, <1>2, SameIsQuiet DEF Sound
  <2>4. QED
    BY <2>2, <2>3
<1>4. conv' \in [Attempts -> Conversation]
  BY <1>1, <1>3
<1>5. /\ session' \in Sessions /\ session'.transport = 0 /\ session'.hardware = session.hardware
  BY <1>1 DEF Typed, Sessions, States
<1>6. call' \in Calls /\ call'.op = "none" /\ call'.step = "none" /\ call'.seq = 0
  BY <1>1, <1>2, CallMoves
<1>7. /\ machines' \in [alive : SUBSET Attempts, port : Attempts \cup {0}]
      /\ machines'.alive = {}
  <2>1. CASE session.qemu = 0
    <3>1. 0 \notin Attempts
      BY DEF Attempts
    <3>2. QED
      BY <2>1, <3>1, <1>1, <1>2 DEF Typed
  <2>2. CASE session.qemu # 0
    BY <2>2, <1>1, <1>2, TerminateEnds DEF Typed
  <2>3. QED
    BY <2>1, <2>2
<1>8. Typed'
  BY <1>1, <1>4, <1>5, <1>6, <1>7 DEF Typed
<1>9. CallIsInShape'
  BY <1>6 DEF CallIsInShape
<1>10. Tidy'
  BY <1>3, <1>7 DEF Tidy
<1>11. \A t \in Attempts : Current(t)' => Current(t) \/ t > used.attempts
  BY <1>5, <1>6 DEF Current, Attempts
<1>12. Runs' /\ Told' /\ Ahead' /\ Listed'
  BY <1>1, <1>3, <1>5, <1>11, QuietStep
<1>13. Asked'
  BY <1>6 DEF Asked
<1>14. QED
  BY <1>8, <1>9, <1>10, <1>12, <1>13 DEF IInv

-----------------------------------------------------------------------------
(* The adapter and the target. *)

\* A response that the adapter posts.
LEMMA ReplyIsQuiet ==
    ASSUME NEW cv, NEW m \in Message, Sound(cv), m.kind = "response", m.seq < cv.next
    PROVE  LET cw == Post(cv, m) IN
           /\ Quiet(cv, cw) /\ cw.adapter = cv.adapter
           /\ \A seq : Answerable(cv, seq) /\ (m.seq = seq => m.note <= Len(cv.breakpoints))
                         => Answerable(cw, seq)
<1> DEFINE cw == Post(cv, m)
<1>1. ~IsStop(m)
  BY DEF IsStop
<1>2. /\ Sound(cw) /\ Stops(cw) \subseteq Stops(cv) \cup {n \in {m.note} : IsStop(m)}
      /\ cw.adapter = cv.adapter /\ cw.breakpoints = cv.breakpoints
      /\ cw.wire = cv.wire /\ cw.early = cv.early /\ cw.next = cv.next
      /\ \A i \in 1 .. Len(cw.incoming) :
           cw.incoming[i] = m \/ (i \in 1 .. Len(cv.incoming) /\ cw.incoming[i] = cv.incoming[i])
  BY <1>1, PostIsSound
<1> HIDE DEF cw
<1>3. Said(cw) \subseteq Said(cv) \cup {m}
  BY <1>2 DEF Said
<1>4. Quiet(cv, cw)
  BY <1>1, <1>2 DEF Quiet, Grows
<1>5. ASSUME NEW seq, Answerable(cv, seq), m.seq = seq => m.note <= Len(cv.breakpoints)
      PROVE  Answerable(cw, seq)
  <2>1. ASSUME NEW n \in Said(cw), Answers(n, seq) PROVE n.note <= Len(cv.breakpoints)
    <3>1. CASE n = m
      BY <3>1, <2>1, <1>5 DEF Answers
    <3>2. CASE n \in Said(cv)
      BY <3>2, <2>1, <1>5 DEF Answerable
    <3>3. QED
      BY <3>1, <3>2, <1>3
  <2>2. QED
    BY <2>1, <1>2, <1>5 DEF Answerable
<1>6. QED
  BY <1>2, <1>4, <1>5 DEF cw

\* A step of the world that changes one conversation and perhaps begins a run.
LEMMA WorldIInv ==
    ASSUME IInv, NEW t \in Attempts, NEW cw, Quiet(conv[t], cw),
           conv' = [conv EXCEPT ![t] = cw], target' = target \/ StartsRun,
           cw.adapter = "alive" => conv[t].adapter = "alive",
           \A seq \in Nat : Answerable(conv[t], seq) => Answerable(cw, seq),
           session' = session, call' = call, machines' = machines, reported' = reported,
           mixed' = mixed, used' = used
    PROVE  IInv'
<1>1. /\ Typed /\ CallIsInShape /\ Runs /\ Told /\ Ahead /\ Tidy /\ Listed /\ Asked
  BY DEF IInv
<1>2. /\ conv' \in [Attempts -> Conversation] /\ conv'[t] = cw
      /\ \A u \in Attempts : u # t => conv'[u] = conv[u]
      /\ \A u \in Attempts : Quiet(conv[u], conv'[u])
  BY <1>1, OneConversation
<1>3. target' \in [running : BOOLEAN, run : Nat]
  <2>1. target \in [running : BOOLEAN, run : Nat] /\ target.run + 1 \in Nat
    BY <1>1 DEF Typed
  <2>2. CASE StartsRun
    BY <2>1, <2>2 DEF StartsRun
  <2>3. QED
    BY <2>1, <2>2
<1>4. Typed'
  BY <1>1, <1>2, <1>3 DEF Typed
<1>5. CallIsInShape'
  BY <1>1 DEF CallIsInShape
<1>6. Tidy'
  <2>1. \A u \in Attempts : conv'[u].adapter = "alive" => conv[u].adapter = "alive"
    BY <1>2
  <2>2. QED
    BY <2>1, <1>1 DEF Tidy
<1>7. \A u \in Attempts : Current(u)' => Current(u) \/ u > used.attempts
  BY <1>1 DEF Current
<1>8. Runs' /\ Told' /\ Ahead' /\ Listed'
  BY <1>1, <1>2, <1>7, QuietStep
<1>9. Asked'
  <2>1. SUFFICES ASSUME call.step = "after", call.seq # 0
                 PROVE  Answerable(conv'[call.t], call.seq)
    BY DEF Asked
  <2>2. Answerable(conv[call.t], call.seq) /\ call.t \in Attempts /\ call.seq \in Nat
    BY <2>1, <1>1 DEF Asked, CallIsInShape, Typed, Calls, Attach
  <2>3. QED
    BY <2>2, <1>2
<1>10. QED
  BY <1>4, <1>5, <1>6, <1>8, <1>9 DEF IInv

LEMMA AdapterEndsIInv ==
    ASSUME IInv, NEW t \in Attempts, AdapterDies(t) \/ ReaderEnds(t)
    PROVE  IInv'
<1> DEFINE cv == conv[t]
           cw == [cv EXCEPT !.eof = TRUE]
<1>1. /\ session' = session /\ call' = call /\ machines' = machines /\ target' = target
      /\ reported' = reported /\ mixed' = mixed /\ used' = used
  BY DEF AdapterDies, ReaderEnds, history
<1>2. Sound(cv)
  BY DEF IInv, Runs
<1>3. CASE AdapterDies(t)
  <2>1. conv' = [conv EXCEPT ![t] = Shutdown(cv)]
    BY <1>3 DEF AdapterDies
  <2>2. /\ Quiet(cv, Shutdown(cv)) /\ Shutdown(cv).adapter # "alive"
        /\ \A seq : Answerable(cv, seq) => Answerable(Shutdown(cv), seq)
    BY <1>2, ShutdownIsQuiet
  <2>3. QED
    BY <2>1, <2>2, <1>1, WorldIInv
<1>4. CASE ReaderEnds(t)
  <2>1. conv' = [conv EXCEPT ![t] = cw]
    BY <1>4 DEF ReaderEnds
  <2>2. /\ cw \in Conversation /\ cw.events = cv.events /\ cw.incoming = cv.incoming
        /\ cw.early = cv.early /\ cw.next = cv.next /\ cw.owed = cv.owed /\ cw.wire = cv.wire
        /\ cw.breakpoints = cv.breakpoints /\ cw.adapter = cv.adapter
    BY <1>2 DEF Sound, Conversation
  <2> HIDE DEF cw
  <2>3. Sound(cw) /\ Stops(cw) = Stops(cv)
    BY <2>2, <1>2, SameQueues
  <2>4. Quiet(cv, cw)
    BY <2>2, <2>3 DEF Quiet, Grows
  <2>5. \A seq \in Nat : Answerable(cv, seq) => Answerable(cw, seq)
    BY <2>2 DEF Answerable, Said
  <2>6. QED
    BY <2>1, <2>2, <2>4, <2>5, <1>1, WorldIInv
<1>5. QED
  BY <1>3, <1>4

\* The late answer to attach.
LEMMA ServeAttachIInv ==
    ASSUME IInv, NEW t \in Attempts, ServeAttach(t)
    PROVE  IInv'
<1> DEFINE cv == conv[t]
           cu == [cv EXCEPT !.owed = 0]
           Answer(ok) == Reply([seq |-> cv.owed], ok, 0)
<1>1. /\ session' = session /\ call' = call /\ machines' = machines /\ target' = target
      /\ reported' = reported /\ mixed' = mixed /\ used' = used
  BY DEF ServeAttach, history
<1>2. PICK ok \in BOOLEAN : conv' = [conv EXCEPT ![t] = Post(cu, Answer(ok))]
  BY DEF ServeAttach
<1>3. Sound(cv) /\ cv \in Conversation
  BY DEF IInv, Runs, Sound
<1>4. /\ cu \in Conversation /\ cu.events = cv.events /\ cu.incoming = cv.incoming
      /\ cu.early = cv.early /\ cu.next = cv.next /\ cu.owed = 0 /\ cu.wire = cv.wire
      /\ cu.breakpoints = cv.breakpoints /\ cu.adapter = cv.adapter
  BY <1>3 DEF Conversation
<1> HIDE DEF cu
<1>5. Sound(cu) /\ Stops(cu) = Stops(cv)
  BY <1>3, <1>4, SameQueues
<1>6. /\ Answer(ok) \in Message /\ Answer(ok).kind = "response" /\ Answer(ok).seq = cv.owed
      /\ Answer(ok).note = 0 /\ cv.owed < cu.next
  BY <1>3, <1>4 DEF Reply, Message, Conversation, Sound, Numbered
<1> DEFINE cw == Post(cu, Answer(ok))
<1> HIDE DEF Answer
<1>7. /\ Quiet(cu, cw) /\ cw.adapter = cu.adapter
      /\ \A seq : Answerable(cu, seq) /\ (Answer(ok).seq = seq => Answer(ok).note <= Len(cu.breakpoints))
                    => Answerable(cw, seq)
  BY <1>5, <1>6, ReplyIsQuiet
<1> HIDE DEF cw
<1>8. Quiet(cv, cu)
  BY <1>4, <1>5 DEF Quiet, Grows
<1>9. Quiet(cv, cw)
  BY <1>7, <1>8, QuietTwice
<1>10. \A seq \in Nat : Answerable(cv, seq) => Answerable(cw, seq)
  <2>1. \A seq : Answerable(cv, seq) => Answerable(cu, seq)
    BY <1>4 DEF Answerable, Said
  <2>2. 0 <= Len(cu.breakpoints)
    BY <1>3, <1>4, LenProperties DEF Conversation
  <2>3. QED
    BY <2>1, <2>2, <1>6, <1>7
<1>11. conv' = [conv EXCEPT ![t] = cw]
  BY <1>2 DEF cw
<1>12. QED
  BY <1>1, <1>4, <1>7, <1>9, <1>10, <1>11, WorldIInv

\* A request is served: the adapter takes it, may place a breakpoint, and answers.
LEMMA ServedIsQuiet ==
    ASSUME NEW cv, Sound(cv), cv.wire # <<>>, Head(cv.wire).command # "attach",
           NEW placed \in Seq({"hw", "pending"}), Grows(cv.breakpoints, placed),
           NEW ok \in BOOLEAN, NEW note \in Nat,
           \/ note <= Len(placed)
           \/ Head(cv.wire).command \in {"configured", "resume"}
    PROVE  LET cu == Served(cv, cv.owed, placed)
               cw == Post(cu, Reply(Head(cv.wire), ok, note))
           IN /\ Quiet(cv, cw) /\ cw.adapter = cv.adapter
              /\ \A seq \in Nat : Answerable(cv, seq) => Answerable(cw, seq)
<1> DEFINE cu == Served(cv, cv.owed, placed)
           m == Reply(Head(cv.wire), ok, note)
           cw == Post(cu, m)
<1>1. /\ Sound(cu) /\ Stops(cu) = Stops(cv) /\ cu.adapter = cv.adapter
      /\ cu.incoming = cv.incoming /\ cu.early = cv.early /\ cu.breakpoints = placed
      /\ cu.next = cv.next
      /\ Head(cv.wire) \in Wire /\ Head(cv.wire).seq < cv.next
      /\ \E j \in 1 .. Len(cv.wire) : Head(cv.wire) = cv.wire[j]
      /\ \A i \in 1 .. Len(cu.wire) : \E j \in 1 .. Len(cv.wire) : cu.wire[i] = cv.wire[j]
  <2>1. cv.owed \in Nat
    BY DEF Sound, Conversation
  <2>2. cv.owed < cv.next
    BY DEF Sound, Numbered
  <2>3. /\ Sound(cu) /\ Stops(cu) = Stops(cv) /\ cu.adapter = cv.adapter
        /\ cu.incoming = cv.incoming /\ cu.early = cv.early /\ cu.breakpoints = placed
        /\ cu.next = cv.next
    BY <2>1, <2>2, ServedIsSound
  <2>4. Head(cv.wire) \in Wire /\ Head(cv.wire).seq < cv.next
    BY <2>1, <2>2, ServedIsSound
  <2>5. \E j \in 1 .. Len(cv.wire) : Head(cv.wire) = cv.wire[j]
    BY <2>1, <2>2, ServedIsSound
  <2>6. \A i \in 1 .. Len(cu.wire) : \E j \in 1 .. Len(cv.wire) : cu.wire[i] = cv.wire[j]
    BY <2>1, <2>2, ServedIsSound
  <2>7. QED
    BY <2>3, <2>4, <2>5, <2>6
<1> HIDE DEF cu
<1>2. /\ m \in Message /\ m.kind = "response" /\ m.seq = Head(cv.wire).seq /\ m.note = note
      /\ m.seq < cu.next
  BY <1>1 DEF Reply, Message, Wire
<1> HIDE DEF m
<1>3. /\ Quiet(cu, cw) /\ cw.adapter = cu.adapter
      /\ \A seq : Answerable(cu, seq) /\ (m.seq = seq => m.note <= Len(cu.breakpoints))
                    => Answerable(cw, seq)
  BY <1>1, <1>2, ReplyIsQuiet
<1> HIDE DEF cw
<1>4. Quiet(cv, cu)
  BY <1>1 DEF Quiet
<1>5. Quiet(cv, cw)
  BY <1>3, <1>4, QuietTwice
<1>6. Len(cv.breakpoints) \in Nat /\ Len(placed) \in Nat /\ Len(cv.breakpoints) <= Len(placed)
  <2>1. Len(cv.breakpoints) \in Nat /\ Len(placed) \in Nat
    BY LenProperties DEF Sound, Conversation
  <2>2. QED
    BY <2>1 DEF Grows
<1>7. ASSUME NEW seq \in Nat, Answerable(cv, seq) PROVE Answerable(cw, seq)
  <2>1. \A i \in 1 .. Len(cu.wire) :
          cu.wire[i].seq = seq => cu.wire[i].command \notin {"configured", "resume"}
    BY <1>1, <1>7 DEF Answerable
  <2>2. Said(cu) = Said(cv)
    BY <1>1 DEF Said
  <2>3. ASSUME NEW n \in Said(cu), Answers(n, seq) PROVE n.note <= Len(cu.breakpoints)
    <3>1. n \in Message
      BY <2>2, <2>3, ElementOfSeq DEF Said, Sound, Conversation
    <3>2. n.note <= Len(cv.breakpoints) /\ n.note \in Nat
      BY <3>1, <2>2, <2>3, <1>7 DEF Answerable, Message
    <3>3. QED
      BY <3>2, <1>1, <1>6
  <2>4. Answerable(cu, seq)
    BY <2>1, <2>3 DEF Answerable
  <2>5. m.seq = seq => m.note <= Len(cu.breakpoints)
    BY <1>1, <1>2, <1>7 DEF Answerable
  <2>6. QED
    BY <2>4, <2>5, <1>3
<1>8. QED
  BY <1>1, <1>3, <1>5, <1>7 DEF cu, m, cw

\* The request to attach is remembered.
LEMMA RememberedIsQuiet ==
    ASSUME NEW cv, Sound(cv), cv.wire # <<>>
    PROVE  LET cw == Served(cv, Head(cv.wire).seq, cv.breakpoints) IN
           /\ Quiet(cv, cw) /\ cw.adapter = cv.adapter
           /\ \A seq \in Nat : Answerable(cv, seq) => Answerable(cw, seq)
<1> DEFINE owed == Head(cv.wire).seq
           cw == Served(cv, owed, cv.breakpoints)
<1>1. owed \in Nat /\ owed < cv.next /\ cv.breakpoints \in Seq({"hw", "pending"})
  <2>1. Head(cv.wire) = cv.wire[1] /\ 1 \in 1 .. Len(cv.wire) /\ Head(cv.wire) \in Wire
    BY TailIsOneLess DEF Sound, Conversation
  <2>2. QED
    BY <2>1 DEF Sound, Numbered, Conversation, Wire
<1> HIDE DEF owed
<1>2. /\ Sound(cw) /\ Stops(cw) = Stops(cv) /\ cw.adapter = cv.adapter
      /\ cw.incoming = cv.incoming /\ cw.early = cv.early
      /\ cw.breakpoints = cv.breakpoints
      /\ \A i \in 1 .. Len(cw.wire) : \E j \in 1 .. Len(cv.wire) : cw.wire[i] = cv.wire[j]
  BY <1>1, ServedIsSound
<1> HIDE DEF cw
<1>3. Quiet(cv, cw)
  BY <1>2 DEF Quiet, Grows
<1>4. \A seq \in Nat : Answerable(cv, seq) => Answerable(cw, seq)
  BY <1>2 DEF Answerable, Said
<1>5. QED
  BY <1>2, <1>3, <1>4 DEF cw, owed

LEMMA ServeIInv ==
    ASSUME IInv, NEW t \in Attempts, Serve(t)
    PROVE  IInv'
<1> DEFINE full == conv[t]
           r == Head(full.wire)
           cv == [full EXCEPT !.wire = Tail(@)]
           Answer(placed, ok, note) == Post(Served(full, full.owed, placed), Reply(r, ok, note))
           Good(placed, note) == /\ Grows(full.breakpoints, placed)
                                 /\ note <= Len(placed) \/ r.command \in {"configured", "resume"}
           Answered ==
             \E placed \in Seq({"hw", "pending"}), ok \in BOOLEAN, note \in Nat :
                Good(placed, note) /\ conv' = [conv EXCEPT ![t] = Answer(placed, ok, note)]
<1>1. /\ session' = session /\ call' = call /\ machines' = machines
      /\ reported' = reported /\ mixed' = mixed /\ used' = used /\ full.wire # <<>>
  BY DEF Serve, history
<1>2. Sound(full) /\ full \in Conversation /\ full.breakpoints \in Seq({"hw", "pending"})
  BY DEF IInv, Runs, Sound, Conversation
<1>3. /\ target.run + 1 \in Nat /\ target.run \in Nat /\ Len(full.breakpoints) \in Nat
  BY <1>2, LenProperties DEF IInv, Typed
<1>4. \/ /\ r.command = "attach" /\ target' = target
         /\ conv' = [conv EXCEPT ![t] = [cv EXCEPT !.owed = r.seq]]
      \/ r.command # "attach" /\ (target' = target \/ StartsRun) /\ Answered
  <2>1. CASE r.command = "attach"
    BY <2>1 DEF Serve
  <2>2. ASSUME NEW placed, NEW ok, NEW note
        PROVE  Post([cv EXCEPT !.breakpoints = placed], Reply(r, ok, note))
                 = Answer(placed, ok, note)
    <3>1. [cv EXCEPT !.breakpoints = placed] = Served(full, full.owed, placed)
      BY <1>2 DEF Served, Conversation
    <3>2. QED
      BY <3>1
  <2>3. ASSUME NEW ok, NEW note
        PROVE  Post(cv, Reply(r, ok, note)) = Answer(full.breakpoints, ok, note)
    <3>1. cv = Served(full, full.owed, full.breakpoints)
      BY <1>2 DEF Served, Conversation
    <3>2. QED
      BY <3>1
  <2>4. Grows(full.breakpoints, full.breakpoints) /\ cv.breakpoints = full.breakpoints
    BY <1>2 DEF Grows, Conversation
  <2> HIDE DEF cv, full, Answer
  <2>5. ASSUME NEW ok \in BOOLEAN, NEW note \in Nat,
               note <= Len(full.breakpoints) \/ r.command \in {"configured", "resume"},
               conv' = [conv EXCEPT ![t] = Post(cv, Reply(r, ok, note))]
        PROVE  Answered
    <3>1. conv' = [conv EXCEPT ![t] = Answer(full.breakpoints, ok, note)]
      BY <2>3, <2>5
    <3>2. QED
      BY <3>1, <2>4, <2>5, <1>2
  <2> HIDE DEF Answered
  <2>6. CASE r.command \in {"configured", "resume"}
    <3>1. \/ StartsRun /\ conv' = [conv EXCEPT ![t] = Post(cv, Reply(r, TRUE, target.run + 1))]
          \/ target' = target /\ conv' = [conv EXCEPT ![t] = Post(cv, Reply(r, FALSE, 0))]
      BY <2>6 DEF Serve, StartsRun, cv, full
    <3>2. Answered
      BY <3>1, <2>5, <2>6, <1>3
    <3>3. QED
      BY <3>1, <3>2, <2>6
  <2>7. CASE r.command = "hbreak"
    <3>1. /\ target' = target
          /\ \/ \E kind \in {"hw", "pending"} :
                  conv' = [conv EXCEPT ![t] =
                    Post([cv EXCEPT !.breakpoints = Append(@, kind)], Reply(r, TRUE, 0))]
             \/ conv' = [conv EXCEPT ![t] = Post(cv, Reply(r, FALSE, 0))]
      BY <2>7 DEF Serve, cv, full
    <3>2. CASE conv' = [conv EXCEPT ![t] = Post(cv, Reply(r, FALSE, 0))]
      <4>1. 0 <= Len(full.breakpoints)
        BY <1>3
      <4>2. QED
        BY <4>1, <3>1, <3>2, <2>5, <2>7
    <3>3. ASSUME NEW kind \in {"hw", "pending"},
                 conv' = [conv EXCEPT ![t] =
                    Post([cv EXCEPT !.breakpoints = Append(@, kind)], Reply(r, TRUE, 0))]
          PROVE  Answered
      <4> DEFINE placed == Append(full.breakpoints, kind)
      <4>1. /\ placed \in Seq({"hw", "pending"}) /\ Len(placed) = Len(full.breakpoints) + 1
            /\ \A i \in 1 .. Len(full.breakpoints) : placed[i] = full.breakpoints[i]
        BY <1>2, AppendIsOneMore
      <4>2. [cv EXCEPT !.breakpoints = Append(@, kind)] = [cv EXCEPT !.breakpoints = placed]
        BY <2>4
      <4> HIDE DEF placed
      <4>3. Grows(full.breakpoints, placed) /\ 0 <= Len(placed)
        BY <4>1, <1>3 DEF Grows
      <4>4. conv' = [conv EXCEPT ![t] = Answer(placed, TRUE, 0)]
        <5>1. Post([cv EXCEPT !.breakpoints = placed], Reply(r, TRUE, 0)) = Answer(placed, TRUE, 0)
          BY <2>2
        <5>2. QED
          BY <5>1, <4>2, <3>3
      <4>5. QED
        BY <4>1, <4>3, <4>4 DEF Answered
    <3>4. QED
      BY <3>1, <3>2, <3>3, <2>7
  <2>8. CASE r.command \notin {"attach", "configured", "resume", "hbreak"}
    <3>1. /\ target' = target
          /\ \E ok \in BOOLEAN :
               conv' = [conv EXCEPT ![t] = Post(cv, Reply(r, ok, Len(full.breakpoints)))]
      BY <2>4, <2>8 DEF Serve, cv, full
    <3>2. Len(full.breakpoints) <= Len(full.breakpoints)
      BY <1>3
    <3>3. QED
      BY <3>1, <3>2, <2>5, <2>8, <1>3
  <2>9. QED
    BY <2>1, <2>6, <2>7, <2>8
<1>5. CASE r.command = "attach" /\ target' = target /\ conv' = [conv EXCEPT ![t] = [cv EXCEPT !.owed = r.seq]]
  <2> DEFINE cw == Served(full, r.seq, full.breakpoints)
  <2>1. [cv EXCEPT !.owed = r.seq] = cw
    BY <1>2 DEF Conversation, Served
  <2>2. /\ Quiet(full, cw) /\ cw.adapter = full.adapter
        /\ \A seq \in Nat : Answerable(full, seq) => Answerable(cw, seq)
    BY <1>1, <1>2, RememberedIsQuiet
  <2>3. conv' = [conv EXCEPT ![t] = cw]
    BY <2>1, <1>5
  <2> HIDE DEF cw
  <2>4. QED
    BY <2>2, <2>3, <1>1, <1>5, WorldIInv
<1>6. ASSUME NEW placed \in Seq({"hw", "pending"}), NEW ok \in BOOLEAN, NEW note \in Nat,
             r.command # "attach", target' = target \/ StartsRun, Good(placed, note),
             conv' = [conv EXCEPT ![t] = Answer(placed, ok, note)]
      PROVE  IInv'
  <2> DEFINE cw == Answer(placed, ok, note)
  <2>1. /\ Quiet(full, cw) /\ cw.adapter = full.adapter
        /\ \A seq \in Nat : Answerable(full, seq) => Answerable(cw, seq)
    BY <1>1, <1>2, <1>6, ServedIsQuiet
  <2> HIDE DEF Answer
  <2>2. QED
    BY <2>1, <1>1, <1>6, WorldIInv
<1>7. QED
  BY <1>4, <1>5, <1>6

\* The CPU stops: the run that ends is the last, and was not told before.
LEMMA TargetStopsIInv ==
    ASSUME IInv, TargetStops
    PROVE  IInv'
<1> DEFINE m == [kind |-> "stopped", seq |-> 0, ok |-> TRUE, note |-> target.run]
           Told1(t) == conv[t].adapter = "alive" /\ conv[t].next > 3
<1>1. /\ Typed /\ CallIsInShape /\ Runs /\ Told /\ Ahead /\ Tidy /\ Listed /\ Asked
      /\ target.running /\ target' = [target EXCEPT !.running = FALSE]
      /\ conv' = [t \in Attempts |-> IF Told1(t) THEN Post(conv[t], m) ELSE conv[t]]
      /\ session' = session /\ call' = call /\ machines' = machines
      /\ reported' = reported /\ mixed' = mixed /\ used' = used
  BY DEF IInv, TargetStops, history
<1>2. /\ target.run \in Nat /\ target' \in [running : BOOLEAN, run : Nat]
      /\ target'.run = target.run /\ target'.running = FALSE
  BY <1>1 DEF Typed
<1>3. m \in Message /\ IsStop(m) /\ m.note = target.run /\ m.seq = 0 /\ m.kind = "stopped"
  BY <1>2 DEF Message, IsStop
<1> HIDE DEF m
<1>4. ASSUME NEW s, Ended(s) PROVE s \in Nat /\ s < target.run /\ Ended(s)'
  BY <1>1, <1>2, <1>4 DEF Ended
<1>5. Ended(target.run)'
  BY <1>2 DEF Ended
<1>6. ASSUME NEW t \in Attempts
      PROVE  /\ Sound(conv'[t]) /\ conv'[t].adapter = conv[t].adapter
             /\ conv'[t].breakpoints = conv[t].breakpoints
             /\ \A s \in Stops(conv'[t]) :
                  s \in Stops(conv[t]) \/ (s = target.run /\ conv[t].adapter = "alive")
             /\ \A seq \in Nat : Answerable(conv[t], seq) => Answerable(conv'[t], seq)
  <2> DEFINE cv == conv[t]
             cw == Post(cv, m)
  <2>1. Sound(cv) /\ cv \in Conversation /\ cv.next \in Nat /\ cv.next > 0
    BY <1>1 DEF Runs, Sound, Conversation
  <2>2. CASE Told1(t)
    <3>1. \A s \in Stops(cv) : s < m.note
      BY <1>1, <1>3, <1>4 DEF Runs
    <3>2. conv'[t] = cw /\ cv.adapter = "alive"
      BY <2>2, <1>1
    <3> HIDE DEF cv
    <3>3. /\ Sound(cw) /\ Stops(cw) \subseteq Stops(cv) \cup {n \in {m.note} : IsStop(m)}
          /\ cw.adapter = cv.adapter /\ cw.breakpoints = cv.breakpoints
          /\ cw.wire = cv.wire /\ cw.early = cv.early /\ cw.next = cv.next
          /\ \A i \in 1 .. Len(cw.incoming) :
               cw.incoming[i] = m \/ (i \in 1 .. Len(cv.incoming) /\ cw.incoming[i] = cv.incoming[i])
      BY <3>1, <2>1, <1>3, PostIsSound
    <3> HIDE DEF cw
    <3>4. Said(cw) \subseteq Said(cv) \cup {m}
      BY <3>3 DEF Said
    <3>5. \A seq \in Nat : Answerable(cv, seq) => Answerable(cw, seq)
      BY <3>3, <3>4, <1>3 DEF Answerable, Answers
    <3>6. QED
      BY <3>2, <3>3, <3>5, <1>3 DEF cv
  <2>3. CASE ~Told1(t)
    <3>1. conv'[t] = conv[t]
      BY <2>3, <1>1
    <3>2. QED
      BY <3>1, <2>1
  <2>4. QED
    BY <2>2, <2>3
<1>7. conv' \in [Attempts -> Conversation]
  BY <1>1, <1>6 DEF Sound
<1>8. \A t \in Attempts : conv[t].adapter = "alive" => t <= used.attempts /\ Current(t)
  BY <1>1 DEF Tidy, Current, Typed, CallIsInShape, Attempts, Attach
<1>9. Typed'
  BY <1>1, <1>2, <1>7 DEF Typed
<1>10. CallIsInShape'
  BY <1>1 DEF CallIsInShape
<1>11. Tidy'
  BY <1>1, <1>6 DEF Tidy
<1>12. Runs'
  <2>1. ASSUME NEW t \in Attempts
        PROVE  /\ Sound(conv'[t]) /\ \A s \in Stops(conv'[t]) : Ended(s)'
               /\ t > used.attempts => Stops(conv'[t]) = {}
    <3>1. \A s \in Stops(conv'[t]) : Ended(s)'
      BY <1>1, <1>4, <1>5, <1>6 DEF Runs
    <3>2. t > used.attempts => Stops(conv[t]) = {} /\ conv[t].adapter # "alive"
      BY <1>1, <1>8 DEF Runs, Attempts, Typed
    <3>3. QED
      BY <3>1, <3>2, <1>6
  <2>2. QED
    BY <2>1, <1>1 DEF Runs
<1>13. Told'
  BY <1>1, <1>4 DEF Told
<1>14. Ahead'
  <2>1. SUFFICES ASSUME NEW t \in Attempts, Current(t), NEW i \in 1 .. Len(reported),
                        NEW s \in Stops(conv'[t])
                 PROVE  reported[i] < s
    BY <1>1 DEF Ahead, Current
  <2>2. CASE s \in Stops(conv[t])
    BY <2>1, <2>2, <1>1 DEF Ahead
  <2>3. CASE s = target.run
    BY <2>3, <1>1, <1>4 DEF Told
  <2>4. QED
    BY <2>2, <2>3, <1>6
<1>15. Listed'
  BY <1>1, <1>6 DEF Listed, Placed, Typed, Sessions
<1>16. Asked'
  <2>1. SUFFICES ASSUME call.step = "after", call.seq # 0
                 PROVE  Answerable(conv'[call.t], call.seq)
    BY <1>1 DEF Asked
  <2>2. Answerable(conv[call.t], call.seq) /\ call.t \in Attempts /\ call.seq \in Nat
    BY <2>1, <1>1 DEF Asked, CallIsInShape, Typed, Calls, Attach
  <2>3. QED
    BY <2>2, <1>6
<1>17. QED
  BY <1>9, <1>10, <1>11, <1>12, <1>13, <1>14, <1>15, <1>16 DEF IInv

-----------------------------------------------------------------------------
(* The theorems. *)

LEMMA InitIInv == Init => IInv
<1> SUFFICES ASSUME Init PROVE IInv
  OBVIOUS
<1> DEFINE blank == [adapter |-> "none", next |-> 1, wire |-> <<>>, owed |-> 0,
                     incoming |-> <<>>, eof |-> FALSE, early |-> {}, events |-> <<>>,
                     closed |-> FALSE, breakpoints |-> <<>>]
<1>1. /\ session = [state |-> "Idle", transport |-> 0, qemu |-> 0, hardware |-> {}]
      /\ call = [op |-> "none", step |-> "none", t |-> 0, seq |-> 0, run |-> 0, known |-> 0]
      /\ conv = [t \in Attempts |-> blank]
      /\ machines = [alive |-> {}, port |-> 0]
      /\ target = [running |-> FALSE, run |-> 0]
      /\ reported = <<>> /\ mixed = FALSE /\ used = [calls |-> 0, attempts |-> 0]
  BY DEF Init
<1>2. blank \in Conversation /\ blank.adapter # "alive"
  <2>1. <<>> \in Seq(Message) /\ <<>> \in Seq(Wire) /\ <<>> \in Seq({"hw", "pending"})
    BY EmptySeq
  <2>2. QED
    BY <2>1 DEF Conversation
<1>3. /\ Len(blank.wire) = 0 /\ Len(blank.incoming) = 0 /\ Len(blank.events) = 0
      /\ blank.early = {} /\ blank.owed = 0 /\ blank.next = 1
  BY EmptySeq
<1> HIDE DEF blank
<1>4. Sound(blank) /\ Stops(blank) = {}
  BY <1>2, <1>3 DEF Sound, Orderly, Numbered, Stops
<1>5. conv \in [Attempts -> Conversation] /\ \A t \in Attempts : conv[t] = blank
  BY <1>1, <1>2
<1>6. Typed
  <2>1. session \in Sessions /\ call \in Calls
    BY <1>1 DEF Sessions, States, Calls, Ops, Steps
  <2>2. reported \in Seq(Nat)
    BY <1>1, EmptySeq
  <2>3. used \in [calls : Nat, attempts : 0 .. MaxAttach] /\ session.transport <= used.attempts
    BY <1>1, DebugAssumption
  <2>4. QED
    BY <2>1, <2>2, <2>3, <1>1, <1>5 DEF Typed
<1>7. CallIsInShape
  BY <1>1 DEF CallIsInShape
<1>8. Len(reported) = 0
  BY <1>1, EmptySeq
<1>9. Runs /\ Told /\ Ahead
  BY <1>4, <1>5, <1>8 DEF Runs, Told, Ahead
<1>10. Tidy /\ Listed /\ Asked
  BY <1>1, <1>2, <1>5 DEF Tidy, Listed, Asked
<1>11. QED
  BY <1>6, <1>7, <1>9, <1>10 DEF IInv

LEMMA EngineIInv ==
    ASSUME IInv, Engine
    PROVE  IInv'
<1>1. CASE BeginAttach \/ BeginResume \/ BeginStackTrace
  BY <1>1, BeginAttachIInv, BeginReadyIInv DEF BeginResume, BeginStackTrace
<1>2. CASE SetBreakpoints \/ ReadVariables \/ AccessMemory \/ Disassemble
  BY <1>2, BeginReadyIInv DEF SetBreakpoints, ReadVariables, AccessMemory, Disassemble
<1>3. CASE PrepareTarget \/ BeginHardware \/ BeginDetach
  BY <1>3, BeginOthersIInv
<1>4. CASE Launch \/ Ready \/ NotReady \/ StartupFailure
  BY <1>4, LaunchIInv, ReadyIInv, NotUpIInv
<1>5. CASE Spawn \/ Ask \/ Respond
  BY <1>5, SpawnIInv, AskIInv, RespondIInv
<1>6. CASE Keep \/ Entry \/ Stopped \/ Drop
  BY <1>6, KeepIInv, EntryIInv, StoppedIInv, DropIInv
<1>7. QED
  BY <1>1, <1>2, <1>3, <1>4, <1>5, <1>6 DEF Engine

LEMMA WorldStepIInv ==
    ASSUME IInv, World
    PROVE  IInv'
<1>1. ASSUME NEW t \in Attempts, Bind(t) \/ MachineDies(t) PROVE IInv'
  BY <1>1, MachineIInv
<1>2. ASSUME NEW t \in Attempts, Serve(t) PROVE IInv'
  BY <1>2, ServeIInv
<1>3. ASSUME NEW t \in Attempts, ServeAttach(t) PROVE IInv'
  BY <1>3, ServeAttachIInv
<1>4. ASSUME NEW t \in Attempts, AdapterDies(t) \/ ReaderEnds(t) PROVE IInv'
  BY <1>4, AdapterEndsIInv
<1>5. CASE TargetStops
  BY <1>5, TargetStopsIInv
<1>6. QED
  BY <1>1, <1>2, <1>3, <1>4, <1>5 DEF World

LEMMA StepIInv == IInv /\ [Next]_vars => IInv'
<1> SUFFICES ASSUME IInv, [Next]_vars PROVE IInv'
  OBVIOUS
<1>1. CASE Engine
  BY <1>1, EngineIInv
<1>2. CASE World
  BY <1>2, WorldStepIInv
<1>3. CASE UNCHANGED vars
  <2>1. /\ session' = session /\ call' = call /\ conv' = conv /\ machines' = machines
        /\ target' = target /\ reported' = reported /\ mixed' = mixed /\ used' = used
    BY <1>3 DEF vars
  <2>2. /\ Typed /\ CallIsInShape /\ Runs /\ Told /\ Ahead /\ Tidy /\ Listed /\ Asked
    BY DEF IInv
  <2>3. Typed'
    BY <2>1, <2>2 DEF Typed
  <2>4. CallIsInShape'
    BY <2>1, <2>2 DEF CallIsInShape
  <2>5. Runs' /\ Told'
    BY <2>1, <2>2 DEF Runs, Told, Ended
  <2>6. Ahead' /\ Tidy'
    BY <2>1, <2>2 DEF Ahead, Current, Tidy
  <2>7. Listed' /\ Asked'
    BY <2>1, <2>2 DEF Listed, Placed, Asked
  <2>8. QED
    BY <2>3, <2>4, <2>5, <2>6, <2>7 DEF IInv
<1>4. QED
  BY <1>1, <1>2, <1>3 DEF Next

\* Whatever the engine calls, the adapter answers and dies of, the parts above hold
\* together: the types, the shape of a call, the order of the stops, who is alive, and
\* what a listing in hand may say.
THEOREM InvariantHolds == Spec => []IInv
BY InitIInv, StepIInv, PTL DEF Spec

\* Nobody is handed the response to another request (wait_response looks for the
\* number it sent), and a stop is reported once, in the order of the runs, whatever
\* is kept, dropped or comes late (wait_response and wait_event).
THEOREM ReportsAlwaysMatch == Spec => []ReportsMatch
<1>1. IInv => ReportsMatch
  <2> SUFFICES ASSUME IInv PROVE ReportsMatch
    OBVIOUS
  <2>1. AnswersMatch
    BY DEF IInv, Typed, AnswersMatch
  <2>2. DOMAIN reported = 1 .. Len(reported)
    BY LenProperties DEF IInv, Typed
  <2>3. NoStopTwice
    BY <2>2 DEF IInv, Told, NoStopTwice
  <2>4. QED
    BY <2>1, <2>3 DEF ReportsMatch
<1>2. QED
  BY <1>1, InvariantHolds, PTL

\* Between calls no machine and no adapter is alive but those that the backend
\* holds: attach gives each to the backend or ends it, whichever step fails, and a
\* new one ends the one whose place it takes.
THEOREM NothingIsLeftBehind == Spec => []NothingLeftBehind
<1>1. IInv => NothingLeftBehind
  BY DEF IInv, Tidy, NothingLeftBehind
<1>2. QED
  BY <1>1, InvariantHolds, PTL

\* A hardware breakpoint that the backend lists is in gdb's table, and placed: the
\* second listing is the answer to its own request, and the table only grows.
THEOREM ListedIsAlwaysPlaced == Spec => []ListedIsPlaced
<1>1. IInv => ListedIsPlaced
  BY DEF IInv, Listed, Placed, ListedIsPlaced
<1>2. QED
  BY <1>1, InvariantHolds, PTL

=============================================================================
