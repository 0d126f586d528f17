-------------------------- MODULE LspBridgeProofs --------------------------
(***************************************************************************)
(* Proofs about the bridge to the language servers, for any set of bridges *)
(* that send any number of messages through pipes of any size: who holds   *)
(* the mutex, that no server outlives its bridge, that a stopped bridge is *)
(* deaf and that an open one hears all that its server says.               *)
(***************************************************************************)
EXTENDS LspBridge, SequenceTheorems, FiniteSetTheorems, TLAPS

-----------------------------------------------------------------------------
(* The inductive invariant. *)

BridgesAreTyped ==
    /\ bridge \in [Bridges -> BridgeStates]
    /\ server \in [Bridges -> {"none", "alive", "dead"}]
    /\ listening \subseteq Bridges
    /\ DOMAIN sends = Bridges
    /\ \A b \in Bridges : sends[b] \in [Numbers(b) -> SendStates]

\* A listener is installed exactly while its bridge is open.
ListensWhenOpen == \A b \in Bridges : b \in listening <=> bridge[b] = "open"

\* The entry of a server is made before the bridge is handed out, and taken by the
\* stop of its own bridge only; what is not in the registry has nothing to kill, or
\* somebody who will.
EntryOutlivesBridge ==
    \A b \in Bridges :
        /\ bridge[b] \in {"started", "open", "stopping"} => b \in registry
        /\ bridge[b] \in {"new", "starting", "failed"} => server[b] = "none"
        /\ bridge[b] \in {"killed", "closed"} => server[b] = "dead"

\* The mutex is with the call that believes to have it: the writes to a pipe and the
\* whole of a stop, its 200 ms and its kill included, run under it.
HolderIsSure ==
    /\ \A b \in Bridges : bridge[b] \in {"removed", "asked", "killed"} => lock = StopCall(b)
    /\ \A b \in Bridges, k \in Nat \ {0} :
         k \in Numbers(b) /\ sends[b][k] = "writing" => lock = SendCall(b, k)

IInv ==
    /\ BridgesAreTyped /\ ListensWhenOpen /\ EntryOutlivesBridge /\ HolderIsSure
    /\ registry \subseteq Bridges

LEMMA InitIInv == Init => IInv
<1> SUFFICES ASSUME Init PROVE IInv
  OBVIOUS
<1>1. BridgesAreTyped
  BY DEF Init, BridgesAreTyped, BridgeStates, SendStates
<1>2. ListensWhenOpen /\ EntryOutlivesBridge /\ registry \subseteq Bridges
  BY DEF Init, ListensWhenOpen, EntryOutlivesBridge
<1>3. HolderIsSure
  BY DEF Init, HolderIsSure
<1>4. QED
  BY <1>1, <1>2, <1>3 DEF IInv

-----------------------------------------------------------------------------
(* What each kind of step preserves. *)

\* The mutex is not free while somebody believes to have it.
LEMMA FreeMeansFree ==
    ASSUME IInv, lock = Free
    PROVE  /\ \A b \in Bridges : bridge[b] \notin {"removed", "asked", "killed"}
           /\ \A b \in Bridges, k \in Nat \ {0} : k \in Numbers(b) => sends[b][k] # "writing"
BY LspAssumption DEF IInv, HolderIsSure, Free, StopCall, SendCall

\* Only one call believes to have it.
LEMMA OneHolder ==
    ASSUME IInv, NEW b \in Bridges, bridge[b] \in {"removed", "asked", "killed"}
    PROVE  /\ lock = StopCall(b)
           /\ \A d \in Bridges : d # b => bridge[d] \notin {"removed", "asked", "killed"}
           /\ \A d \in Bridges, k \in Nat \ {0} : k \in Numbers(d) => sends[d][k] # "writing"
BY DEF IInv, HolderIsSure, StopCall, SendCall

\* Starting, up to the listener.
LEMMA StartIInv ==
    ASSUME IInv, NEW b \in Bridges, Start(b) \/ LspStart(b) \/ Insert(b) \/ Listen(b)
    PROVE  IInv'
<1> USE DEF Start, LspStart, Insert, Listen, Become, pipes
<1>1. BridgesAreTyped'
  BY DEF IInv, BridgesAreTyped, BridgeStates
<1>2. ListensWhenOpen'
  BY DEF IInv, BridgesAreTyped, ListensWhenOpen
<1>3. EntryOutlivesBridge'
  BY DEF IInv, BridgesAreTyped, EntryOutlivesBridge
<1>4. HolderIsSure'
  BY DEF IInv, BridgesAreTyped, HolderIsSure
<1>5. registry' \subseteq Bridges
  BY DEF IInv
<1>6. QED
  BY <1>1, <1>2, <1>3, <1>4, <1>5 DEF IInv

\* Sending: the calls wait, take the mutex, and let go of it.
LEMMA SendIInv ==
    ASSUME IInv, NEW b \in Bridges, NEW k \in Numbers(b),
           SendMessage(b, k) \/ LspSend(b, k) \/ SendWrites(b, k)
    PROVE  IInv'
<1> USE DEF Send, page, pipes
<1>1. PICK state \in SendStates : sends' = [sends EXCEPT ![b][k] = state]
  BY DEF SendMessage, LspSend, SendWrites, SendStates
<1>2. UNCHANGED <<bridge, listening, server, registry>>
  BY DEF SendMessage, LspSend, SendWrites
<1>3. k \in Nat \ {0}
  BY LspAssumption DEF Numbers
<1>4. /\ sends'[b][k] = state
      /\ \A d \in Bridges : \A n \in Numbers(d) : <<d, n>> # <<b, k>> => sends'[d][n] = sends[d][n]
      /\ DOMAIN sends' = Bridges
      /\ \A d \in Bridges : sends'[d] \in [Numbers(d) -> SendStates]
  BY <1>1 DEF IInv, BridgesAreTyped
<1>5. BridgesAreTyped' /\ ListensWhenOpen' /\ EntryOutlivesBridge'
  BY <1>2, <1>4 DEF IInv, BridgesAreTyped, ListensWhenOpen, EntryOutlivesBridge, Numbers
<1>6. HolderIsSure'
  <2>1. CASE SendMessage(b, k)
    <3>1. lock' = lock /\ sends'[b][k] = "waiting"
      BY <2>1 DEF SendMessage, IInv, BridgesAreTyped
    <3>2. QED
      BY <1>2, <1>4, <3>1 DEF IInv, HolderIsSure, Numbers
  <2>2. CASE LspSend(b, k)
    <3>1. lock = Free /\ (sends'[b][k] = "writing" => lock' = SendCall(b, k))
      BY <2>2 DEF LspSend, IInv, BridgesAreTyped
    <3>2. QED
      BY <1>2, <1>3, <1>4, <3>1, FreeMeansFree DEF HolderIsSure, Numbers
  <2>3. CASE SendWrites(b, k)
    <3>1. lock = SendCall(b, k) /\ sends'[b][k] # "writing"
      BY <2>3 DEF SendWrites, IInv, BridgesAreTyped
    <3>2. \A d \in Bridges : bridge[d] \notin {"removed", "asked", "killed"}
      BY <1>3, <3>1 DEF IInv, HolderIsSure, StopCall, SendCall
    <3>3. \A d \in Bridges, n \in Nat \ {0} :
            n \in Numbers(d) /\ sends[d][n] = "writing" => <<d, n>> = <<b, k>>
      BY <3>1 DEF IInv, HolderIsSure, SendCall
    <3>4. QED
      BY <1>2, <1>4, <3>1, <3>2, <3>3 DEF HolderIsSure, Numbers
  <2>4. QED
    BY <2>1, <2>2, <2>3
<1>7. QED
  BY <1>2, <1>5, <1>6 DEF IInv

\* The servers, the reader threads and the event loop of the page.
LEMMA ServerIInv ==
    ASSUME IInv,
           \/ \E b \in Bridges : ServerReplies(b) \/ ServerCrashes(b) \/ ReadLspStream(b)
           \/ Handle
    PROVE  IInv'
<1>1. /\ UNCHANGED <<bridge, listening, sends, lock, registry>>
      /\ server' \in [Bridges -> {"none", "alive", "dead"}]
      /\ \A b \in Bridges : server'[b] = server[b] \/ server[b] = "alive"
  BY DEF IInv, BridgesAreTyped, ServerReplies, ServerCrashes, ReadLspStream, Handle, page,
     pipes
<1>2. BridgesAreTyped' /\ ListensWhenOpen' /\ HolderIsSure'
  BY <1>1 DEF IInv, BridgesAreTyped, ListensWhenOpen, HolderIsSure, Numbers
<1>3. EntryOutlivesBridge'
  BY <1>1 DEF IInv, EntryOutlivesBridge
<1>4. QED
  BY <1>1, <1>2, <1>3 DEF IInv

\* stop() of the page, and the call that follows it up to the kill.
LEMMA StopIInv ==
    ASSUME IInv, NEW b \in Bridges,
           Stop(b) \/ LspStop(b) \/ AskShutdown(b) \/ KillServer(b) \/ Stopped(b)
    PROVE  IInv'
<1> USE DEF Stop, LspStop, AskShutdown, KillServer, Stopped, Become, pipes
<1>1. /\ sends' = sends /\ registry' \subseteq registry
      /\ \A d \in Bridges : d # b => (d \in registry' <=> d \in registry)
  BY DEF IInv
<1>2. BridgesAreTyped'
  BY <1>1 DEF IInv, BridgesAreTyped, BridgeStates, Killed, Unlisten, Numbers
<1>3. ListensWhenOpen'
  BY DEF IInv, BridgesAreTyped, ListensWhenOpen, Unlisten
<1>4. EntryOutlivesBridge'
  BY <1>1 DEF IInv, BridgesAreTyped, EntryOutlivesBridge, Killed
<1>5. HolderIsSure'
  <2>1. CASE Stop(b)
    BY <2>1 DEF IInv, BridgesAreTyped, HolderIsSure, Numbers
  <2>2. CASE LspStop(b)
    <3>1. /\ lock = Free /\ bridge'[b] = "removed" => lock' = StopCall(b)
          /\ \A d \in Bridges : d # b => bridge'[d] = bridge[d]
      BY <2>2 DEF IInv, BridgesAreTyped, EntryOutlivesBridge
    <3>2. bridge'[b] \in {"removed", "closed"}
      BY <2>2 DEF IInv, BridgesAreTyped
    <3>3. lock = Free
      BY <2>2
    <3>4. QED
      BY <1>1, <3>1, <3>2, <3>3, FreeMeansFree DEF HolderIsSure, Numbers
  <2>3. CASE AskShutdown(b) \/ KillServer(b)
    BY <2>3 DEF IInv, BridgesAreTyped, HolderIsSure, Numbers
  <2>4. CASE Stopped(b)
    <3>1. /\ bridge[b] = "killed" /\ bridge'[b] = "closed"
          /\ \A d \in Bridges : d # b => bridge'[d] = bridge[d]
      BY <2>4 DEF IInv, BridgesAreTyped
    <3>2. QED
      BY <1>1, <3>1, OneHolder DEF HolderIsSure, Numbers
  <2>5. QED
    BY <2>1, <2>2, <2>3, <2>4
<1>6. QED
  BY <1>1, <1>2, <1>3, <1>4, <1>5 DEF IInv

-----------------------------------------------------------------------------
(* The theorems. *)

LEMMA NextIInv == IInv /\ [Next]_vars => IInv'
<1> SUFFICES ASSUME IInv, [Next]_vars PROVE IInv'
  OBVIOUS
<1>1. ASSUME NEW b \in Bridges, Thread(b) PROVE IInv'
  BY <1>1, StartIInv, SendIInv, StopIInv DEF Thread
<1>2. ASSUME Next PROVE IInv'
  BY <1>1, <1>2, StartIInv, SendIInv, StopIInv, ServerIInv DEF Next
<1>3. ASSUME UNCHANGED vars PROVE IInv'
  BY <1>3 DEF vars, IInv, BridgesAreTyped, ListensWhenOpen, EntryOutlivesBridge,
     HolderIsSure, Numbers
<1>4. QED
  BY <1>2, <1>3

\* The registry, the listeners and the mutex agree with where each bridge is, in every
\* reachable state (lsp_handler.rs, lsp/client.ts).
THEOREM BridgeInvariant == Spec => []IInv
BY InitIInv, NextIInv, PTL DEF Spec

\* Whoever writes to a server or stops one holds the mutex, and no two do.
THEOREM MutexIsHeld == Spec => []HolderIsSure
<1>1. IInv => HolderIsSure
  BY DEF IInv
<1>2. QED
  BY <1>1, BridgeInvariant, PTL

\* A server that lives is in the registry or in the hands of the call that starts or
\* stops it.
THEOREM ServersAreInHand == Spec => []NoOrphans
<1>1. IInv => NoOrphans
  <2> SUFFICES ASSUME IInv, NEW b \in Bridges, server[b] = "alive"
               PROVE  b \in registry \/ bridge[b] \in {"spawned", "removed", "asked"}
    BY DEF NoOrphans
  <2>1. bridge[b] \in BridgeStates
    BY DEF IInv, BridgesAreTyped
  <2>2. QED
    BY <2>1 DEF IInv, EntryOutlivesBridge, BridgeStates
<1>2. QED
  BY <1>1, BridgeInvariant, PTL

\* The client hears nothing more from the moment stop() is called: the listener is gone
\* before the command is sent.
LEMMA DeafStep ==
    ASSUME IInv, [Next]_vars, NEW b \in Bridges,
           bridge[b] \in {"stopping", "removed", "asked", "killed", "closed"}
    PROVE  heard'[b] = heard[b]
<1>1. b \notin listening
  BY DEF IInv, ListensWhenOpen
<1>2. CASE Handle
  BY <1>1, <1>2 DEF Handle
<1>3. ASSUME NEW d \in Bridges, NEW k \in Numbers(d),
             SendMessage(d, k) \/ LspSend(d, k) \/ SendWrites(d, k)
      PROVE  heard' = heard
  BY <1>3 DEF SendMessage, LspSend, SendWrites, page
<1>4. ASSUME NEW d \in Bridges,
             \/ Start(d) \/ LspStart(d) \/ Insert(d) \/ Listen(d)
             \/ Stop(d) \/ LspStop(d) \/ AskShutdown(d) \/ KillServer(d) \/ Stopped(d)
             \/ ServerReplies(d) \/ ServerCrashes(d) \/ ReadLspStream(d)
      PROVE  heard' = heard
  BY <1>4 DEF Start, LspStart, Insert, Listen, Stop, LspStop, AskShutdown, KillServer,
     Stopped, ServerReplies, ServerCrashes, ReadLspStream, page
<1>5. CASE UNCHANGED vars
  BY <1>5 DEF vars
<1>6. QED
  BY <1>2, <1>3, <1>4, <1>5 DEF Next, Thread

\* The action property that the run checks.
THEOREM StoppedIsDeaf == Spec => DeafOnceStopped
<1>1. IInv /\ [Next]_vars =>
        [\A b \in Bridges :
           bridge[b] \in {"stopping", "removed", "asked", "killed", "closed"}
             => heard'[b] = heard[b]]_vars
  BY DeafStep
<1>2. QED
  BY <1>1, BridgeInvariant, PTL DEF Spec, DeafOnceStopped

-----------------------------------------------------------------------------
(* What an open bridge hears.  Sequences are taken apart by their elements. *)

LEMMA AppendedSeq ==
    ASSUME NEW S, NEW q \in Seq(S), NEW e \in S
    PROVE  /\ Append(q, e) \in Seq(S)
           /\ Len(q) \in Nat /\ Len(Append(q, e)) = Len(q) + 1
           /\ Append(q, e)[Len(q) + 1] = e
           /\ \A i \in 1 .. Len(q) : Append(q, e)[i] = q[i] /\ q[i] \in S
<1>1. /\ Append(q, e) \in Seq(S) /\ Len(Append(q, e)) = Len(q) + 1
      /\ Append(q, e)[Len(q) + 1] = e
      /\ \A i \in 1 .. Len(q) : Append(q, e)[i] = q[i]
  BY AppendProperties
<1>2. Len(q) \in Nat
  BY LenProperties
<1>3. \A i \in 1 .. Len(q) : q[i] \in S
  BY ElementOfSeq
<1>4. QED
  BY <1>1, <1>2, <1>3

LEMMA TailedSeq ==
    ASSUME NEW S, NEW q \in Seq(S), q # <<>>
    PROVE  /\ Tail(q) \in Seq(S) /\ Head(q) \in S /\ Head(q) = q[1] /\ 1 \in 1 .. Len(q)
           /\ Len(q) \in Nat /\ Len(Tail(q)) = Len(q) - 1
           /\ \A i \in 1 .. Len(Tail(q)) : i + 1 \in 1 .. Len(q) /\ Tail(q)[i] = q[i + 1]
<1>1. Len(q) \in Nat /\ Len(q) # 0 /\ Head(q) = q[1]
  BY EmptySeq
<1>2. Head(q) \in S /\ Tail(q) \in Seq(S) /\ Len(Tail(q)) = Len(q) - 1
  BY HeadTailProperties
<1>3. \A i \in 1 .. Len(Tail(q)) : Tail(q)[i] = q[i + 1]
  BY HeadTailProperties
<1>4. QED
  BY <1>1, <1>2, <1>3

\* The same as OnTheWay and HearsItsServer say, of any channel, pipe and histories.
Event == [kind : {"message", "stopped"}, from : Bridges, number : Nat]
Way(c, b, i) == {j \in 1 .. i : IsLspMessageEvent(b, c[j])}
Passed(c, b, i) == Cardinality(Way(c, b, i))
Whole(c, h, o, s, b) ==
    LET passed == Len(h) + Passed(c, b, Len(c))
    IN  /\ Len(s) = passed + Len(o)
        /\ \A n \in 1 .. Len(h) : s[n] = h[n]
        /\ \A i \in Way(c, b, Len(c)) : s[Len(h) + Passed(c, b, i)] = c[i].number
        /\ \A n \in 1 .. Len(o) : s[passed + n] = o[n]

LEMMA HearsIsWhole ==
    HearsItsServer <=>
        \A b \in Bridges : bridge[b] = "open" =>
            Whole(channel, heard[b], stdout[b], said[b], b)
BY DEF HearsItsServer, Whole, Passed, Way, Place, OnTheWay

\* How many messages there are up to an event, and that a message counts itself.
LEMMA PassedIsCounted ==
    ASSUME NEW c, NEW b, NEW n \in Nat
    PROVE  /\ IsFiniteSet(Way(c, b, n)) /\ Passed(c, b, n) \in Nat
           /\ Passed(c, b, 0) = 0
           /\ \A i \in Way(c, b, n) : Passed(c, b, i) \in 1 .. Passed(c, b, n)
<1>1. ASSUME NEW i \in Nat PROVE IsFiniteSet(Way(c, b, i)) /\ Passed(c, b, i) \in Nat
  <2>1. IsFiniteSet(1 .. i) /\ Way(c, b, i) \in SUBSET (1 .. i)
    BY <1>1, FS_Interval DEF Way
  <2>2. QED
    BY <2>1, FS_Subset, FS_CardinalityType DEF Passed
<1>2. Passed(c, b, 0) = 0
  <2>1. Way(c, b, 0) = {}
    BY DEF Way
  <2>2. QED
    BY <2>1, FS_EmptySet DEF Passed
<1>3. ASSUME NEW i \in Way(c, b, n) PROVE Passed(c, b, i) \in 1 .. Passed(c, b, n)
  <2>1. i \in Nat /\ i \in 1 .. n /\ Way(c, b, i) \in SUBSET Way(c, b, n) /\ i \in Way(c, b, i)
    BY <1>3 DEF Way
  <2>2. IsFiniteSet(Way(c, b, i)) /\ IsFiniteSet(Way(c, b, n))
    BY <1>1, <2>1
  <2>3. Passed(c, b, i) <= Passed(c, b, n)
    BY <2>1, <2>2, FS_Subset DEF Passed
  <2>4. Passed(c, b, i) # 0
    BY <2>1, <2>2, FS_EmptySet DEF Passed
  <2>5. Passed(c, b, i) \in Nat /\ Passed(c, b, n) \in Nat
    BY <1>1, <2>1
  <2>6. QED
    BY <2>3, <2>4, <2>5
<1>4. QED
  BY <1>1, <1>2, <1>3

\* A new event counts after those that are there.
LEMMA PassedOfAppend ==
    ASSUME NEW c \in Seq(Event), NEW b \in Bridges, NEW e \in Event
    PROVE  LET n == Len(c) IN
           /\ \A i \in 0 .. n : Way(Append(c, e), b, i) = Way(c, b, i)
           /\ IsLspMessageEvent(b, e) =>
                /\ Way(Append(c, e), b, n + 1) = Way(c, b, n) \cup {n + 1}
                /\ Passed(Append(c, e), b, n + 1) = Passed(c, b, n) + 1
           /\ ~IsLspMessageEvent(b, e) => Way(Append(c, e), b, n + 1) = Way(c, b, n)
<1> DEFINE n == Len(c)
           d == Append(c, e)
<1>1. n \in Nat /\ d[n + 1] = e /\ \A i \in 1 .. n : d[i] = c[i]
  BY AppendedSeq
<1> HIDE DEF n, d
<1>2. \A i \in 0 .. n : Way(d, b, i) = Way(c, b, i)
  BY <1>1 DEF Way
<1>3. IsLspMessageEvent(b, e) => Way(d, b, n + 1) = Way(c, b, n) \cup {n + 1}
  BY <1>1 DEF Way
<1>4. ~IsLspMessageEvent(b, e) => Way(d, b, n + 1) = Way(c, b, n)
  BY <1>1 DEF Way
<1>5. ASSUME IsLspMessageEvent(b, e) PROVE Passed(d, b, n + 1) = Passed(c, b, n) + 1
  <2>1. n + 1 \notin Way(c, b, n)
    BY <1>1 DEF Way
  <2>2. IsFiniteSet(Way(c, b, n))
    BY <1>1, PassedIsCounted
  <2>3. Cardinality(Way(c, b, n) \cup {n + 1}) = Cardinality(Way(c, b, n)) + 1
    BY <2>1, <2>2, FS_AddElement
  <2>4. QED
    BY <1>3, <1>5, <2>3 DEF Passed
<1>6. QED
  BY <1>2, <1>3, <1>4, <1>5 DEF n, d

\* Without its first event every other is one place nearer.
LEMMA PassedOfTail ==
    ASSUME NEW c \in Seq(Event), c # <<>>, NEW b \in Bridges, NEW i \in 0 .. (Len(c) - 1)
    PROVE  Passed(c, b, i + 1) =
             Passed(Tail(c), b, i) + (IF IsLspMessageEvent(b, c[1]) THEN 1 ELSE 0)
<1> DEFINE t == Tail(c)
           later == {j \in 2 .. (i + 1) : IsLspMessageEvent(b, c[j])}
           f == [j \in Way(t, b, i) |-> j + 1]
<1>1. /\ Len(c) \in Nat /\ Len(t) = Len(c) - 1 /\ i \in Nat
      /\ \A j \in 1 .. Len(t) : t[j] = c[j + 1]
  BY TailedSeq
<1> HIDE DEF t
<1>2. \A j \in 1 .. i : t[j] = c[j + 1]
  BY <1>1
<1>3. f \in Bijection(Way(t, b, i), later)
  <2>1. f \in [Way(t, b, i) -> later]
    BY <1>1, <1>2 DEF Way
  <2>2. \A j, k \in Way(t, b, i) : f[j] = f[k] => j = k
    BY <1>1 DEF Way
  <2>3. \A k \in later : k - 1 \in Way(t, b, i) /\ f[k - 1] = k
    BY <1>1, <1>2 DEF Way
  <2>4. QED
    BY <2>1, <2>2, <2>3 DEF Bijection, Injection, Surjection, IsInjective
<1>4. IsFiniteSet(later) /\ Cardinality(later) = Passed(t, b, i)
  <2>1. ExistsBijection(Way(t, b, i), later)
    BY <1>3 DEF ExistsBijection
  <2>2. IsFiniteSet(Way(t, b, i))
    BY <1>1, PassedIsCounted
  <2>3. QED
    BY <2>1, <2>2, FS_Bijection DEF Passed
<1>5. Passed(t, b, i) \in Nat
  BY <1>1, PassedIsCounted
<1>6. /\ IsLspMessageEvent(b, c[1]) => Way(c, b, i + 1) = later \cup {1}
      /\ ~IsLspMessageEvent(b, c[1]) => Way(c, b, i + 1) = later
  BY <1>1 DEF Way
<1>7. 1 \notin later
  OBVIOUS
<1> HIDE DEF later, f
<1>8. Cardinality(later \cup {1}) = Cardinality(later) + 1
  BY <1>4, <1>7, FS_AddElement
<1>9. CASE IsLspMessageEvent(b, c[1])
  BY <1>4, <1>5, <1>6, <1>8, <1>9 DEF Passed, t
<1>10. CASE ~IsLspMessageEvent(b, c[1])
  BY <1>4, <1>5, <1>6, <1>10 DEF Passed, t
<1>11. QED
  BY <1>9, <1>10

\* The server writes a message: it is the last of the pipe and of what was said.
LEMMA WholeReplies ==
    ASSUME NEW c \in Seq(Event), NEW h \in Seq(Nat), NEW o \in Seq(Nat), NEW s \in Seq(Nat),
           NEW b \in Bridges, Whole(c, h, o, s, b), NEW m \in Nat
    PROVE  Whole(c, h, Append(o, m), Append(s, m), b)
<1> DEFINE n == Len(c)
           p == Passed(c, b, n)
           o2 == Append(o, m)
           s2 == Append(s, m)
<1>1. n \in Nat /\ Len(h) \in Nat /\ Len(o) \in Nat /\ Len(s) \in Nat
  BY LenProperties
<1>2. /\ Len(o2) = Len(o) + 1 /\ o2[Len(o) + 1] = m /\ \A i \in 1 .. Len(o) : o2[i] = o[i]
      /\ Len(s2) = Len(s) + 1 /\ s2[Len(s) + 1] = m /\ \A i \in 1 .. Len(s) : s2[i] = s[i]
  BY AppendedSeq
<1>3. p \in Nat /\ \A i \in Way(c, b, n) : Passed(c, b, i) \in 1 .. p
  BY <1>1, PassedIsCounted
<1>4. /\ Len(s) = Len(h) + p + Len(o)
      /\ \A i \in 1 .. Len(h) : s[i] = h[i]
      /\ \A i \in Way(c, b, n) : s[Len(h) + Passed(c, b, i)] = c[i].number
      /\ \A i \in 1 .. Len(o) : s[Len(h) + p + i] = o[i]
  BY DEF Whole
<1> HIDE DEF n, p, o2, s2
<1>5. \A i \in 1 .. Len(h) : s2[i] = h[i]
  BY <1>1, <1>2, <1>3, <1>4
<1>6. ASSUME NEW i \in Way(c, b, n) PROVE s2[Len(h) + Passed(c, b, i)] = c[i].number
  <2>1. Passed(c, b, i) \in 1 .. p
    BY <1>3
  <2>2. Len(h) + Passed(c, b, i) \in 1 .. Len(s)
    BY <1>1, <1>3, <1>4, <2>1
  <2>3. QED
    BY <1>2, <1>4, <2>2
<1>7. ASSUME NEW i \in 1 .. Len(o2) PROVE s2[Len(h) + p + i] = o2[i]
  <2>1. CASE i \in 1 .. Len(o)
    <3>1. Len(h) + p + i \in 1 .. Len(s)
      BY <1>1, <1>3, <1>4, <2>1
    <3>2. QED
      BY <1>2, <1>4, <2>1, <3>1
  <2>2. CASE i = Len(o) + 1
    <3>1. Len(h) + p + i = Len(s) + 1
      BY <1>1, <1>3, <1>4, <2>2
    <3>2. QED
      BY <1>2, <2>2, <3>1
  <2>3. QED
    BY <1>1, <1>2, <2>1, <2>2
<1>8. Len(s2) = Len(h) + p + Len(o2)
  BY <1>1, <1>2, <1>3, <1>4
<1>9. QED
  BY <1>5, <1>6, <1>7, <1>8 DEF Whole, n, p, o2, s2

\* The reader thread takes the first of the pipe: it is the last of what is on its way.
LEMMA WholeReads ==
    ASSUME NEW c \in Seq(Event), NEW h \in Seq(Nat), NEW o \in Seq(Nat), NEW s \in Seq(Nat),
           NEW b \in Bridges, Whole(c, h, o, s, b), o # <<>>,
           NEW e \in Event, IsLspMessageEvent(b, e), e.number = Head(o)
    PROVE  Whole(Append(c, e), h, Tail(o), s, b)
<1> DEFINE n == Len(c)
           p == Passed(c, b, n)
           c2 == Append(c, e)
           o2 == Tail(o)
<1>1. n \in Nat /\ Len(h) \in Nat /\ Len(o) \in Nat /\ Len(s) \in Nat
  BY LenProperties
<1>2. /\ Len(o2) = Len(o) - 1 /\ 1 \in 1 .. Len(o) /\ Head(o) = o[1]
      /\ \A i \in 1 .. Len(o2) : i + 1 \in 1 .. Len(o) /\ o2[i] = o[i + 1]
  BY TailedSeq
<1>3. p \in Nat
  BY <1>1, PassedIsCounted
<1>4. /\ Len(s) = Len(h) + p + Len(o)
      /\ \A i \in 1 .. Len(h) : s[i] = h[i]
      /\ \A i \in Way(c, b, n) : s[Len(h) + Passed(c, b, i)] = c[i].number
      /\ \A i \in 1 .. Len(o) : s[Len(h) + p + i] = o[i]
  BY DEF Whole
<1>5. /\ Len(c2) = n + 1 /\ c2[n + 1] = e /\ \A i \in 1 .. n : c2[i] = c[i]
  BY AppendedSeq
<1>6. /\ \A i \in 0 .. n : Way(c2, b, i) = Way(c, b, i)
      /\ Way(c2, b, n + 1) = Way(c, b, n) \cup {n + 1}
      /\ Passed(c2, b, n + 1) = p + 1
  BY PassedOfAppend
<1> HIDE DEF n, p, c2, o2
<1>7. ASSUME NEW i \in Way(c2, b, n + 1) PROVE s[Len(h) + Passed(c2, b, i)] = c2[i].number
  <2>1. CASE i \in Way(c, b, n)
    <3>1. i \in 1 .. n
      BY <2>1 DEF Way
    <3>2. i \in 0 .. n
      BY <1>1, <3>1
    <3>3. Passed(c2, b, i) = Passed(c, b, i)
      BY <1>6, <3>2 DEF Passed
    <3>4. QED
      BY <1>4, <1>5, <2>1, <3>1, <3>3
  <2>2. CASE i = n + 1
    <3>1. s[Len(h) + p + 1] = o[1]
      BY <1>2, <1>4
    <3>2. Len(h) + Passed(c2, b, i) = Len(h) + p + 1
      BY <1>1, <1>3, <1>6, <2>2
    <3>3. QED
      BY <1>2, <1>5, <2>2, <3>1, <3>2
  <2>3. QED
    BY <1>6, <2>1, <2>2
<1>8. ASSUME NEW i \in 1 .. Len(o2) PROVE s[Len(h) + (p + 1) + i] = o2[i]
  <2>1. s[Len(h) + p + (i + 1)] = o[i + 1]
    BY <1>2, <1>4
  <2>2. Len(h) + (p + 1) + i = Len(h) + p + (i + 1)
    BY <1>1, <1>3
  <2>3. QED
    BY <1>2, <2>1, <2>2
<1>9. Len(s) = Len(h) + (p + 1) + Len(o2)
  BY <1>1, <1>2, <1>3, <1>4
<1>10. QED
  BY <1>4, <1>5, <1>6, <1>7, <1>8, <1>9 DEF Whole, n, p, c2, o2

\* An event that is not for the bridge changes nothing for it.
LEMMA WholeOther ==
    ASSUME NEW c \in Seq(Event), NEW h \in Seq(Nat), NEW o \in Seq(Nat), NEW s \in Seq(Nat),
           NEW b \in Bridges, Whole(c, h, o, s, b),
           NEW e \in Event, ~IsLspMessageEvent(b, e)
    PROVE  Whole(Append(c, e), h, o, s, b)
<1> DEFINE n == Len(c)
           c2 == Append(c, e)
<1>1. n \in Nat /\ Len(c2) = n + 1 /\ \A i \in 1 .. n : c2[i] = c[i]
  BY AppendedSeq
<1>2. /\ \A i \in 0 .. n : Way(c2, b, i) = Way(c, b, i)
      /\ Way(c2, b, n + 1) = Way(c, b, n)
  BY PassedOfAppend
<1>3. \A i \in Way(c, b, n) : i \in 0 .. n /\ i \in 1 .. n
  BY <1>1 DEF Way
<1> HIDE DEF n, c2
<1>4. Passed(c2, b, n + 1) = Passed(c, b, n) /\ \A i \in 0 .. n : Passed(c2, b, i) = Passed(c, b, i)
  BY <1>2 DEF Passed
<1>5. /\ Len(s) = Len(h) + Passed(c, b, n) + Len(o)
      /\ \A i \in 1 .. Len(h) : s[i] = h[i]
      /\ \A i \in Way(c, b, n) : s[Len(h) + Passed(c, b, i)] = c[i].number
      /\ \A i \in 1 .. Len(o) : s[Len(h) + Passed(c, b, n) + i] = o[i]
  BY DEF Whole, n
<1>6. \A i \in Way(c2, b, n + 1) : s[Len(h) + Passed(c2, b, i)] = c2[i].number
  BY <1>1, <1>2, <1>3, <1>4, <1>5
<1>7. QED
  BY <1>1, <1>4, <1>5, <1>6 DEF Whole, n, c2

\* The page takes the first event: if it is for the bridge, it is the last it has heard.
LEMMA WholeHandles ==
    ASSUME NEW c \in Seq(Event), NEW h \in Seq(Nat), NEW o \in Seq(Nat), NEW s \in Seq(Nat),
           NEW b \in Bridges, Whole(c, h, o, s, b), c # <<>>
    PROVE  Whole(Tail(c), IF IsLspMessageEvent(b, Head(c)) THEN Append(h, Head(c).number) ELSE h,
                 o, s, b)
<1> DEFINE n == Len(c)
           t == Tail(c)
           one == IF IsLspMessageEvent(b, c[1]) THEN 1 ELSE 0
           h2 == IF IsLspMessageEvent(b, Head(c)) THEN Append(h, Head(c).number) ELSE h
<1>1. /\ t \in Seq(Event) /\ Head(c) \in Event /\ Head(c) = c[1] /\ 1 \in 1 .. n
      /\ n \in Nat /\ Len(t) = n - 1
      /\ \A i \in 1 .. Len(t) : i + 1 \in 1 .. n /\ t[i] = c[i + 1]
  BY TailedSeq
<1>2. Head(c).number \in Nat
  BY <1>1 DEF Event
<1>3. /\ Len(h) \in Nat /\ Len(Append(h, Head(c).number)) = Len(h) + 1
      /\ Append(h, Head(c).number)[Len(h) + 1] = Head(c).number
      /\ \A i \in 1 .. Len(h) : Append(h, Head(c).number)[i] = h[i]
  BY <1>2, AppendedSeq
<1>4. /\ Len(s) = Len(h) + Passed(c, b, n) + Len(o)
      /\ \A i \in 1 .. Len(h) : s[i] = h[i]
      /\ \A i \in Way(c, b, n) : s[Len(h) + Passed(c, b, i)] = c[i].number
      /\ \A i \in 1 .. Len(o) : s[Len(h) + Passed(c, b, n) + i] = o[i]
  BY DEF Whole
<1>5. /\ one \in 0 .. 1 /\ Len(h2) = Len(h) + one /\ Len(h2) \in Nat
      /\ \A i \in 1 .. Len(h) : h2[i] = h[i]
      /\ one = 1 => IsLspMessageEvent(b, c[1]) /\ h2[Len(h) + 1] = c[1].number
  BY <1>1, <1>3
<1>6. \A i \in 0 .. (n - 1) : Passed(c, b, i + 1) = Passed(t, b, i) + one
  BY PassedOfTail
<1>7. \A i \in 0 .. (n - 1) : Passed(t, b, i) \in Nat
  BY PassedIsCounted
<1> HIDE DEF t, h2, one
<1>8. \A i \in 0 .. (n - 1) : Len(h) + Passed(c, b, i + 1) = Len(h2) + Passed(t, b, i)
  BY <1>3, <1>5, <1>6, <1>7
<1>9. Len(h) + Passed(c, b, n) = Len(h2) + Passed(t, b, Len(t))
  <2>1. n - 1 \in 0 .. (n - 1) /\ (n - 1) + 1 = n
    BY <1>1
  <2>2. QED
    BY <1>1, <1>8, <2>1
<1>10. ASSUME one = 1 PROVE s[Len(h) + 1] = c[1].number
  <2>1. 1 \in Way(c, b, n)
    BY <1>1, <1>5, <1>10 DEF Way
  <2>2. Passed(c, b, 1) = 1
    <3>1. 0 \in 0 .. (n - 1) /\ 0 + 1 = 1
      BY <1>1
    <3>2. Passed(t, b, 0) = 0
      BY PassedIsCounted
    <3>3. QED
      BY <1>6, <1>10, <3>1, <3>2
  <2>3. QED
    BY <1>4, <2>1, <2>2
<1>11. ASSUME NEW i \in 1 .. Len(h2) PROVE s[i] = h2[i]
  BY <1>3, <1>4, <1>5, <1>10
<1>12. ASSUME NEW i \in Way(t, b, Len(t)) PROVE s[Len(h2) + Passed(t, b, i)] = t[i].number
  <2>1. i \in 1 .. Len(t) /\ i \in 0 .. (n - 1)
    BY <1>1, <1>12 DEF Way
  <2>2. i + 1 \in Way(c, b, n) /\ t[i] = c[i + 1]
    BY <1>1, <1>12, <2>1 DEF Way
  <2>3. s[Len(h) + Passed(c, b, i + 1)] = c[i + 1].number
    BY <1>4, <2>2
  <2>4. QED
    BY <1>8, <2>1, <2>2, <2>3
<1>13. QED
  BY <1>4, <1>9, <1>11, <1>12 DEF Whole, t, h2

\* A bridge that has just opened has missed nothing: there was nothing.
LEMMA WholeStart ==
    ASSUME NEW c \in Seq(Event), NEW b \in Bridges,
           \A i \in 1 .. Len(c) : ~IsLspMessageEvent(b, c[i])
    PROVE  Whole(c, <<>>, <<>>, <<>>, b)
<1>1. Way(c, b, Len(c)) = {}
  BY DEF Way
<1>2. Passed(c, b, Len(c)) = 0
  BY <1>1, FS_EmptySet DEF Passed
<1>3. Len(<<>>) = 0
  OBVIOUS
<1>4. QED
  BY <1>1, <1>2, <1>3 DEF Whole

-----------------------------------------------------------------------------
(* The invariant behind HearsItsServer. *)

PipesAreTyped ==
    /\ stdin \in [Bridges -> Seq(Nat)] /\ stdout \in [Bridges -> Seq(Nat)]
    /\ said \in [Bridges -> Seq(Nat)] /\ heard \in [Bridges -> Seq(Nat)]
    /\ channel \in Seq(Event)

\* Whoever has the mutex to write is writing.
HolderWrites ==
    \A b \in Bridges : \A k \in Numbers(b) :
        lock = SendCall(b, k) => sends[b][k] = "writing"

\* Nobody has said anything to a server before its bridge is open, so it has not answered.
BeforeOpen == {"new", "starting", "spawned", "started", "failed"}
QuietAt(b) ==
    /\ stdin[b] = <<>> /\ stdout[b] = <<>> /\ said[b] = <<>> /\ heard[b] = <<>>
    /\ \A k \in Numbers(b) : sends[b][k] = "unsent"
    /\ \A i \in 1 .. Len(channel) : ~IsLspMessageEvent(b, channel[i])
QuietBeforeOpen == \A b \in Bridges : bridge[b] \in BeforeOpen => QuietAt(b)

WholeAt(b) == Whole(channel, heard[b], stdout[b], said[b], b)
WholeWhenOpen == \A b \in Bridges : bridge[b] = "open" => WholeAt(b)

HearInv == IInv /\ PipesAreTyped /\ HolderWrites /\ QuietBeforeOpen /\ WholeWhenOpen

LEMMA InitHearInv == Init => HearInv
<1> SUFFICES ASSUME Init PROVE HearInv
  OBVIOUS
<1>1. PipesAreTyped
  BY DEF Init, PipesAreTyped
<1>2. HolderWrites
  BY LspAssumption DEF Init, HolderWrites, Free, SendCall
<1>3. QuietBeforeOpen
  BY DEF Init, QuietBeforeOpen, QuietAt
<1>4. WholeWhenOpen
  BY DEF Init, WholeWhenOpen
<1>5. QED
  BY <1>1, <1>2, <1>3, <1>4, InitIInv DEF HearInv

\* Bridges move towards open, or are stopped: what has been said stays as it is.
LEMMA BridgeHearInv ==
    ASSUME HearInv, NEW b \in Bridges,
           \/ Start(b) \/ LspStart(b) \/ Insert(b) \/ Listen(b)
           \/ Stop(b) \/ LspStop(b)
    PROVE  HearInv'
<1> USE DEF Start, LspStart, Insert, Listen, Stop, LspStop, Become, pipes
<1>1. IInv'
  BY StartIInv, StopIInv DEF HearInv
<1>2. UNCHANGED <<sends, stdin, stdout, said, channel, heard>>
  OBVIOUS
<1>3. PipesAreTyped'
  BY <1>2 DEF HearInv, PipesAreTyped
<1>4. /\ lock' = lock \/ lock' = StopCall(b)
      /\ \A d \in Bridges : d # b => bridge'[d] = bridge[d]
      /\ bridge'[b] \in BeforeOpen => bridge[b] \in BeforeOpen
      /\ bridge'[b] = "open" => bridge[b] \in BeforeOpen
  BY DEF HearInv, IInv, BridgesAreTyped, BeforeOpen
<1>5. HolderWrites'
  BY <1>2, <1>4, LspAssumption DEF HearInv, HolderWrites, StopCall, SendCall, Numbers
<1>6. \A d \in Bridges : QuietAt(d) <=> QuietAt(d)'
  BY <1>2 DEF QuietAt, Numbers
<1>7. QuietBeforeOpen'
  BY <1>4, <1>6 DEF HearInv, QuietBeforeOpen
<1>8. ASSUME NEW d \in Bridges, bridge'[d] = "open" PROVE WholeAt(d)'
  <2>1. CASE bridge[d] = "open"
    BY <1>2, <2>1 DEF HearInv, WholeWhenOpen, WholeAt
  <2>2. CASE bridge[d] # "open"
    <3>1. QuietAt(d)
      BY <1>4, <1>8, <2>2 DEF HearInv, QuietBeforeOpen
    <3>2. Whole(channel, <<>>, <<>>, <<>>, d)
      <4>1. channel \in Seq(Event)
        BY DEF HearInv, PipesAreTyped
      <4>2. QED
        BY <3>1, <4>1, WholeStart DEF QuietAt
    <3>3. QED
      BY <1>2, <3>1, <3>2 DEF QuietAt, WholeAt
  <2>3. QED
    BY <2>1, <2>2
<1>9. WholeWhenOpen'
  BY <1>8 DEF WholeWhenOpen
<1>10. QED
  BY <1>1, <1>3, <1>5, <1>7, <1>9 DEF HearInv

\* The calls of a bridge that is open, or has been.
LEMMA SendHearInv ==
    ASSUME HearInv, NEW b \in Bridges, NEW k \in Numbers(b),
           SendMessage(b, k) \/ LspSend(b, k) \/ SendWrites(b, k)
    PROVE  HearInv'
<1> USE DEF Send, page, pipes
<1>1. IInv'
  BY SendIInv DEF HearInv
<1>2. UNCHANGED <<bridge, channel, heard, stdout, said>>
  BY DEF SendMessage, LspSend, SendWrites
<1>3. bridge[b] \notin BeforeOpen
  <2>1. bridge[b] = "open" \/ sends[b][k] # "unsent"
    BY DEF SendMessage, LspSend, SendWrites, HearInv, HolderWrites
  <2>2. QED
    BY <2>1 DEF HearInv, QuietBeforeOpen, QuietAt, BeforeOpen
<1>4. /\ k \in Nat
      /\ stdin' = stdin \/ stdin' = [stdin EXCEPT ![b] = Append(@, k)]
  BY LspAssumption DEF SendMessage, LspSend, SendWrites, Written, Numbers
<1>5. stdin' \in [Bridges -> Seq(Nat)] /\ \A d \in Bridges : d # b => stdin'[d] = stdin[d]
  <2>1. stdin \in [Bridges -> Seq(Nat)]
    BY DEF HearInv, PipesAreTyped
  <2>2. Append(stdin[b], k) \in Seq(Nat)
    BY <1>4, <2>1, AppendedSeq
  <2>3. QED
    BY <1>4, <2>1, <2>2
<1>6. PipesAreTyped'
  BY <1>2, <1>5 DEF HearInv, PipesAreTyped
<1>7. /\ \A d \in Bridges : d # b => sends'[d] = sends[d]
      /\ \A n \in Numbers(b) : n # k => sends'[b][n] = sends[b][n]
  BY DEF SendMessage, LspSend, SendWrites, HearInv, IInv, BridgesAreTyped
<1>8. HolderWrites'
  <2>1. CASE SendMessage(b, k)
    <3>1. lock' = lock /\ sends[b][k] = "unsent"
      BY <2>1 DEF SendMessage
    <3>2. lock # SendCall(b, k)
      BY <3>1 DEF HearInv, HolderWrites
    <3>3. QED
      BY <1>7, <3>1, <3>2 DEF HearInv, HolderWrites, SendCall, Numbers
  <2>2. CASE LspSend(b, k)
    <3>1. /\ lock = Free
          /\ \/ lock' = SendCall(b, k) /\ sends'[b][k] = "writing"
             \/ lock' = Free
      BY <2>2 DEF LspSend, HearInv, IInv, BridgesAreTyped
    <3>2. QED
      BY <1>7, <3>1, LspAssumption DEF HolderWrites, Free, SendCall, Numbers
  <2>3. CASE SendWrites(b, k)
    BY <2>3, LspAssumption DEF SendWrites, HolderWrites, Free, SendCall, Numbers
  <2>4. QED
    BY <2>1, <2>2, <2>3
<1>9. \A d \in Bridges : d # b => (QuietAt(d) => QuietAt(d)')
  BY <1>2, <1>5, <1>7 DEF QuietAt, Numbers
<1>10. QuietBeforeOpen'
  BY <1>2, <1>3, <1>9 DEF HearInv, QuietBeforeOpen
<1>11. WholeWhenOpen'
  BY <1>2 DEF HearInv, WholeWhenOpen, WholeAt
<1>12. QED
  BY <1>1, <1>6, <1>8, <1>10, <1>11 DEF HearInv

\* The server takes a message and answers, or crashes, or is asked to stop and killed.
LEMMA ServerHearInv ==
    ASSUME HearInv, NEW b \in Bridges,
           \/ ServerReplies(b) \/ ServerCrashes(b)
           \/ AskShutdown(b) \/ KillServer(b)
    PROVE  HearInv'
<1> USE DEF page, Become
<1>1. IInv'
  BY ServerIInv, StopIInv DEF HearInv
<1>2. /\ UNCHANGED <<sends, lock, channel, heard>>
      /\ \A d \in Bridges : d # b => bridge'[d] = bridge[d]
      /\ bridge'[b] = bridge[b] \/ bridge'[b] \notin BeforeOpen \cup {"open"}
  BY DEF ServerReplies, ServerCrashes, AskShutdown, KillServer, HearInv, IInv,
     BridgesAreTyped, BeforeOpen
<1>3. HolderWrites'
  BY <1>2 DEF HearInv, HolderWrites, Numbers
<1>4. CASE ServerReplies(b)
  <2> DEFINE m == Head(stdin[b])
  <2>1. /\ stdin[b] # <<>> /\ stdin' = [stdin EXCEPT ![b] = Tail(@)]
        /\ stdout' = [stdout EXCEPT ![b] = Append(@, m)]
        /\ said' = [said EXCEPT ![b] = Append(@, m)] /\ bridge' = bridge
    BY <1>4 DEF ServerReplies
  <2>2. /\ stdin[b] \in Seq(Nat) /\ stdout[b] \in Seq(Nat)
        /\ said[b] \in Seq(Nat) /\ heard[b] \in Seq(Nat) /\ channel \in Seq(Event)
    BY DEF HearInv, PipesAreTyped
  <2>3. m \in Nat /\ Tail(stdin[b]) \in Seq(Nat)
    BY <2>1, <2>2, TailedSeq
  <2> HIDE DEF m
  <2>4. Append(stdout[b], m) \in Seq(Nat) /\ Append(said[b], m) \in Seq(Nat)
    BY <2>2, <2>3, AppendedSeq
  <2>5. PipesAreTyped'
    BY <1>2, <2>1, <2>3, <2>4 DEF HearInv, PipesAreTyped
  <2>6. /\ \A d \in Bridges : d # b => /\ stdin'[d] = stdin[d]
                                      /\ stdout'[d] = stdout[d] /\ said'[d] = said[d]
        /\ stdout'[b] = Append(stdout[b], m) /\ said'[b] = Append(said[b], m)
    BY <2>1 DEF HearInv, PipesAreTyped
  <2>7. bridge[b] \notin BeforeOpen
    BY <2>1 DEF HearInv, QuietBeforeOpen, QuietAt
  <2>8. \A d \in Bridges : d # b => (QuietAt(d) => QuietAt(d)')
    BY <1>2, <2>6 DEF QuietAt, Numbers
  <2>9. QuietBeforeOpen'
    BY <2>1, <2>7, <2>8 DEF HearInv, QuietBeforeOpen
  <2>10. WholeAt(b) => WholeAt(b)'
    BY <1>2, <2>2, <2>3, <2>6, WholeReplies DEF WholeAt
  <2>11. \A d \in Bridges : d # b => (WholeAt(d) => WholeAt(d)')
    BY <1>2, <2>6 DEF WholeAt
  <2>12. WholeWhenOpen'
    BY <2>1, <2>10, <2>11 DEF HearInv, WholeWhenOpen
  <2>13. QED
    BY <1>1, <1>3, <2>5, <2>9, <2>12 DEF HearInv
<1>5. CASE ServerCrashes(b) \/ AskShutdown(b) \/ KillServer(b)
  <2>1. /\ UNCHANGED <<stdout, said>>
        /\ \/ stdin' = stdin
           \/ stdin' = [stdin EXCEPT ![b] = <<>>]
           \/ stdin' = [stdin EXCEPT ![b] = Append(@, 0)]
    BY <1>5 DEF ServerCrashes, AskShutdown, KillServer, Written
  <2>2. <<>> \in Seq(Nat) /\ Append(stdin[b], 0) \in Seq(Nat)
    BY AppendedSeq DEF HearInv, PipesAreTyped
  <2>3. /\ stdin' \in [Bridges -> Seq(Nat)]
        /\ \A d \in Bridges : d # b => stdin'[d] = stdin[d]
    BY <2>1, <2>2 DEF HearInv, PipesAreTyped
  <2>4. PipesAreTyped'
    BY <1>2, <2>1, <2>3 DEF HearInv, PipesAreTyped
  <2>5. bridge[b] \in BeforeOpen => stdin'[b] = <<>> /\ bridge[b] = bridge'[b]
    <3>1. CASE ServerCrashes(b)
      BY <3>1 DEF ServerCrashes, HearInv, PipesAreTyped
    <3>2. CASE AskShutdown(b) \/ KillServer(b)
      BY <3>2 DEF AskShutdown, KillServer, BeforeOpen
    <3>3. QED
      BY <1>5, <3>1, <3>2
  <2>6. \A d \in Bridges : QuietAt(d) /\ stdin'[d] = <<>> => QuietAt(d)'
    BY <1>2, <2>1 DEF QuietAt, Numbers
  <2>7. ASSUME NEW d \in Bridges, bridge'[d] \in BeforeOpen PROVE QuietAt(d)'
    <3>1. bridge[d] \in BeforeOpen
      BY <1>2, <2>7
    <3>2. QuietAt(d)
      BY <3>1 DEF HearInv, QuietBeforeOpen
    <3>3. stdin'[d] = <<>>
      BY <2>3, <2>5, <3>1, <3>2 DEF QuietAt
    <3>4. QED
      BY <2>6, <3>2, <3>3
  <2>8. QuietBeforeOpen'
    BY <2>7 DEF QuietBeforeOpen
  <2>9. WholeWhenOpen'
    BY <1>2, <2>1 DEF HearInv, WholeWhenOpen, WholeAt
  <2>10. QED
    BY <1>1, <1>3, <2>4, <2>8, <2>9 DEF HearInv
<1>6. QED
  BY <1>4, <1>5

\* The channel: the reader thread publishes, a stop says that it is done.
LEMMA EmitHearInv ==
    ASSUME HearInv, NEW b \in Bridges, ReadLspStream(b) \/ Stopped(b)
    PROVE  HearInv'
<1> USE DEF pipes
<1>1. IInv'
  BY ServerIInv, StopIInv DEF HearInv
<1>2. PICK e \in Event :
        /\ channel' = Append(channel, e) /\ e.from = b
        /\ \/ ReadLspStream(b) /\ e.kind = "message" /\ e.number = Head(stdout[b])
           \/ Stopped(b) /\ e.kind = "stopped"
  <2>1. CASE ReadLspStream(b)
    <3>1. stdout[b] \in Seq(Nat) /\ stdout[b] # <<>>
      BY <2>1 DEF ReadLspStream, HearInv, PipesAreTyped
    <3>2. Head(stdout[b]) \in Nat
      BY <3>1, TailedSeq
    <3>3. [kind |-> "message", from |-> b, number |-> Head(stdout[b])] \in Event
      BY <3>2 DEF Event
    <3>4. QED
      BY <2>1, <3>3 DEF ReadLspStream, Emit
  <2>2. CASE Stopped(b)
    <3>1. [kind |-> "stopped", from |-> b, number |-> 0] \in Event
      BY DEF Event
    <3>2. QED
      BY <2>2, <3>1 DEF Stopped, Emit
  <2>3. QED
    BY <2>1, <2>2
<1>3. /\ UNCHANGED <<sends, heard, said, stdin>>
      /\ bridge[b] \notin BeforeOpen
      /\ lock' = lock \/ lock' = Free
      /\ \A d \in Bridges : bridge'[d] = bridge[d] \/ bridge'[d] = "closed"
      /\ \A d \in Bridges : d # b => stdout'[d] = stdout[d]
  <2>1. CASE ReadLspStream(b)
    BY <2>1 DEF ReadLspStream, HearInv, QuietBeforeOpen, QuietAt, PipesAreTyped
  <2>2. CASE Stopped(b)
    BY <2>2 DEF Stopped, Become, BeforeOpen, HearInv, IInv, BridgesAreTyped
  <2>3. QED
    BY <2>1, <2>2
<1>4. /\ channel \in Seq(Event) /\ channel' \in Seq(Event)
      /\ Len(channel) \in Nat /\ Len(channel') = Len(channel) + 1
      /\ channel'[Len(channel) + 1] = e
      /\ \A i \in 1 .. Len(channel) : channel'[i] = channel[i]
  BY <1>2, AppendedSeq DEF HearInv, PipesAreTyped
<1>5. stdout' \in [Bridges -> Seq(Nat)]
  <2>1. CASE ReadLspStream(b)
    <3>1. Tail(stdout[b]) \in Seq(Nat)
      BY <2>1, TailedSeq DEF ReadLspStream, HearInv, PipesAreTyped
    <3>2. QED
      BY <2>1, <3>1 DEF ReadLspStream, HearInv, PipesAreTyped
  <2>2. CASE Stopped(b)
    BY <2>2 DEF Stopped, HearInv, PipesAreTyped
  <2>3. QED
    BY <2>1, <2>2
<1>6. PipesAreTyped'
  BY <1>3, <1>4, <1>5 DEF HearInv, PipesAreTyped
<1>7. HolderWrites'
  BY <1>3, LspAssumption DEF HearInv, HolderWrites, Free, SendCall, Numbers
<1>8. ASSUME NEW d \in Bridges, bridge'[d] \in BeforeOpen PROVE QuietAt(d)'
  <2>1. bridge[d] \in BeforeOpen /\ d # b
    BY <1>3, <1>8 DEF BeforeOpen
  <2>2. QuietAt(d)
    BY <2>1 DEF HearInv, QuietBeforeOpen
  <2>3. ~IsLspMessageEvent(d, e)
    BY <1>2, <2>1 DEF IsLspMessageEvent
  <2>4. ASSUME NEW i \in 1 .. Len(channel') PROVE ~IsLspMessageEvent(d, channel'[i])
    <3>1. i \in 1 .. Len(channel) \/ i = Len(channel) + 1
      BY <1>4, <2>4
    <3>2. QED
      BY <1>4, <2>2, <2>3, <3>1 DEF QuietAt
  <2>5. QED
    BY <1>3, <2>1, <2>2, <2>4 DEF QuietAt, IsLspMessageEvent, Numbers
<1>9. QuietBeforeOpen'
  BY <1>8 DEF QuietBeforeOpen
<1>10. ASSUME NEW d \in Bridges, bridge'[d] = "open" PROVE WholeAt(d)'
  <2>1. bridge[d] = "open" /\ WholeAt(d)
    BY <1>3, <1>10 DEF HearInv, WholeWhenOpen
  <2>2. /\ heard[d] \in Seq(Nat) /\ stdout[d] \in Seq(Nat) /\ said[d] \in Seq(Nat)
    BY DEF HearInv, PipesAreTyped
  <2>3. CASE IsLspMessageEvent(d, e)
    <3>1. /\ d = b /\ ReadLspStream(b) /\ e.number = Head(stdout[d])
      BY <1>2, <2>3 DEF IsLspMessageEvent
    <3>2. stdout[d] # <<>> /\ stdout'[d] = Tail(stdout[d])
      BY <3>1 DEF ReadLspStream, HearInv, PipesAreTyped
    <3>3. Whole(Append(channel, e), heard[d], Tail(stdout[d]), said[d], d)
      BY <1>4, <2>1, <2>2, <2>3, <3>1, <3>2, WholeReads DEF WholeAt
    <3>4. QED
      BY <1>2, <1>3, <3>2, <3>3 DEF WholeAt
  <2>4. CASE ~IsLspMessageEvent(d, e)
    <3>1. stdout'[d] = stdout[d]
      <4>1. CASE d # b
        BY <1>3, <4>1
      <4>2. CASE d = b
        BY <1>2, <2>4, <4>2 DEF IsLspMessageEvent, Stopped
      <4>3. QED
        BY <4>1, <4>2
    <3>2. Whole(Append(channel, e), heard[d], stdout[d], said[d], d)
      BY <1>4, <2>1, <2>2, <2>4, WholeOther DEF WholeAt
    <3>3. QED
      BY <1>2, <1>3, <3>1, <3>2 DEF WholeAt
  <2>5. QED
    BY <2>3, <2>4
<1>11. WholeWhenOpen'
  BY <1>10 DEF WholeWhenOpen
<1>12. QED
  BY <1>1, <1>6, <1>7, <1>9, <1>11 DEF HearInv

\* The page handles an event.
LEMMA HandleHearInv ==
    ASSUME HearInv, Handle
    PROVE  HearInv'
<1> USE DEF pipes
<1>1. IInv'
  BY ServerIInv DEF HearInv
<1>2. /\ channel # <<>> /\ channel' = Tail(channel)
      /\ UNCHANGED <<bridge, listening, sends, lock, stdin, stdout, said>>
      /\ \A b \in Bridges :
           heard'[b] = IF b \in listening /\ IsLspMessageEvent(b, Head(channel))
                       THEN Append(heard[b], Head(channel).number) ELSE heard[b]
      /\ heard' = [b \in Bridges |-> heard'[b]]
  BY DEF Handle
<1>3. /\ channel \in Seq(Event) /\ channel' \in Seq(Event) /\ Head(channel) \in Event
      /\ Head(channel) = channel[1] /\ 1 \in 1 .. Len(channel)
      /\ \A i \in 1 .. Len(channel') : i + 1 \in 1 .. Len(channel) /\ channel'[i] = channel[i + 1]
  BY <1>2, TailedSeq DEF HearInv, PipesAreTyped
<1>4. Head(channel).number \in Nat
  BY <1>3 DEF Event
<1>5. ASSUME NEW b \in Bridges PROVE heard'[b] \in Seq(Nat)
  <2>1. heard[b] \in Seq(Nat)
    BY DEF HearInv, PipesAreTyped
  <2>2. Append(heard[b], Head(channel).number) \in Seq(Nat)
    BY <1>4, <2>1, AppendedSeq
  <2>3. QED
    BY <1>2, <2>1, <2>2
<1>6. PipesAreTyped'
  BY <1>2, <1>3, <1>5 DEF HearInv, PipesAreTyped
<1>7. HolderWrites'
  BY <1>2 DEF HearInv, HolderWrites, Numbers
<1>8. ASSUME NEW b \in Bridges, bridge'[b] \in BeforeOpen PROVE QuietAt(b)'
  <2>1. QuietAt(b) /\ b \notin listening
    BY <1>2, <1>8 DEF HearInv, QuietBeforeOpen, IInv, ListensWhenOpen, BeforeOpen
  <2>2. heard'[b] = heard[b]
    BY <1>2, <2>1
  <2>3. \A i \in 1 .. Len(channel') : ~IsLspMessageEvent(b, channel'[i])
    BY <1>3, <2>1 DEF QuietAt
  <2>4. QED
    BY <1>2, <2>1, <2>2, <2>3 DEF QuietAt, IsLspMessageEvent, Numbers
<1>9. QuietBeforeOpen'
  BY <1>8 DEF QuietBeforeOpen
<1>10. ASSUME NEW b \in Bridges, bridge'[b] = "open" PROVE WholeAt(b)'
  <2>1. b \in listening /\ WholeAt(b)
    BY <1>2, <1>10 DEF HearInv, WholeWhenOpen, IInv, ListensWhenOpen
  <2>2. /\ heard[b] \in Seq(Nat) /\ stdout[b] \in Seq(Nat) /\ said[b] \in Seq(Nat)
    BY DEF HearInv, PipesAreTyped
  <2>3. Whole(Tail(channel),
              IF IsLspMessageEvent(b, Head(channel)) THEN Append(heard[b], Head(channel).number)
              ELSE heard[b], stdout[b], said[b], b)
    BY <1>2, <1>3, <2>1, <2>2, WholeHandles DEF WholeAt
  <2>4. QED
    BY <1>2, <2>1, <2>3 DEF WholeAt
<1>11. WholeWhenOpen'
  BY <1>10 DEF WholeWhenOpen
<1>12. QED
  BY <1>1, <1>6, <1>7, <1>9, <1>11 DEF HearInv

LEMMA NextHearInv == HearInv /\ [Next]_vars => HearInv'
<1> SUFFICES ASSUME HearInv, [Next]_vars PROVE HearInv'
  OBVIOUS
<1>1. ASSUME NEW b \in Bridges, Thread(b) PROVE HearInv'
  BY <1>1, BridgeHearInv, SendHearInv, ServerHearInv, EmitHearInv DEF Thread
<1>2. CASE Next
  BY <1>1, <1>2, BridgeHearInv, SendHearInv, ServerHearInv, EmitHearInv, HandleHearInv DEF Next
<1>3. CASE UNCHANGED vars
  <2>1. IInv'
    BY <1>3, NextIInv DEF HearInv
  <2>2. PipesAreTyped' /\ HolderWrites'
    BY <1>3 DEF vars, HearInv, PipesAreTyped, HolderWrites, Numbers
  <2>3. QuietBeforeOpen' /\ WholeWhenOpen'
    BY <1>3 DEF vars, HearInv, QuietBeforeOpen, QuietAt, Numbers, WholeWhenOpen, WholeAt
  <2>4. QED
    BY <2>1, <2>2, <2>3 DEF HearInv
<1>4. QED
  BY <1>2, <1>3

\* An open bridge hears everything its server has said, once and in order, and nothing of
\* another's: what was heard, what is on its way and what is in the pipe are what was said
\* (lsp_handler.rs 357, client.ts 100).
THEOREM OpenBridgeHears == Spec => []HearsItsServer
<1>1. HearInv => HearsItsServer
  BY HearsIsWhole DEF HearInv, WholeWhenOpen, WholeAt
<1>2. QED
  BY <1>1, InitHearInv, NextHearInv, PTL DEF Spec

=============================================================================
