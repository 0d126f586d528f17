-------------------------- MODULE AiExchangeProofs --------------------------
(***************************************************************************)
(* Proofs about the chat requests of princess-ai, for any set of calls,    *)
(* any assignment of request ids and any number of reads: the stream of a  *)
(* call is closed once, a cancel is prompt, and what is live is exact.     *)
(***************************************************************************)
EXTENDS AiExchange, FiniteSetTheorems, TLAPS

-----------------------------------------------------------------------------
(* Facts about the types. *)

Frames == Seq({"text", "done"})

\* A call of the provider, as TypeOK has it.
CallRecord ==
    [pc : Points, attempt : 0..2, batch : Seq({"text", "done"}), reads : 0..MaxReads,
     done : BOOLEAN, late : BOOLEAN, deaf : BOOLEAN, result : Outcomes]

\* The members of the enumerations, and the zeroes.
LEMMA Members ==
    /\ \A pc \in {"connect", "reading", "got", "emitting", "flush", "idle", "register",
                   "between", "closing", "returned"} : pc \in Points
    /\ \A o \in {"none", "ok", "refused", "rejected", "unavailable", "timeout",
                  "cancelled", "sink"} : o \in Outcomes
    /\ \A b \in Batches : b \in Frames
    /\ <<>> \in Frames /\ \A b \in Frames : b # <<>> => Tail(b) \in Frames
    /\ 0 \in 0 .. MaxReads /\ 1 \in 0 .. 2 /\ 2 \in 0 .. 2 /\ 0 \in 0 .. 2
<1>1. \A pc \in {"connect", "reading", "got", "emitting", "flush", "idle", "register",
                 "between", "closing", "returned"} : pc \in Points
  BY DEF Points, InExchange
<1>2. \A o \in {"none", "ok", "refused", "rejected", "unavailable", "timeout",
                "cancelled", "sink"} : o \in Outcomes
  BY DEF Outcomes
<1>3. <<>> \in Frames /\ \A b \in Frames : b # <<>> => Tail(b) \in Frames
  BY DEF Frames
<1>4. <<"text">> \in Frames /\ <<"done">> \in Frames
      /\ <<"text", "text">> \in Frames /\ <<"text", "done">> \in Frames
  BY DEF Frames
<1>5. \A b \in Batches : b \in Frames
  BY <1>3, <1>4 DEF Batches
<1>6. QED
  BY <1>1, <1>2, <1>3, <1>5, AiAssumption

LEMMA CallsAreTyped == TypeOK => call \in [Requests -> CallRecord]
BY DEF TypeOK, CallRecord

\* A thread that becomes a well-typed record keeps the type, and is alone to change.
LEMMA OneCallChanges ==
    ASSUME TypeOK, NEW c \in Requests, NEW r \in CallRecord,
           call' = [call EXCEPT ![c] = r]
    PROVE  /\ call' \in [Requests -> CallRecord] /\ call'[c] = r
           /\ \A d \in Requests : d # c => call'[d] = call[d]
BY CallsAreTyped

\* A batch of more than one frame leaves one.
LEMMA LongTail ==
    ASSUME NEW b \in Seq({"text", "done"}), b # <<>>, Len(b) # 1
    PROVE  Tail(b) # <<>>
<1>1. Len(b) \in Nat /\ Len(b) # 0
  OBVIOUS
<1>2. Len(Tail(b)) = Len(b) - 1
  BY <1>1
<1>3. Len(Tail(b)) # 0
  BY <1>1, <1>2
<1>4. Len(<<>>) = 0
  OBVIOUS
<1>5. QED
  BY <1>3, <1>4, Zenon

\* One more ai.finished.
LEMMA FinishedIsTyped ==
    ASSUME TypeOK, NEW c \in Requests, told' = [told EXCEPT ![c].finished = @ + 1]
    PROVE  told' \in [Requests -> [finished : Nat, after : BOOLEAN]]
<1> DEFINE t == [told[c] EXCEPT !.finished = @ + 1]
<1>1. told \in [Requests -> [finished : Nat, after : BOOLEAN]]
  BY DEF TypeOK
<1>2. told[c].finished + 1 \in Nat
  BY <1>1
<1>3. t \in [finished : Nat, after : BOOLEAN]
  BY <1>1, <1>2
<1>4. told' = [told EXCEPT ![c] = t]
  BY <1>1
<1>5. QED
  BY <1>1, <1>3, <1>4

\* What is left of TypeOK when the calls are.
LEMMA RestIsTyped ==
    ASSUME TypeOK, call' \in [Requests -> CallRecord], id' = id,
           live' \subseteq [id : Ids, call : Requests],
           stop' \subseteq Requests, token' \subseteq Requests,
           told' \in [Requests -> [finished : Nat, after : BOOLEAN]],
           since' \in [Requests -> SUBSET (0..MaxReads)]
    PROVE  TypeOK'
BY DEF TypeOK, CallRecord

-----------------------------------------------------------------------------
(* The inductive invariant. *)

\* ai.finished: none before the end, one when a good exchange is over, and one when
\* a call returns that got as far as an exchange and whose sink listens.
FinishedOnce ==
    \A c \in Requests :
        /\ told[c].after = FALSE
        /\ call[c].pc \notin {"closing", "returned"} => told[c].finished = 0
        /\ call[c].pc = "closing" =>
             told[c].finished = IF call[c].result = "ok" THEN 1 ELSE 0
        /\ call[c].pc = "returned" => told[c].finished \in {0, 1}
        /\ call[c].pc = "returned" /\ call[c].attempt > 0 /\ ~call[c].deaf
             => told[c].finished = 1

\* Reads are shown after a stop only while the stop holds, and no read follows one
\* that was.
ShownIsInHand ==
    \A c \in Requests :
        /\ \E k \in 0 .. MaxReads : since[c] \subseteq {k}
        /\ call[c].pc = "emitting" => since[c] \subseteq {call[c].reads} /\ call[c].batch # <<>>
        /\ call[c].pc \in {"connect", "got"} => since[c] = {}
        /\ call[c].pc \in InExchange /\ since[c] # {} => Aborted(c)

\* An entry is that of an exchange that runs, under its id.
EntriesAreLive ==
    \A e \in live : e.id = id[e.call] /\ call[e.call].pc \in InExchange

IInv == TypeOK /\ FinishedOnce /\ ShownIsInHand /\ EntriesAreLive /\ LiveIsExact

LEMMA InitIInv == Init => IInv
<1> SUFFICES ASSUME Init PROVE IInv
  OBVIOUS
<1>1. TypeOK
  BY AiAssumption DEF Init, TypeOK, Points, Outcomes
<1>2. FinishedOnce
  BY DEF Init, FinishedOnce
<1>3. ShownIsInHand
  <2>1. \A c \in Requests : since[c] = {} /\ call[c].pc = "idle"
    BY DEF Init
  <2>2. 0 \in 0 .. MaxReads
    BY AiAssumption
  <2>3. QED
    BY <2>1, <2>2 DEF ShownIsInHand, InExchange
<1>4. EntriesAreLive /\ LiveIsExact
  BY DEF Init, EntriesAreLive, LiveIsExact, At, InExchange
<1>5. QED
  BY <1>1, <1>2, <1>3, <1>4 DEF IInv

-----------------------------------------------------------------------------
(* Leaving an exchange, from anywhere. *)

\* What Leave does to the thread and to the entries.
LEMMA LeaveEffect ==
    ASSUME TypeOK, NEW c \in Requests, NEW result \in Outcomes, Leave(c, result)
    PROVE  /\ call' \in [Requests ->
                   [pc : Points, attempt : 0..2,
                    batch : Seq({"text", "done"}), reads : 0..MaxReads, done : BOOLEAN,
                    late : BOOLEAN, deaf : BOOLEAN, result : Outcomes]]
           /\ \A d \in Requests : d # c => call'[d] = call[d]
           /\ call'[c].pc = IF result = "rejected" THEN "between" ELSE "closing"
           /\ call'[c].result = result /\ call'[c].attempt = call[c].attempt
           /\ call'[c].deaf = (call[c].deaf \/ result = "sink")
           /\ live' = {e \in live : e.id # id[c]}
<1> DEFINE r == [call[c] EXCEPT !.pc = IF result = "rejected" THEN "between" ELSE "closing",
                                !.result = result, !.batch = <<>>, !.reads = 0,
                                !.done = FALSE, !.late = FALSE,
                                !.deaf = @ \/ result = "sink"]
<1>1. call \in [Requests -> CallRecord]
  BY CallsAreTyped
<1>2. call[c] \in CallRecord
  BY <1>1
<1>3. r \in CallRecord
  BY <1>2, Members DEF CallRecord, Frames
<1>4. call' = [call EXCEPT ![c] = r]
  BY <1>1 DEF Leave, CallRecord
<1>5. call' \in [Requests -> CallRecord]
  BY <1>1, <1>3, <1>4, OneCallChanges
<1>6. /\ call'[c].pc = IF result = "rejected" THEN "between" ELSE "closing"
      /\ call'[c].result = result /\ call'[c].attempt = call[c].attempt
      /\ call'[c].deaf = (call[c].deaf \/ result = "sink")
      /\ \A d \in Requests : d # c => call'[d] = call[d]
  BY <1>1, <1>2, <1>4 DEF CallRecord
<1>7. live' = {e \in live : e.id # id[c]}
  BY DEF Leave, LiveWithout
<1>8. QED
  BY <1>5, <1>6, <1>7 DEF CallRecord

\* The entries after an exchange is left.
LEMMA LeaveLive ==
    ASSUME IInv, NEW c \in Requests, NEW result \in Outcomes, Leave(c, result), id' = id
    PROVE  EntriesAreLive' /\ LiveIsExact'
<1>1. /\ \A d \in Requests : d # c => call'[d] = call[d]
      /\ call'[c].pc \in {"between", "closing"}
      /\ live' = {e \in live : e.id # id[c]}
  BY LeaveEffect DEF IInv
<1>2. \A e \in live : e.call \in Requests /\ e.id = id[e.call]
  BY DEF IInv, TypeOK, EntriesAreLive
<1>3. EntriesAreLive'
  BY <1>1, <1>2 DEF IInv, EntriesAreLive
<1>4. \A e \in live' : e.call # c
  BY <1>1, <1>2
<1>5. ASSUME NEW d \in Requests, d # c, call'[d].pc \notin InExchange
      PROVE  \A e \in live' : e.call # d
  BY <1>1, <1>5 DEF IInv, LiveIsExact
<1>6. ASSUME NEW d \in Requests, call'[d].pc \in InExchange,
             \A f \in Requests : id[f] = id[d] => f = d
      PROVE  [id |-> id[d], call |-> d] \in live'
  <2>1. d # c /\ call[d].pc \in InExchange
    BY <1>1, <1>6 DEF InExchange
  <2>2. [id |-> id[d], call |-> d] \in live
    BY <2>1, <1>6 DEF IInv, LiveIsExact
  <2>3. QED
    BY <1>1, <1>6, <2>1, <2>2
<1>7. QED
  BY <1>3, <1>4, <1>5, <1>6 DEF LiveIsExact

\* An exchange that leaves without a word keeps the invariant: the note of its end is
\* not sent yet, unless it was good.
LEMMA LeaveIInv ==
    ASSUME IInv, NEW c \in Requests, NEW result \in Outcomes \ {"ok"}, Leave(c, result),
           call[c].pc \in InExchange, UNCHANGED <<id, token, stop, told, since>>
    PROVE  IInv'
<1>1. /\ \A d \in Requests : d # c => call'[d] = call[d]
      /\ call'[c].pc \in {"between", "closing"} /\ call'[c].result = result
  BY LeaveEffect DEF IInv
<1>2. TypeOK'
  BY LeaveEffect DEF IInv, TypeOK
<1>3. FinishedOnce'
  BY <1>1 DEF IInv, FinishedOnce, InExchange
<1>4. ShownIsInHand'
  BY <1>1 DEF IInv, ShownIsInHand, InExchange, Aborted
<1>5. QED
  BY <1>2, <1>3, <1>4, LeaveLive DEF IInv

-----------------------------------------------------------------------------
(* The steps of a thread that stay on their side of the exchange. *)

\* A step that moves one call within the exchange or outside of it.
Stays(c) ==
    /\ UNCHANGED <<id, live>>
    /\ \A d \in Requests : d # c => call'[d] = call[d]
    /\ call'[c].pc \in InExchange <=> call[c].pc \in InExchange

LEMMA StaysLive ==
    ASSUME IInv, NEW c \in Requests, Stays(c)
    PROVE  EntriesAreLive' /\ LiveIsExact'
<1>1. \A d \in Requests : call'[d].pc \in InExchange <=> call[d].pc \in InExchange
  BY DEF Stays
<1>2. \A e \in live : e.call \in Requests
  BY DEF IInv, TypeOK
<1>3. EntriesAreLive'
  BY <1>1, <1>2 DEF IInv, EntriesAreLive, Stays
<1>4. LiveIsExact'
  BY <1>1 DEF IInv, LiveIsExact, Stays
<1>5. QED
  BY <1>3, <1>4

\* Before the first exchange and between the two.
LEMMA OutsideIInv ==
    ASSUME IInv, NEW c \in Requests, Begin(c) \/ Retry(c)
    PROVE  IInv'
<1>1. PICK r \in CallRecord :
        /\ call' = [call EXCEPT ![c] = r]
        /\ r.pc \in {"register", "returned"}
        /\ r.pc = "returned" => r.attempt = 0 \/ r.deaf
  <2>1. call[c] \in CallRecord /\ call \in [Requests -> CallRecord]
    BY CallsAreTyped DEF IInv
  <2>2. CASE Begin(c)
    <3>1. PICK refusal \in {"none", "refused", "cancelled"} :
            call' = [call EXCEPT
                       ![c].pc = IF refusal = "none" THEN "register" ELSE "returned",
                       ![c].attempt = IF refusal = "none" THEN 1 ELSE 0,
                       ![c].result = refusal]
      BY <2>2 DEF Begin
    <3> DEFINE r == [call[c] EXCEPT
                       !.pc = IF refusal = "none" THEN "register" ELSE "returned",
                       !.attempt = IF refusal = "none" THEN 1 ELSE 0,
                       !.result = refusal]
    <3>2. r \in CallRecord
      BY <2>1, Members DEF CallRecord
    <3>3. call' = [call EXCEPT ![c] = r]
      BY <2>1, <3>1 DEF CallRecord
    <3>4. r.pc \in {"register", "returned"} /\ (r.pc = "returned" => r.attempt = 0)
      BY <2>1 DEF CallRecord
    <3>5. QED
      BY <3>2, <3>3, <3>4
  <2>3. CASE Retry(c)
    <3>1. CASE call' = [call EXCEPT ![c].pc = "register", ![c].attempt = 2]
      <4> DEFINE r == [call[c] EXCEPT !.pc = "register", !.attempt = 2]
      <4>1. r \in CallRecord /\ r.pc = "register"
        BY <2>1, Members DEF CallRecord
      <4>2. call' = [call EXCEPT ![c] = r]
        BY <2>1, <3>1 DEF CallRecord
      <4>3. QED
        BY <4>1, <4>2
    <3>2. CASE call' = [call EXCEPT ![c].pc = "returned", ![c].result = "sink",
                                    ![c].deaf = TRUE]
      <4> DEFINE r == [call[c] EXCEPT !.pc = "returned", !.result = "sink", !.deaf = TRUE]
      <4>1. r \in CallRecord /\ r.pc = "returned" /\ r.deaf
        BY <2>1, Members DEF CallRecord
      <4>2. call' = [call EXCEPT ![c] = r]
        BY <2>1, <3>2 DEF CallRecord
      <4>3. QED
        BY <4>1, <4>2
    <3>3. QED
      BY <2>3, <3>1, <3>2 DEF Retry
  <2>4. QED
    BY <2>2, <2>3
<1>2. /\ call' \in [Requests -> CallRecord] /\ call'[c] = r
      /\ \A d \in Requests : d # c => call'[d] = call[d]
  BY <1>1, OneCallChanges DEF IInv
<1>3. /\ UNCHANGED <<id, token, live, stop, told, since>>
      /\ call[c].pc \in {"idle", "between"}
  BY DEF Begin, Retry, At, outside
<1>4. Stays(c)
  BY <1>1, <1>2, <1>3 DEF Stays, InExchange
<1>5. TypeOK'
  BY <1>2, <1>3, RestIsTyped DEF IInv, TypeOK
<1>6. FinishedOnce'
  <2>1. told[c].finished = 0
    BY <1>3 DEF IInv, FinishedOnce
  <2>2. QED
    BY <1>1, <1>2, <1>3, <2>1 DEF IInv, FinishedOnce
<1>7. ShownIsInHand'
  BY <1>1, <1>2, <1>3 DEF IInv, ShownIsInHand, InExchange, Aborted
<1>8. QED
  BY <1>4, <1>5, <1>6, <1>7, StaysLive DEF IInv

\* An exchange begins: its entry is made, its flag is cleared.
LEMMA RegisterIInv ==
    ASSUME IInv, NEW c \in Requests, Register(c)
    PROVE  IInv'
<1> USE DEF Register, Goto, At, outside
<1>1. /\ \A d \in Requests : d # c => call'[d] = call[d] /\ since'[d] = since[d]
      /\ call[c].pc = "register" /\ call'[c].pc = "connect" /\ since'[c] = {}
      /\ live' = live \cup {[id |-> id[c], call |-> c]} /\ id' = id
      /\ told' = told /\ token' = token /\ stop' = stop \ {c}
  BY DEF IInv, TypeOK
<1>2. TypeOK'
  <2> DEFINE r == [call[c] EXCEPT !.pc = "connect"]
  <2>1. call[c] \in CallRecord /\ call \in [Requests -> CallRecord]
    BY CallsAreTyped DEF IInv
  <2>2. r \in CallRecord
    BY <2>1, Members DEF CallRecord, Frames
  <2>3. call' = [call EXCEPT ![c] = r]
    BY <2>1 DEF CallRecord
  <2>4. call' \in [Requests -> CallRecord]
    BY <2>2, <2>3, OneCallChanges DEF IInv
  <2>5. QED
    BY <1>1, <2>4, RestIsTyped DEF IInv, TypeOK
<1>3. FinishedOnce'
  BY <1>1 DEF IInv, FinishedOnce
<1>4. ShownIsInHand'
  <2>1. ASSUME NEW d \in Requests, d # c
        PROVE  Aborted(d)' <=> Aborted(d)
    BY <1>1, <2>1 DEF Aborted
  <2>2. QED
    BY <1>1, <2>1, AiAssumption DEF IInv, ShownIsInHand, InExchange
<1>5. \A e \in live : e.call \in Requests /\ e.call # c
  BY <1>1 DEF IInv, TypeOK, LiveIsExact, InExchange
<1>6. EntriesAreLive'
  BY <1>1, <1>5 DEF IInv, EntriesAreLive, InExchange
<1>7. LiveIsExact'
  BY <1>1, <1>5 DEF IInv, LiveIsExact, InExchange
<1>8. QED
  BY <1>2, <1>3, <1>4, <1>6, <1>7 DEF IInv

\* The socket: connected, read, at its end.
LEMMA SocketIInv ==
    ASSUME IInv, NEW c \in Requests, Connect(c) \/ Read(c) \/ EndOfBody(c)
    PROVE  IInv'
<1> USE DEF Connect, Read, EndOfBody, Goto, At, outside
<1>1. Stays(c)
  BY DEF IInv, TypeOK, Stays, InExchange
<1>2. /\ UNCHANGED <<told, since, stop, token>>
      /\ call[c].pc \in {"connect", "reading"}
      /\ call'[c].pc \in {"reading", "got", "flush"}
      /\ call'[c].pc = "got" => ~Aborted(c) /\ call[c].pc = "reading"
  BY DEF IInv, TypeOK
<1>3. TypeOK'
  <2>1. CASE Connect(c)
    <3> DEFINE r == [call[c] EXCEPT !.pc = "reading"]
    <3>1. call[c] \in CallRecord /\ call \in [Requests -> CallRecord]
      BY CallsAreTyped DEF IInv
    <3>2. r \in CallRecord
      BY <3>1, Members DEF CallRecord, Frames
    <3>3. call' = [call EXCEPT ![c] = r]
      BY <2>1, <3>1 DEF CallRecord
    <3>4. call' \in [Requests -> CallRecord]
      BY <3>2, <3>3, OneCallChanges DEF IInv
    <3>5. QED
      BY <1>1, <1>2, <3>4, RestIsTyped DEF IInv, TypeOK, Stays
  <2>2. CASE EndOfBody(c)
    <3> DEFINE r == [call[c] EXCEPT !.pc = "flush", !.late = FALSE, !.reads = 0]
    <3>1. call[c] \in CallRecord /\ call \in [Requests -> CallRecord]
      BY CallsAreTyped DEF IInv
    <3>2. r \in CallRecord
      BY <3>1, Members DEF CallRecord, Frames
    <3>3. call' = [call EXCEPT ![c] = r]
      BY <2>2, <3>1 DEF CallRecord
    <3>4. call' \in [Requests -> CallRecord]
      BY <3>2, <3>3, OneCallChanges DEF IInv
    <3>5. QED
      BY <1>1, <1>2, <3>4, RestIsTyped DEF IInv, TypeOK, Stays
  <2>3. CASE Read(c)
    <3>1. PICK batch \in Batches :
            call' = [call EXCEPT ![c].pc = "got", ![c].reads = @ + 1,
                                 ![c].batch = IF call[c].done THEN <<>> ELSE batch]
      BY <2>3
    <3> DEFINE r == [call[c] EXCEPT !.pc = "got", !.reads = @ + 1,
                                    !.batch = IF call[c].done THEN <<>> ELSE batch]
    <3>2. call[c] \in CallRecord /\ call \in [Requests -> CallRecord]
      BY CallsAreTyped DEF IInv
    <3>3. call[c].reads + 1 \in 0 .. MaxReads
      <4>1. call[c].reads \in Nat /\ call[c].reads < MaxReads
        <5>1. call[c].reads \in 0 .. MaxReads
          BY <3>2 DEF CallRecord
        <5>2. call[c].reads < MaxReads
          BY <2>3 DEF Read
        <5>3. QED
          BY <5>1, <5>2, AiAssumption
      <4>2. QED
        BY <4>1, AiAssumption
    <3>4. (IF call[c].done THEN <<>> ELSE batch) \in Frames
      BY Members
    <3>5. r \in CallRecord
      BY <3>2, <3>3, <3>4, Members DEF CallRecord, Frames
    <3>6. call' = [call EXCEPT ![c] = r]
      BY <3>1, <3>2 DEF CallRecord
    <3>7. call' \in [Requests -> CallRecord]
      BY <3>5, <3>6, OneCallChanges DEF IInv
    <3>8. QED
      BY <1>1, <1>2, <3>7, RestIsTyped DEF IInv, TypeOK, Stays
  <2>4. QED
    BY <2>1, <2>2, <2>3
<1>4. FinishedOnce'
  BY <1>1, <1>2 DEF IInv, FinishedOnce, Stays
<1>5. ShownIsInHand'
  BY <1>1, <1>2 DEF IInv, ShownIsInHand, Stays, InExchange, Aborted
<1>6. QED
  BY <1>1, <1>3, <1>4, <1>5, StaysLive DEF IInv

-----------------------------------------------------------------------------
(* Decoding, emitting, concluding. *)

\* The frames of a read are dropped, or handed over with nothing shown before them.
LEMMA DecodeIInv ==
    ASSUME IInv, NEW c \in Requests, Decode(c)
    PROVE  IInv'
<1> USE DEF Decode, Goto, At, outside
<1>1. CASE Leave(c, "cancelled")
  BY <1>1, LeaveIInv DEF Outcomes, InExchange
<1>2. CASE /\ call' = [call EXCEPT ![c].pc =
                         IF call[c].batch = <<>> THEN "reading" ELSE "emitting"]
           /\ UNCHANGED live
  <2>1. Stays(c) /\ UNCHANGED <<told, since, stop, token>>
    BY <1>2 DEF IInv, TypeOK, Stays, InExchange
  <2>2. /\ call[c].pc = "got" /\ call'[c].pc \in {"reading", "emitting"}
        /\ call'[c].reads = call[c].reads
        /\ call'[c].pc = "emitting" => call'[c].batch # <<>>
    BY <1>2 DEF IInv, TypeOK
  <2>3. TypeOK'
    <3> DEFINE r == [call[c] EXCEPT !.pc =
                       IF call[c].batch = <<>> THEN "reading" ELSE "emitting"]
    <3>1. call[c] \in CallRecord /\ call \in [Requests -> CallRecord]
      BY CallsAreTyped DEF IInv
    <3>2. r \in CallRecord
      BY <3>1, Members DEF CallRecord, Frames
    <3>3. call' = [call EXCEPT ![c] = r]
      BY <1>2, <3>1 DEF CallRecord
    <3>4. call' \in [Requests -> CallRecord]
      BY <3>2, <3>3, OneCallChanges DEF IInv
    <3>5. QED
      BY <1>2, <2>1, <3>4, RestIsTyped DEF IInv, TypeOK
  <2>4. FinishedOnce'
    BY <2>1, <2>2 DEF IInv, FinishedOnce, Stays
  <2>5. ShownIsInHand'
    BY <2>1, <2>2 DEF IInv, ShownIsInHand, Stays, InExchange, Aborted
  <2>6. QED
    BY <2>1, <2>3, <2>4, <2>5, StaysLive DEF IInv
<1>3. QED
  BY <1>1, <1>2

\* A text is shown under the number of the read it came with.
LEMMA EmitIInv ==
    ASSUME IInv, NEW c \in Requests, Emit(c)
    PROVE  IInv'
<1> USE DEF Emit, At, outside
<1>1. call[c].pc = "emitting" /\ id' = id /\ stop' = stop /\ token' = token
  OBVIOUS
<1>2. CASE Leave(c, "sink") /\ UNCHANGED <<told, since>>
  BY <1>1, <1>2, LeaveIInv DEF Outcomes, InExchange
<1>3. CASE /\ call' = [call EXCEPT ![c].pc = "reading", ![c].batch = <<>>, ![c].done = TRUE]
           /\ UNCHANGED <<live, told, since>>
  <2>1. Stays(c) /\ call'[c].pc = "reading"
    BY <1>1, <1>3 DEF IInv, TypeOK, Stays, InExchange
  <2>2. TypeOK'
    <3> DEFINE r == [call[c] EXCEPT !.pc = "reading", !.batch = <<>>, !.done = TRUE]
    <3>1. call[c] \in CallRecord /\ call \in [Requests -> CallRecord]
      BY CallsAreTyped DEF IInv
    <3>2. r \in CallRecord
      BY <3>1, Members DEF CallRecord, Frames
    <3>3. call' = [call EXCEPT ![c] = r]
      BY <1>3, <3>1 DEF CallRecord
    <3>4. call' \in [Requests -> CallRecord]
      BY <3>2, <3>3, OneCallChanges DEF IInv
    <3>5. QED
      BY <1>1, <1>3, <3>4, RestIsTyped DEF IInv, TypeOK
  <2>3. FinishedOnce'
    BY <1>1, <1>3, <2>1 DEF IInv, FinishedOnce, Stays
  <2>4. ShownIsInHand'
    BY <1>1, <1>3, <2>1 DEF IInv, ShownIsInHand, Stays, InExchange, Aborted
  <2>5. QED
    BY <2>1, <2>2, <2>3, <2>4, StaysLive DEF IInv
<1>4. CASE /\ Head(call[c].batch) = "text" /\ Shown(c)
           /\ call' = [call EXCEPT ![c].batch = Tail(@),
                                   ![c].pc = IF Len(call[c].batch) = 1 THEN "reading" ELSE @]
           /\ UNCHANGED live
  <2>1. Stays(c) /\ call'[c].pc \in {"reading", "emitting"} /\ call'[c].reads = call[c].reads
    BY <1>1, <1>4 DEF IInv, TypeOK, Stays, InExchange
  <2>2. /\ told' = [told EXCEPT ![c].after = @ \/ told[c].finished > 0]
        /\ since' = [since EXCEPT ![c] =
                       IF c \in stop \cup token THEN @ \cup {call[c].reads} ELSE @]
    BY <1>4 DEF Shown
  <2>3. told[c].finished = 0 /\ told[c].after = FALSE
    BY <1>1 DEF IInv, FinishedOnce
  <2>4. told' = told
    BY <2>2, <2>3 DEF IInv, TypeOK
  <2>5. /\ \A d \in Requests : d # c => since'[d] = since[d]
        /\ since'[c] \subseteq {call[c].reads}
        /\ since'[c] # {} => Aborted(c)
        /\ call[c].reads \in 0 .. MaxReads
    BY <1>1, <2>2 DEF IInv, TypeOK, ShownIsInHand, InExchange, Aborted
  <2>6. TypeOK'
    <3> DEFINE r == [call[c] EXCEPT !.batch = Tail(@),
                       !.pc = IF Len(call[c].batch) = 1 THEN "reading" ELSE @]
    <3>1. call[c] \in CallRecord /\ call \in [Requests -> CallRecord]
      BY CallsAreTyped DEF IInv
    <3>2. r \in CallRecord
      <4>1. call[c].batch \in Frames /\ call[c].batch # <<>>
        BY <1>1, <3>1 DEF CallRecord, Frames, IInv, ShownIsInHand
      <4>2. Tail(call[c].batch) \in Frames
        BY <4>1, Members
      <4>3. QED
        BY <3>1, <4>2, Members DEF CallRecord, Frames
    <3>5. call' \in [Requests -> CallRecord]
      <4>1. call' = [call EXCEPT ![c] = r]
        BY <1>4, <3>1 DEF CallRecord
      <4>2. QED
        BY <3>2, <4>1, OneCallChanges DEF IInv
    <3>3. since' \in [Requests -> SUBSET (0..MaxReads)]
      BY <2>2, <2>5 DEF IInv, TypeOK
    <3>4. QED
      BY <1>1, <1>4, <2>4, <3>3, <3>5, RestIsTyped DEF IInv, TypeOK
  <2>7. FinishedOnce'
    BY <1>1, <2>1, <2>4 DEF IInv, FinishedOnce, Stays
  <2>8. ShownIsInHand'
    <3>1. call'[c].pc = "emitting" => call'[c].batch # <<>>
      <4>1. call[c].batch \in Seq({"text", "done"}) /\ call[c].batch # <<>>
        BY <1>1 DEF IInv, TypeOK, ShownIsInHand
      <4>2. /\ call'[c].batch = Tail(call[c].batch)
            /\ call'[c].pc = "emitting" => Len(call[c].batch) # 1
        BY <1>4 DEF IInv, TypeOK
      <4>3. Len(call[c].batch) # 1 => Tail(call[c].batch) # <<>>
        BY <4>1, LongTail
      <4>4. QED
        BY <4>2, <4>3
    <3>2. QED
      BY <1>1, <2>1, <2>5, <3>1 DEF IInv, ShownIsInHand, Stays, InExchange, Aborted
  <2>9. QED
    BY <2>1, <2>6, <2>7, <2>8, StaysLive DEF IInv
<1>5. QED
  BY <1>2, <1>3, <1>4

\* Only a good exchange is told of here, and only it is.
LEMMA ConcludeIInv ==
    ASSUME IInv, NEW c \in Requests, Conclude(c)
    PROVE  IInv'
<1>1. call[c].pc = "flush" /\ UNCHANGED <<id, token, stop, since>>
  BY DEF Conclude, At, outside
<1>2. ASSUME NEW result \in Outcomes \ {"ok"}, Leave(c, result), UNCHANGED told
      PROVE  IInv'
  BY <1>1, <1>2, LeaveIInv DEF InExchange
<1>3. CASE Leave(c, "ok") /\ told' = [told EXCEPT ![c].finished = @ + 1]
  <2>1. /\ \A d \in Requests : d # c => call'[d] = call[d]
        /\ call'[c].pc = "closing" /\ call'[c].result = "ok"
    BY <1>3, LeaveEffect DEF IInv, Outcomes
  <2>2. TypeOK'
    <3>1. told' \in [Requests -> [finished : Nat, after : BOOLEAN]]
      BY <1>3, FinishedIsTyped DEF IInv
    <3>2. /\ call' \in [Requests -> CallRecord]
          /\ live' \subseteq [id : Ids, call : Requests]
      BY <1>3, LeaveEffect, Members DEF IInv, TypeOK, CallRecord
    <3>3. QED
      BY <1>1, <3>1, <3>2, RestIsTyped DEF IInv, TypeOK
  <2>3. told[c].finished = 0 /\ told[c].after = FALSE
    BY <1>1 DEF IInv, FinishedOnce
  <2>4. /\ told'[c].finished = 1 /\ told'[c].after = FALSE
        /\ \A d \in Requests : d # c => told'[d] = told[d]
    BY <1>3, <2>3 DEF IInv, TypeOK
  <2>5. FinishedOnce'
    BY <2>1, <2>4 DEF IInv, FinishedOnce
  <2>6. ShownIsInHand'
    BY <1>1, <2>1 DEF IInv, ShownIsInHand, InExchange, Aborted
  <2>7. EntriesAreLive' /\ LiveIsExact'
    BY <1>1, <1>3, LeaveLive DEF Outcomes
  <2>8. QED
    BY <2>2, <2>5, <2>6, <2>7 DEF IInv
<1>4. QED
  BY <1>2, <1>3 DEF Conclude, Outcomes

\* The end of a call: the entries of its id are taken once more, and a failure whose
\* sink listens gets its ai.finished.
LEMMA CloseIInv ==
    ASSUME IInv, NEW c \in Requests, Close(c)
    PROVE  IInv'
<1>1. /\ call[c].pc = "closing" /\ UNCHANGED <<id, token, stop, since>>
      /\ live' = {e \in live : e.id # id[c]}
      /\ told' = IF call[c].result # "ok" /\ ~call[c].deaf
                 THEN [told EXCEPT ![c].finished = @ + 1] ELSE told
      /\ call' = [call EXCEPT ![c].pc = "returned"]
  BY DEF Close, At, Goto, LiveWithout, TerminalOnError, outside
<1>2. /\ \A d \in Requests : d # c => call'[d] = call[d]
      /\ call'[c].pc = "returned" /\ call'[c].deaf = call[c].deaf
      /\ call'[c].attempt = call[c].attempt
  BY <1>1 DEF IInv, TypeOK
<1>3. TypeOK'
  <2> DEFINE r == [call[c] EXCEPT !.pc = "returned"]
  <2>1. call[c] \in CallRecord /\ call \in [Requests -> CallRecord]
    BY CallsAreTyped DEF IInv
  <2>2. r \in CallRecord
    BY <2>1, Members DEF CallRecord, Frames
  <2>3. call' = [call EXCEPT ![c] = r]
    BY <1>1, <2>1 DEF CallRecord
  <2>4. call' \in [Requests -> CallRecord]
    BY <2>2, <2>3, OneCallChanges DEF IInv
  <2>5. told' \in [Requests -> [finished : Nat, after : BOOLEAN]]
    BY <1>1, FinishedIsTyped DEF IInv, TypeOK
  <2>6. QED
    BY <1>1, <2>4, <2>5, RestIsTyped DEF IInv, TypeOK
<1>4. FinishedOnce'
  <2>1. /\ told[c].finished = IF call[c].result = "ok" THEN 1 ELSE 0
        /\ told[c].after = FALSE
    BY <1>1 DEF IInv, FinishedOnce
  <2>2. /\ \A d \in Requests : d # c => told'[d] = told[d]
        /\ told'[c].after = FALSE /\ told'[c].finished \in {0, 1}
        /\ ~call[c].deaf => told'[c].finished = 1
    BY <1>1, <2>1 DEF IInv, TypeOK
  <2>3. QED
    BY <1>2, <2>2 DEF IInv, FinishedOnce
<1>5. ShownIsInHand'
  BY <1>1, <1>2 DEF IInv, ShownIsInHand, InExchange, Aborted
<1>6. \A e \in live : e.call \in Requests /\ e.id = id[e.call]
  BY DEF IInv, TypeOK, EntriesAreLive
<1>7. EntriesAreLive'
  BY <1>1, <1>2, <1>6 DEF IInv, EntriesAreLive
<1>8. LiveIsExact'
  <2>1. ASSUME NEW d \in Requests, call'[d].pc \notin InExchange
        PROVE  \A e \in live' : e.call # d
    BY <1>1, <1>2, <2>1 DEF IInv, LiveIsExact, InExchange
  <2>2. ASSUME NEW d \in Requests, call'[d].pc \in InExchange,
               \A f \in Requests : id[f] = id[d] => f = d
        PROVE  [id |-> id[d], call |-> d] \in live'
    <3>1. d # c /\ call[d].pc \in InExchange
      BY <1>2, <2>2 DEF InExchange
    <3>2. [id |-> id[d], call |-> d] \in live
      BY <3>1, <2>2 DEF IInv, LiveIsExact
    <3>3. QED
      BY <1>1, <2>2, <3>1, <3>2
  <2>3. QED
    BY <1>1, <2>1, <2>2 DEF LiveIsExact
<1>9. QED
  BY <1>3, <1>4, <1>5, <1>7, <1>8 DEF IInv

-----------------------------------------------------------------------------
(* The other threads. *)

\* A cancel, from either side, and the clock: more is to be stopped, nothing moves.
LEMMA OthersIInv ==
    ASSUME IInv,
           \/ \E i \in Ids : Cancel(i)
           \/ \E c \in Requests : SetToken(c) \/ Clock(c)
    PROVE  IInv'
<1>1. /\ UNCHANGED <<id, live, told, since>>
      /\ stop \subseteq stop' /\ token \subseteq token'
      /\ stop' \subseteq Requests /\ token' \subseteq Requests
  <2>1. \A e \in live : e.call \in Requests
    BY DEF IInv, TypeOK
  <2>2. QED
    BY <2>1 DEF IInv, TypeOK, Cancel, Entries, SetToken, Clock, outside
<1>2. /\ call' \in [Requests -> CallRecord]
      /\ \A c \in Requests :
           /\ call'[c].pc = call[c].pc /\ call'[c].attempt = call[c].attempt
           /\ call'[c].deaf = call[c].deaf /\ call'[c].result = call[c].result
           /\ call'[c].reads = call[c].reads /\ call'[c].batch = call[c].batch
  <2>1. call \in [Requests -> CallRecord]
    BY CallsAreTyped DEF IInv
  <2>2. CASE call' = call
    BY <2>1, <2>2
  <2>3. CASE \E c \in Requests : call' = [call EXCEPT ![c].late = TRUE]
    <3>1. PICK c \in Requests : call' = [call EXCEPT ![c].late = TRUE]
      BY <2>3
    <3> DEFINE r == [call[c] EXCEPT !.late = TRUE]
    <3>2. r \in CallRecord
      BY <2>1 DEF CallRecord
    <3>3. call' = [call EXCEPT ![c] = r]
      BY <2>1, <3>1 DEF CallRecord
    <3>4. /\ call' \in [Requests -> CallRecord] /\ call'[c] = r
          /\ \A d \in Requests : d # c => call'[d] = call[d]
      BY <3>2, <3>3, OneCallChanges DEF IInv
    <3>5. /\ r.pc = call[c].pc /\ r.attempt = call[c].attempt /\ r.deaf = call[c].deaf
          /\ r.result = call[c].result /\ r.reads = call[c].reads
          /\ r.batch = call[c].batch
      BY <2>1 DEF CallRecord
    <3>6. QED
      BY <3>4, <3>5
  <2>4. QED
    BY <2>2, <2>3 DEF Cancel, SetToken, Clock
<1>3. told' \in [Requests -> [finished : Nat, after : BOOLEAN]]
      /\ since' \in [Requests -> SUBSET (0..MaxReads)]
  BY <1>1 DEF IInv, TypeOK
<1>4. TypeOK'
  BY <1>1, <1>2, <1>3, RestIsTyped DEF IInv, TypeOK
<1>5. FinishedOnce'
  BY <1>1, <1>2 DEF IInv, FinishedOnce
<1>6. ShownIsInHand'
  BY <1>1, <1>2 DEF IInv, ShownIsInHand, Aborted
<1>7. EntriesAreLive'
  <2>1. \A e \in live : e.call \in Requests
    BY DEF IInv, TypeOK
  <2>2. QED
    BY <1>1, <1>2, <2>1 DEF IInv, EntriesAreLive
<1>8. LiveIsExact'
  BY <1>1, <1>2 DEF IInv, LiveIsExact
<1>9. QED
  BY <1>4, <1>5, <1>6, <1>7, <1>8 DEF IInv

\* The thread or the server ends an exchange.
LEMMA EndIInv ==
    ASSUME IInv, NEW c \in Requests, GiveUp(c) \/ ServerFails(c)
    PROVE  IInv'
BY LeaveIInv DEF GiveUp, StopWaiting, ServerFails, Outcomes, InExchange, outside

-----------------------------------------------------------------------------
(* The theorems. *)

LEMMA NextIInv == IInv /\ [Next]_vars => IInv'
<1> SUFFICES ASSUME IInv, [Next]_vars PROVE IInv'
  OBVIOUS
<1>1. ASSUME NEW c \in Requests, Thread(c) PROVE IInv'
  BY <1>1, OutsideIInv, RegisterIInv, EndIInv, DecodeIInv, EmitIInv, ConcludeIInv,
     CloseIInv DEF Thread
<1>2. ASSUME NEW c \in Requests, Server(c) PROVE IInv'
  BY <1>2, SocketIInv, EndIInv DEF Server
<1>3. ASSUME UNCHANGED vars PROVE IInv'
  BY <1>3 DEF vars, IInv, TypeOK, FinishedOnce, ShownIsInHand, EntriesAreLive,
     LiveIsExact, At, Aborted
<1>4. QED
  BY <1>1, <1>2, <1>3, OthersIInv DEF Next

\* Types, ai.finished, what a stop lets through and what is live, in every reachable
\* state of the provider (openai.rs).
THEOREM ExchangeInvariant == Spec => []IInv
BY InitIInv, NextIInv, PTL DEF Spec

\* One ai.finished for every call that got to an exchange and is listened to, none
\* twice, no text after it.
THEOREM StreamIsClosed == Spec => []StreamCloses
<1>1. IInv => StreamCloses
  <2> SUFFICES ASSUME IInv, NEW c \in Requests
               PROVE  /\ told[c].finished <= 1 /\ ~told[c].after
                      /\ At(c, "returned") /\ call[c].attempt > 0 /\ ~call[c].deaf
                           => told[c].finished = 1
    BY DEF StreamCloses
  <2>1. told[c].finished \in {0, 1} /\ told[c].after = FALSE
    BY DEF IInv, FinishedOnce
  <2>2. QED
    BY <2>1 DEF IInv, FinishedOnce, At
<1>2. QED
  BY <1>1, ExchangeInvariant, PTL

\* At most the read in hand is shown after a stop.
THEOREM StopIsPrompt == Spec => []CancelIsPrompt
<1>1. IInv => CancelIsPrompt
  <2> SUFFICES ASSUME IInv, NEW c \in Requests PROVE Cardinality(since[c]) <= 1
    BY DEF CancelIsPrompt
  <2>1. PICK k \in 0 .. MaxReads : since[c] \subseteq {k}
    BY DEF IInv, ShownIsInHand
  <2>2. since[c] = {} \/ since[c] = {k}
    BY <2>1
  <2>3. Cardinality({}) = 0 /\ Cardinality({k}) = 1
    BY FS_EmptySet, FS_Singleton
  <2>4. QED
    BY <2>2, <2>3
<1>2. QED
  BY <1>1, ExchangeInvariant, PTL

\* What cancel finds is what runs.
THEOREM LiveAreFound == Spec => []LiveIsExact
<1>1. IInv => LiveIsExact
  BY DEF IInv
<1>2. QED
  BY <1>1, ExchangeInvariant, PTL

=============================================================================
