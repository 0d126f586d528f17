------------------------------ MODULE Framing ------------------------------
(***************************************************************************)
(* Incremental decoders fed by a stream that is cut at arbitrary places:   *)
(* the event stream of an AI provider (sse.rs), the bodies of HTTP answers *)
(* (http.rs) and the messages of a debug adapter (framing.rs).             *)
(*                                                                         *)
(* A symbol is a byte where the byte matters ("CR", "LF") and a text where *)
(* it does not: "data" and "done" are whole data lines of an event,        *)
(* "note" a line of another field, a digit a length, "b" a byte of a body. *)
(***************************************************************************)
EXTENDS Naturals, Sequences, SequencesExt

CONSTANTS
    Blocks,     \* event streams: sequences of blocks of lines
    Bodies      \* messages and chunks: sequences of bodies

VARIABLE job

Length == [d \in {"0", "1", "2", "3"} |-> CHOOSE n \in 0..3 : ToString(n) = d]

-----------------------------------------------------------------------------
(* What the peers write. *)

Line(text, end) == <<text>> \o end
EncodeBlock(lines, end) == FlattenSeq([i \in DOMAIN lines |-> Line(lines[i], end)]) \o end
EncodeEvents(blocks, end) == FlattenSeq([i \in DOMAIN blocks |-> EncodeBlock(blocks[i], end)])

\* encode_frame: the length counts the bytes of the body.
encode_frame(body, end) == <<"length", ToString(Len(body))>> \o end \o end \o body
EncodeMessages(bodies, end) ==
    FlattenSeq([i \in DOMAIN bodies |-> encode_frame(bodies[i], end)])

CRLF == <<"CR", "LF">>
EncodeChunks(bodies) ==
    FlattenSeq([i \in DOMAIN bodies |->
                  <<ToString(Len(bodies[i]))>> \o CRLF \o bodies[i] \o CRLF])
      \o <<"0">> \o CRLF \o CRLF

-----------------------------------------------------------------------------
(* The decoders.  Each looks at the buffer and takes one item from its front: *)
(* [item, rest], or says why it cannot.                                       *)

Nothing == [is |-> "more", item |-> <<>>, rest |-> <<>>]
Failed == [is |-> "error", item |-> <<>>, rest |-> <<>>]
Take(item, buffer, used) ==
    [is |-> "item", item |-> item, rest |-> SubSeq(buffer, used + 1, Len(buffer))]
At(buffer, i, symbols) ==
    i + Len(symbols) - 1 <= Len(buffer) /\ SubSeq(buffer, i, i + Len(symbols) - 1) = symbols

\* find_frame_end: where the first blank line starts, and its length.
BlankLines == {<<"LF", "LF">>, <<"LF", "CR", "LF">>, <<"CR", "LF", "CR", "LF">>, <<"CR", "CR">>}
BlanksAt(buffer, i) == {blank \in BlankLines : At(buffer, i, blank)}
FrameEnds(buffer) == {i \in DOMAIN buffer : BlanksAt(buffer, i) # {}}
First(positions) == CHOOSE i \in positions : \A j \in positions : i <= j

\* decode_frame of sse.rs: the data lines of a frame, or nothing.  Lines end at LF.
LineStarts(frame) == {1} \cup {i + 1 : i \in {k \in DOMAIN frame : frame[k] = "LF"}}
DataLines(frame) ==
    LET starts == SelectSeq([i \in DOMAIN frame |-> i],
                            LAMBDA i : i \in LineStarts(frame) /\ frame[i] \in {"data", "done"})
    IN  [k \in DOMAIN starts |-> frame[starts[k]]]

Event(lines) == IF lines = <<>> THEN <<>> ELSE <<lines>>
Closing == {<<<<"done">>>>, <<<<"last">>>>}    \* nothing is read after one of these

PushEager(buffer) ==    \* mutant
    IF buffer = <<>> THEN Nothing ELSE Take(Event(DataLines(buffer)), buffer, Len(buffer))
PushSse(buffer) ==
    IF FrameEnds(buffer) = {} THEN Nothing
    ELSE LET i == First(FrameEnds(buffer))
             blank == CHOOSE b \in BlanksAt(buffer, i) : TRUE
         IN  Take(Event(DataLines(SubSeq(buffer, 1, i - 1))), buffer, i + Len(blank) - 1)

\* decode_frame of framing.rs.
Terminators == {<<"LF", "LF">>, <<"LF", "CR", "LF">>}
HeaderEnds(buffer) == {i \in DOMAIN buffer : \E t \in Terminators : At(buffer, i, t)}
DecodeMessage(buffer) ==
    IF HeaderEnds(buffer) = {} THEN Nothing
    ELSE LET i == First(HeaderEnds(buffer))
             body == i + Len(CHOOSE t \in Terminators : At(buffer, i, t))
             names == {k \in 1..(i - 1) : buffer[k] = "length"}
         IN  IF names = {} THEN Failed
             ELSE LET n == Length[buffer[First(names) + 1]]
                  IN  IF Len(buffer) < body + n - 1 THEN Nothing
                      ELSE Take(<<SubSeq(buffer, body, body + n - 1)>>, buffer, body + n - 1)

\* decode_chunked, from the start of a chunk.  The chunk of length 0 is the last.
NoTrailer(buffer, n) == Len(buffer) >= n + 3    \* mutant
ChunkIsWhole(buffer, n) == Len(buffer) >= n + 5
DecodeChunk(buffer) ==
    LET ends == {i \in DOMAIN buffer : At(buffer, i, CRLF)}
    IN  IF ends = {} THEN Nothing
        ELSE IF First(ends) # 2 \/ buffer[1] \notin DOMAIN Length THEN Failed
        ELSE LET n == Length[buffer[1]]
             IN  IF n = 0 THEN Take(<<<<"last">>>>, buffer, 3)
                 ELSE IF ~ChunkIsWhole(buffer, n) THEN Nothing
                 ELSE Take(<<SubSeq(buffer, 4, n + 3)>>, buffer, n + 5)

Decode(codec, buffer) ==
    CASE codec = "sse" -> PushSse(buffer)
      [] codec = "dap" -> DecodeMessage(buffer)
      [] codec = "chunked" -> DecodeChunk(buffer)

-----------------------------------------------------------------------------
Feed(codec, source, stream, cut) ==
    [kind |-> "feed", codec |-> codec, source |-> source, sent |-> SubSeq(stream, 1, cut),
     whole |-> cut = Len(stream), fed |-> 0, buffer |-> <<>>, out |-> <<>>, state |-> "open"]

Init ==
    \/ \E blocks \in Blocks, end \in {<<"LF">>, CRLF, <<"CR">>} :
         LET stream == EncodeEvents(blocks, end)
         IN  /\ end = <<"CR">> => \A i \in DOMAIN blocks : Len(blocks[i]) = 1
             /\ \E cut \in {Len(stream) - Len(end), Len(stream)} :
                  job = Feed("sse", blocks, stream, cut)
    \/ \E bodies \in Bodies, end \in {<<"LF">>, CRLF} :
         LET stream == EncodeMessages(bodies, end)
         IN  \E cut \in 0..Len(stream) : job = Feed("dap", bodies, stream, cut)
    \/ \E bodies \in Bodies :
         LET stream == EncodeChunks(bodies)
         IN  /\ \A i \in DOMAIN bodies : bodies[i] # <<>>
             /\ \E cut \in 0..Len(stream) : job = Feed("chunked", bodies, stream, cut)

Answer == Decode(job.codec, job.buffer)

\* One item, as the loops of push, next_body and read_response_with take it.
TakeItem ==
    /\ job.kind = "feed" /\ job.state = "open" /\ Answer.is # "more"
    /\ job' = IF Answer.is = "error" THEN [job EXCEPT !.state = "error"]
              ELSE [job EXCEPT !.out = @ \o Answer.item,
                               !.buffer = IF Answer.item \in Closing THEN <<>> ELSE Answer.rest,
                               !.state = IF Answer.item \in Closing THEN "complete" ELSE @]

\* A read of the socket or the pipe: any number of bytes.
Read ==
    /\ job.kind = "feed" /\ job.state = "open" /\ Answer.is = "more"
    /\ \E n \in (job.fed + 1)..Len(job.sent) :
         job' = [job EXCEPT !.fed = n,
                            !.buffer = @ \o SubSeq(job.sent, job.fed + 1, n)]

\* The end of the stream: finish() decodes what is left of the events, a message may
\* not be cut, and of a chunked body the whole chunks are kept.
Eof ==
    /\ job.kind = "feed" /\ job.state = "open" /\ Answer.is = "more"
    /\ job.fed = Len(job.sent)
    /\ job' = CASE job.codec = "sse" ->
                     [job EXCEPT !.state = "complete", !.buffer = <<>>,
                                 !.out = @ \o Event(DataLines(job.buffer))]
                [] job.codec = "dap" ->
                     [job EXCEPT !.state = IF job.buffer = <<>> THEN "complete"
                                           ELSE "truncated"]
                [] OTHER -> [job EXCEPT !.state = "truncated"]

Next == TakeItem \/ Read \/ Eof

Spec == Init /\ [][Next]_job

-----------------------------------------------------------------------------
(* Properties. *)

\* The events of the blocks as they were meant: nothing after [DONE].
EventsOf(blocks) ==
    LET events == FlattenSeq([i \in DOMAIN blocks |->
                     Event(SelectSeq(blocks[i], LAMBDA text : text # "note"))])
        ends == {i \in DOMAIN events : events[i] = <<"done">>}
    IN  IF ends = {} THEN events ELSE SubSeq(events, 1, First(ends))

\* Wherever the stream is cut into reads, exactly what was written comes out, in
\* order; of a stream that ends early, the items that were whole.
DecodedAsWritten ==
    job.kind = "feed" =>
        /\ job.state # "error"
        /\ job.codec = "sse" =>
             /\ IsPrefix(job.out, EventsOf(job.source))
             /\ job.state = "complete" => job.out = EventsOf(job.source)
        /\ job.codec = "dap" =>
             /\ IsPrefix(job.out, job.source)
             /\ job.state = "complete" =>
                  job.sent \in {EncodeMessages(job.out, end) : end \in {<<"LF">>, CRLF}}
             /\ job.whole => job.state # "truncated"
        /\ job.codec = "chunked" =>
             /\ IsPrefix(job.out, Append(job.source, <<"last">>))
             /\ job.whole /\ job.state # "open" => job.state = "complete"

=============================================================================
