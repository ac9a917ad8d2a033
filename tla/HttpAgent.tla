----------------------------- MODULE HttpAgent ------------------------------
(***************************************************************************)
(* HttpAgent::sendAndGet (src/src/HttpAgent.cpp) with a FileBodyHandler    *)
(* (src/include/HttpAgent.h): one blocking exchange over a socket.  The    *)
(* network cuts the reply into segments as it likes, and any read may run  *)
(* into the five-second timeout.  mBuffer is the CircularBuffer: getBytes  *)
(* gives only what lies before its end.                                    *)
(***************************************************************************)
EXTENDS HttpMessage

CONSTANTS
    Reply,              \* what the server may send: [text, body]
    kMaxMessageSize,    \* mBuffer's size
    Number,             \* words that strtol reads, and their values
    MaxGets             \* bound: calls of get on one agent

ASSUME HttpAgentAssumption ==
    /\ kMaxMessageSize \in Nat \ {0}
    /\ \A r \in Reply : Len(r.body) < Len(r.text)
    /\ \A w \in DOMAIN Number : Number[w] \in Nat
    /\ MaxGets \in Nat

VARIABLES
    reply, stream,      \* the server's reply, and what has not been read of it
    mBuffer, rd,        \* the buffered bytes, and where in the buffer they begin
    response,           \* HttpResponse: [mResponseCode, mFields]
    at,                 \* where sendAndGet is
    firstLine, length, ret, err,    \* its locals
    written,            \* the bytes the handler has written to its file
    result,             \* what get returned
    connected, gets,    \* mSock's connection, and calls so far
    split, cut          \* history: data lay across the buffer's end; a read of handleSocket failed

agentHttpVars == <<reply, stream, mBuffer, rd, response, at, firstLine, length, ret, err,
                   written, result, connected, gets, split, cut>>

HttpInit ==
    /\ reply \in Reply /\ stream = <<>>
    /\ mBuffer = <<>> /\ rd = 0
    /\ response = [mResponseCode |-> "200", mFields |-> <<>>]
    /\ at = "idle" /\ firstLine = TRUE /\ length = 0 /\ ret = "none" /\ err = "none"
    /\ written = <<>> /\ result = "none"
    /\ connected = FALSE /\ gets = 0 /\ split = FALSE /\ cut = FALSE
-----------------------------------------------------------------------------
Least(a, b) == IF a < b THEN a ELSE b

Drop(b, n) == SubSeq(b, n + 1, Len(b))

\* The bytes getBytes( 0 ) gives: up to the end of the buffer.
Contiguous(b, r) == Least(Len(b), kMaxMessageSize - r)

Skip(r, n) == (r + n) % kMaxMessageSize

\* What fillFromFile may read: the free space, but not across the end.
FillRoom ==
    LET w == rd + Len(mBuffer)
    IN  IF w < kMaxMessageSize THEN kMaxMessageSize - w ELSE kMaxMessageSize - Len(mBuffer)

\* mBuffer.fillFromFile: the next segment.
Fill(n) ==
    /\ n \in 1..Least(FillRoom, Len(stream))
    /\ mBuffer' = mBuffer \o SubSeq(stream, 1, n)
    /\ stream' = Drop(stream, n)

\* Mutant of StripCRLF: the LF stays.
StripCR(b) == IF ByteOf(b, 1) = CR THEN Drop(b, 1) ELSE b

\* Strips the CR and the LF that end a chunk.
StripCRLF(b) ==
    LET c == IF ByteOf(b, 1) = CR THEN Drop(b, 1) ELSE b
    IN  IF ByteOf(c, 1) = LF THEN Drop(c, 1) ELSE c

\* parseChunkLine: the bytes of the line, -1 when it is not complete, and
\* the number before its CR or ';'.
ParseChunkLine(b) ==
    LET word == Seek(b, 1, {";", CR})
        end == Seek(b, word, {CR})
    IN  [read |-> IF end > Len(b) \/ ByteOf(b, end + 1) # LF THEN -1 ELSE end + 1,
         length |-> IF word > 1 /\ ByteOf(b, 1) \in DOMAIN Number THEN Number[b[1]] ELSE 0]

\* getField: the first field of this type.
FieldOf(type) == {i \in 1..Len(response.mFields) : response.mFields[i].type = type}
DataOf(type) == response.mFields[CHOOSE i \in FieldOf(type) : \A j \in FieldOf(type) : i <= j].data
-----------------------------------------------------------------------------
Return(r) ==
    /\ at' = "done" /\ result' = r
    /\ UNCHANGED <<reply, stream, mBuffer, rd, response, firstLine, length, ret, err, written, connected, gets, split, cut>>

\* get: the connect fails, always so on a socket that is connected already
\* (mSock is never closed); or it succeeds, the request is sent, and the
\* buffer is cleared.
ConnectFails ==
    /\ at \in {"idle", "done"} /\ gets < MaxGets
    /\ gets' = gets + 1 /\ at' = "done" /\ result' = "kConnectionFailed"
    /\ response' = [response EXCEPT !.mResponseCode = "-1"]
    /\ UNCHANGED <<reply, stream, mBuffer, rd, firstLine, length, ret, err, written, connected, split, cut>>

ConnectAndSend ==
    /\ at \in {"idle", "done"} /\ gets < MaxGets /\ ~connected
    /\ gets' = gets + 1 /\ connected' = TRUE
    /\ \/ at' = "fill" /\ stream' = reply.text /\ result' = "none"
       \/ at' = "done" /\ result' = "kWriteFailed" /\ UNCHANGED stream
    /\ mBuffer' = <<>> /\ rd' = 0 /\ firstLine' = TRUE
    /\ UNCHANGED <<reply, response, length, ret, err, written, split, cut>>

\* The header loop reads a segment; a failed read or the end of the stream
\* ends the exchange.
FillHeader ==
    /\ at = "fill"
    /\ \/ /\ \E n \in 1..kMaxMessageSize : Fill(n)
          /\ at' = "lines"
          /\ UNCHANGED <<reply, rd, response, firstLine, length, ret, err, written, result, connected, gets, split, cut>>
       \/ Return("kReadFailed")

\* A line is parsed and taken from the buffer, while searchForLine finds one.
\* A line that cannot be parsed stays, and is parsed again as a field; one that
\* is no field either makes the loop spin.  Only the very first line is taken
\* for a status line, also after a 100, whose empty line, if it comes later,
\* then ends the header.
TakeLine ==
    /\ at = "lines" /\ SearchForLine(mBuffer) > 0
    /\ LET first == ParseResponseLine(mBuffer, response.mResponseCode)
           line == ParseLine(mBuffer)
           n == IF firstLine THEN first.length ELSE line.length
       IN  /\ response' = IF firstLine THEN [response EXCEPT !.mResponseCode = first.code]
                          ELSE [response EXCEPT !.mFields = FieldsAfter(@, line)]
           /\ mBuffer' = IF n < 0 THEN mBuffer ELSE Drop(mBuffer, n)
           /\ rd' = IF n < 0 THEN rd ELSE Skip(rd, n)
    /\ firstLine' = FALSE
    /\ UNCHANGED <<reply, stream, at, length, ret, err, written, result, connected, gets, split, cut>>

NoLineYet ==
    /\ at = "lines" /\ SearchForLine(mBuffer) < 0
    /\ at' = "fill"
    /\ UNCHANGED <<reply, stream, mBuffer, rd, response, firstLine, length, ret, err, written, result, connected, gets, split, cut>>

\* The empty line: ret becomes the response code, and the body is read by its
\* length, in chunks, or not at all.
EndOfHeader ==
    /\ at = "lines" /\ SearchForLine(mBuffer) = kEOH
    /\ mBuffer' = Drop(mBuffer, 2) /\ rd' = Skip(rd, 2)
    /\ ret' = response.mResponseCode
    /\ LET counted == FieldOf("Content-Length") # {}
           word == DataOf("Content-Length")[1]
       IN  /\ length' = IF counted /\ word \in DOMAIN Number THEN Number[word] ELSE 0
           /\ err' = IF counted THEN "kNoError" ELSE "kNotFound"
           /\ at' = IF counted THEN "counted"
                    ELSE IF FieldOf("Transfer-Encoding") # {} /\ DataOf("Transfer-Encoding") = <<"chunked">>
                    THEN "chunkline" ELSE "end"
    /\ UNCHANGED <<reply, stream, response, firstLine, written, result, connected, gets, split, cut>>

\* What the buffer holds of the body, or of the chunk, goes to handleData.
HandleData ==
    /\ at \in {"counted", "chunk"} /\ length > 0
    /\ LET n == Least(Contiguous(mBuffer, rd), length)
       IN  /\ written' = written \o SubSeq(mBuffer, 1, n)
           /\ mBuffer' = Drop(mBuffer, n) /\ rd' = Skip(rd, n)
           /\ length' = length - n
           /\ at' = IF length = n THEN (IF at = "counted" THEN "end" ELSE "nextchunk")
                    ELSE IF at = "counted" THEN "countedsocket" ELSE "chunksocket"
           /\ split' = (split \/ (n < length /\ n < Len(mBuffer)))
    /\ UNCHANGED <<reply, stream, response, firstLine, ret, err, result, connected, gets, cut>>

\* A length of 0 leaves both loops; the last chunk ends the body.
NothingToHandle ==
    /\ at \in {"counted", "chunk"} /\ length = 0
    /\ at' = "end"
    /\ err' = IF at = "chunk" THEN "kNoError" ELSE err
    /\ UNCHANGED <<reply, stream, mBuffer, rd, response, firstLine, length, ret, written, result, connected, gets, split, cut>>

\* handleSocket reads the rest from the socket and returns how much it got;
\* a read that fails ends it early.  ret takes the number of bytes.
HandleSocket ==
    /\ at \in {"countedsocket", "chunksocket"}
    /\ \E n \in 0..Least(length, Len(stream)) :
        /\ written' = written \o SubSeq(stream, 1, n)
        /\ stream' = Drop(stream, n)
        /\ ret' = "bytes"
        /\ cut' = (cut \/ n < length)
        /\ length' = 0
        /\ at' = IF at = "countedsocket" THEN "end" ELSE IF n = 0 THEN "done" ELSE "nextchunk"
        /\ result' = IF at = "chunksocket" /\ n = 0 THEN "kNoError" ELSE result
    /\ UNCHANGED <<reply, mBuffer, rd, response, firstLine, err, connected, gets, split>>

\* After a chunk, and while a chunk's line is not complete: another segment
\* (or none, at the end of the stream or with a full buffer), then the CRLF
\* at the front is dropped.
FillChunk ==
    /\ \/ at = "nextchunk"
       \/ at = "chunkline" /\ ParseChunkLine(mBuffer).read < 0
    /\ \/ /\ \/ \E n \in 1..kMaxMessageSize :
                    /\ n \in 1..Least(FillRoom, Len(stream))
                    /\ LET b == mBuffer \o SubSeq(stream, 1, n)
                       IN  mBuffer' = StripCRLF(b) /\ rd' = Skip(rd, Len(b) - Len(StripCRLF(b)))
                    /\ stream' = Drop(stream, n)
             \/ /\ stream = <<>> \/ Len(mBuffer) = kMaxMessageSize
                /\ mBuffer' = StripCRLF(mBuffer) /\ rd' = Skip(rd, Len(mBuffer) - Len(StripCRLF(mBuffer)))
                /\ UNCHANGED stream
          /\ ret' = "bytes" /\ at' = "chunkline"
          /\ UNCHANGED <<reply, response, firstLine, length, err, written, result, connected, gets, split, cut>>
       \/ Return("kReadFailed")

TakeChunkLine ==
    /\ at = "chunkline" /\ ParseChunkLine(mBuffer).read > 0
    /\ LET line == ParseChunkLine(mBuffer)
       IN  /\ length' = line.length
           /\ mBuffer' = Drop(mBuffer, line.read) /\ rd' = Skip(rd, line.read)
    /\ at' = "chunk"
    /\ UNCHANGED <<reply, stream, response, firstLine, ret, err, written, result, connected, gets, split, cut>>

\* ret decides, which by then may be a number of bytes.
EndOfExchange ==
    /\ at = "end"
    /\ Return(IF ret \in {"200", "206"} THEN err ELSE "kNotFound")

HttpNext ==
    \/ ConnectFails \/ ConnectAndSend \/ FillHeader \/ TakeLine \/ NoLineYet \/ EndOfHeader
    \/ HandleData \/ NothingToHandle \/ HandleSocket \/ FillChunk \/ TakeChunkLine \/ EndOfExchange

\* The handler is given the body and nothing else, each byte once and in
\* order, however the reply was cut into segments, and all of it unless the
\* exchange is reported as failed; except after a chunk that lay across the
\* end of the buffer, whose second part is read from the socket instead, and
\* after a read of handleSocket that failed, which counts as complete.
BodyIsWhole ==
    ~split /\ ~cut =>
        /\ IsPrefix(written, reply.body)
        /\ result \in {"kNoError", "kNotFound"} /\ err = "kNoError" => written = reply.body

\* HttpClientTest fails when get() does not return kNoError for a response of
\* 200 or 206: a successful reply whose body was written whole is reported so.
SuccessIsReported ==
    result \in {"kNoError", "kNotFound"} /\ response.mResponseCode \in {"200", "206"}
        /\ err = "kNoError" /\ written = reply.body
        => result = "kNoError"
=============================================================================
