---------------------------- MODULE HttpMessage -----------------------------
(***************************************************************************)
(* HttpHeaderBase, HttpRequest and HttpResponse                            *)
(* (src/src/HttpHeaderBase.cpp, HttpRequest.cpp,                           *)
(* HttpResponse.cpp): fields, the text they are sent as, and the parsers   *)
(* of that text.  A text is a sequence of tokens: the bytes that the       *)
(* parsers tell apart, and words of which they tell no more than whether   *)
(* they are equal.  Sizes are counted in tokens.  A URI is [path, query]:  *)
(* its scheme, authority and fragment are never written.                   *)
(***************************************************************************)
EXTENDS Integers, Sequences, SequencesExt

CONSTANTS
    FieldName,      \* names in the FieldMap
    FieldData,      \* what a field may hold: sequences of tokens
    Method, Uri_,   \* methods and URIs
    StatusCode,     \* words that strtol reads as a status code
    MAX_METHOD_SIZE, MAX_URI_SIZE, MAX_PROTO_SIZE,  \* what a request line may hold
    kMaxFields      \* length of mFields

ASSUME HttpMessageAssumption ==
    /\ {kMaxFields, MAX_METHOD_SIZE, MAX_URI_SIZE, MAX_PROTO_SIZE} \subseteq Nat
    /\ \A u \in Uri_ : DOMAIN u = {"path", "query"}

VARIABLES
    mMethod, mUri,  \* HttpRequest
    mFields,        \* the first mNumFields fields: [type, data]
    mHeaderStr,     \* the text built, empty when it is to be built
    outdated        \* history: removeField, setMethod or setURI was called since

msgVars == <<mMethod, mUri, mFields, mHeaderStr, outdated>>

CR == "\r"
LF == "\n"
SP == " "
Blank == {" ", "\t"}
-----------------------------------------------------------------------------
\* The parsers.  A buffer is the sequence of bytes not yet read.

\* CircularBuffer::byteAt, from 1: no byte past the end.
ByteOf(b, i) == IF i \in 1..Len(b) THEN b[i] ELSE "none"

\* The first place from i on with one of these bytes, or none of them.
Seek(b, i, bytes) ==
    LET at == {j \in i..Len(b) : b[j] \in bytes}
    IN  IF at = {} THEN Len(b) + 1 ELSE CHOOSE j \in at : \A k \in at : j <= k
SeekNot(b, i, bytes) ==
    LET at == {j \in i..Len(b) : b[j] \notin bytes}
    IN  IF at = {} THEN Len(b) + 1 ELSE CHOOSE j \in at : \A k \in at : j <= k

\* A pass over a buffer: op(acc, i) for every i until acc.length is known.
Indices(b) == [i \in 1..Len(b) |-> i]

kEOH == 0

\* searchForLine: the length of the first line with its continuations, kEOH
\* for the empty line, -1 without a line.
SearchForLine(b) ==
    FoldLeft(LAMBDA a, i :
                IF a.length # -1 THEN a
                ELSE IF ~a.haveCR THEN [a EXCEPT !.haveCR = b[i] = CR]
                ELSE IF b[i] # LF THEN [a EXCEPT !.haveCR = FALSE]
                ELSE IF i = 2 THEN [a EXCEPT !.length = kEOH]
                ELSE IF ByteOf(b, i + 1) \in Blank THEN [a EXCEPT !.haveCR = FALSE]
                ELSE [a EXCEPT !.length = i],
             [haveCR |-> FALSE, length |-> -1], Indices(b)).length

\* parseLine: the automaton over a field's line; a continuation counts as one
\* space.  length is -1 when the buffer ends before the line does.
ParseLine(b) ==
    FoldLeft(LAMBDA a, i :
                LET ends == b[i] = CR /\ ByteOf(b, i + 1) = LF
                IN  IF a.length # -1 THEN a
                    ELSE CASE a.state = "ParseField" ->
                                IF b[i] = ":" THEN [a EXCEPT !.state = "SkipWS"]
                                ELSE [a EXCEPT !.field = Append(@, b[i])]
                           [] a.state = "ParseData" ->
                                IF ends THEN [a EXCEPT !.state = "ParseCRLF", !.appendSpace = TRUE]
                                ELSE [a EXCEPT !.data = Append(@, b[i])]
                           [] a.state = "ParseCRLF" ->
                                IF b[i] # LF THEN a
                                ELSE IF ByteOf(b, i + 1) \in Blank THEN [a EXCEPT !.state = "SkipWS"]
                                ELSE [a EXCEPT !.length = i]
                           [] a.state = "SkipWS" ->
                                IF ends THEN [a EXCEPT !.state = "ParseCRLF"]
                                ELSE IF b[i] \in Blank THEN a
                                ELSE [a EXCEPT !.state = "ParseData", !.appendSpace = FALSE,
                                               !.data = @ \o (IF a.appendSpace THEN <<SP>> ELSE <<>>) \o <<b[i]>>],
             [state |-> "ParseField", field |-> <<>>, data |-> <<>>, appendSpace |-> FALSE, length |-> -1],
             Indices(b))

\* The end of a line's field: it is kept when a FieldMap knows its name.
FieldsAfter(fields, line) ==
    IF Len(line.field) = 1 /\ line.field[1] \in FieldName
    THEN Append(fields, [type |-> line.field[1], data |-> line.data])
    ELSE fields

\* HttpResponse::parseFirstLine, of a response whose code is so far old:
\* protocol, blanks, code, blanks, text, end of the line.  The code is set when
\* a blank follows it, to 0 when it is no number, which ends the parsing; after
\* a 100 the empty line is taken as well, if it has arrived; a buffer that
\* begins with an empty line has just that taken.  The length is -1 for a line
\* that cannot be parsed and when the buffer ends before the line does.
ParseResponseLine(b, old) ==
    LET code == SeekNot(b, Seek(b, 1, {SP}), {SP})
        after == Seek(b, code, {SP})
        word == IF ByteOf(b, code) \in StatusCode THEN b[code] ELSE "0"
        text == Seek(b, after, {CR, LF})
        end == IF ByteOf(b, text + 1) = LF THEN text + 1 ELSE text
        blankLine(i) == ByteOf(b, i) = CR /\ ByteOf(b, i + 1) = LF
    IN  CASE Len(b) <= 1 -> [code |-> old, length |-> -1]
          [] blankLine(1) -> [code |-> old, length |-> 2]
          [] OTHER ->
                [code |-> IF after > Len(b) THEN old ELSE word,
                 length |-> IF text > Len(b) \/ word = "0" THEN -1
                            ELSE IF word = "100" /\ blankLine(end + 1) THEN end + 2 ELSE end]

\* HttpRequest::parseFirstLine: method, blanks, URI, one blank, protocol, end
\* of the line; an unknown method is kept as unknown.  A part that reaches its
\* limit makes the line one that cannot be parsed.
ParseRequestLine(b) ==
    LET blank == Seek(b, 1, {SP})
        uri == SeekNot(b, blank + 1, {SP})
        after == Seek(b, uri, {SP})
        end == Seek(b, after + 1, {CR})
        long == \/ blank - 1 >= MAX_METHOD_SIZE
                \/ after - uri >= MAX_URI_SIZE
                \/ end - after - 1 >= MAX_PROTO_SIZE
    IN  IF end > Len(b) \/ long THEN [method |-> "none", uri |-> <<>>, length |-> -1]
        ELSE [method |-> IF blank = 2 /\ b[1] \in Method THEN b[1] ELSE "unknown",
              uri |-> SubSeq(b, uri, after - 1),
              length |-> IF ByteOf(b, end + 1) = LF THEN end + 1 ELSE end]

\* A whole header: lines are taken while searchForLine finds one.
RECURSIVE TakeLines(_, _)
TakeLines(b, fields) ==
    LET line == ParseLine(b)
    IN  IF SearchForLine(b) <= 0 \/ line.length < 0 THEN [rest |-> b, fields |-> fields]
        ELSE TakeLines(SubSeq(b, line.length + 1, Len(b)), FieldsAfter(fields, line))
-----------------------------------------------------------------------------
\* The text.

\* What is written of a URI: the path, which may be empty, and the query if
\* there is one.
PathAndQuery(u) == u.path \o (IF u.query = <<>> THEN <<>> ELSE <<"?">> \o u.query)

\* buildFirstLine of a request.
RequestLine == <<mMethod, SP>> \o PathAndQuery(mUri) \o <<SP, "HTTP/1.1", CR, LF>>

\* Mutant of BuildHeader: no blank line at the end of a field.
BuildHeaderRunsOn(fields) ==
    RequestLine \o FlattenSeq([i \in 1..Len(fields) |-> <<fields[i].type, ":", SP>> \o fields[i].data]) \o <<CR, LF>>

\* buildHeader: the first line, a line per field, the empty line.
BuildHeader(fields) ==
    RequestLine
      \o FlattenSeq([i \in 1..Len(fields) |-> <<fields[i].type, ":", SP>> \o fields[i].data \o <<CR, LF>>])
      \o <<CR, LF>>

\* HttpRequest(uri, type): with a Host and a Date field.
MessageInit ==
    /\ mMethod \in Method /\ mUri \in Uri_
    /\ mFields = <<[type |-> "Host", data |-> <<"v">>], [type |-> "Date", data |-> <<"v">>]>>
    /\ mHeaderStr = <<>> /\ outdated = FALSE

\* addField and its numeric forms: refused when mFields is full; the text is
\* to be built again.
AddField(type, data) ==
    /\ Len(mFields) < kMaxFields
    /\ mFields' = Append(mFields, [type |-> type, data |-> data])
    /\ mHeaderStr' = <<>> /\ outdated' = FALSE
    /\ UNCHANGED <<mMethod, mUri>>

\* removeField: the first of this type; the text stays as built.
RemoveField(type) ==
    LET at == {i \in 1..Len(mFields) : mFields[i].type = type}
    IN  /\ at # {}
        /\ mFields' = RemoveAt(mFields, CHOOSE i \in at : \A j \in at : i <= j)
        /\ outdated' = (mHeaderStr # <<>>)
        /\ UNCHANGED <<mMethod, mUri, mHeaderStr>>

\* setMethod and setURI; the text stays as built.
SetRequest ==
    /\ mMethod' \in Method /\ mUri' \in Uri_
    /\ outdated' = (mHeaderStr # <<>>)
    /\ UNCHANGED <<mFields, mHeaderStr>>

\* send, sendto, getHeader and printHeader: the text is built when there is none.
SendHeader ==
    /\ mHeaderStr' = IF mHeaderStr = <<>> THEN BuildHeader(mFields) ELSE mHeaderStr
    /\ UNCHANGED <<mMethod, mUri, mFields, outdated>>

MessageNext ==
    \/ \E type \in FieldName, data \in FieldData : AddField(type, data)
    \/ \E type \in FieldName : RemoveField(type)
    \/ SetRequest \/ SendHeader

\* A text that is sent parses back, by the parsers of this library, to the
\* request it was built from: method, path and query, and every field in order,
\* with nothing left over but the empty line.  Not when a field was removed or
\* the method or URI set after the text was built, which the text does not
\* show; and for a URI with a path, shorter than the parser's limit: an empty
\* path leaves no URI in the first line, and the parser takes the protocol for
\* one.
TextParsesBack ==
    mHeaderStr # <<>> /\ ~outdated /\ mUri.path # <<>> /\ Len(PathAndQuery(mUri)) < MAX_URI_SIZE =>
        LET first == ParseRequestLine(mHeaderStr)
            lines == TakeLines(SubSeq(mHeaderStr, first.length + 1, Len(mHeaderStr)), <<>>)
        IN  /\ first.length > 0 /\ first.method = mMethod /\ first.uri = PathAndQuery(mUri)
            /\ lines.fields = mFields
            /\ SearchForLine(lines.rest) = kEOH /\ Len(lines.rest) = 2
=============================================================================
