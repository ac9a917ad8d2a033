------------------------------ MODULE ByteFifo ------------------------------
(***************************************************************************)
(* What a CircularBuffer promises: a queue of at most N bytes.  Writes     *)
(* append what fits, or push the oldest bytes out; reads take from the     *)
(* front exactly what was written, in order.                               *)
(***************************************************************************)
EXTENDS Integers, Sequences

CONSTANTS
    Byte, N,
    Chunks,       \* the byte sequences that are written
    Terminal      \* what ends a line

VARIABLES
    data,         \* the queue
    io            \* what the last call was given, asked for and returned

fvars == <<data, io>>

Least(a, b) == IF a <= b THEN a ELSE b

\* The last n bytes of s.
Suffix(s, n) == SubSeq(s, Len(s) - Least(n, Len(s)) + 1, Len(s))

Call(given, asked, got) == [given |-> given, asked |-> asked, got |-> got]

Init == data = <<>> /\ io = Call(<<>>, 0, <<>>)

\* write, writeByte, fillFromFile: append as much of q as fits.
Put(q) ==
    /\ data' = data \o SubSeq(q, 1, Least(Len(q), N - Len(data)))
    /\ io' = Call(q, 0, <<>>)

\* write_overflow: append all of q, keep the newest N bytes.
PutOver(q) ==
    /\ data' = Suffix(data \o q, N)
    /\ io' = Call(q, 0, <<>>)

\* read( buffer, n ): with buffer NULL nothing is returned.
Get(n, copied) ==
    /\ data' = SubSeq(data, Least(n, Len(data)) + 1, Len(data))
    /\ io' = Call(<<>>, n, IF copied THEN SubSeq(data, 1, Least(n, Len(data))) ELSE <<>>)

\* copy( buffer, n )
Peek(n) ==
    /\ io' = Call(<<>>, n, SubSeq(data, 1, Least(n, Len(data))))
    /\ UNCHANGED data

Clear == data' = <<>> /\ io' = Call(<<>>, 0, <<>>)

\* The first n bytes are a line with its terminal, or n is 0.
IsLine(n) ==
    \/ n = 0
    \/ n >= Len(Terminal) /\ SubSeq(data, n - Len(Terminal) + 1, n) = Terminal

\* peekLine and getLine return a line without its terminal.
PeekLine(n) ==
    /\ IsLine(n)
    /\ io' = Call(<<>>, 0, SubSeq(data, 1, n - Len(Terminal)))
    /\ UNCHANGED data

GetLine(n) ==
    /\ IsLine(n)
    /\ io' = Call(<<>>, 0, SubSeq(data, 1, n - Len(Terminal)))
    /\ data' = SubSeq(data, n + 1, Len(data))

Next ==
    \/ \E q \in Chunks \cup {<<b>> : b \in Byte} : Put(q) \/ PutOver(q)
    \/ \E n \in 0..(N + 1) : Peek(n) \/ Get(n, TRUE) \/ Get(n, FALSE)
    \/ \E n \in 0..Len(data) : PeekLine(n) \/ GetLine(n)
    \/ Clear

Spec == Init /\ [][Next]_fvars
=============================================================================
