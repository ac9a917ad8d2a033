--------------------------- MODULE CircularBuffer ---------------------------
(***************************************************************************)
(* A ring of N bytes shared by threads (src/src/CircularBuffer.cpp).       *)
(* Pointers are offsets from mBuffer; the offset N is mEnd, where both     *)
(* pointers may come to rest.  mLock is recursive and is held by every     *)
(* call except in two places: fillFromFile reads the free space before it  *)
(* locks, and byteAt dereferences its pointer after it has unlocked.  Each *)
(* of these two calls is two steps, every other call is one.               *)
(***************************************************************************)
EXTENDS Integers, Sequences

CONSTANTS
    Byte,          \* the values a byte takes
    N,             \* mBufferSize
    Chunks,        \* byte sequences that callers write and files hold
    Terminal,      \* the line terminator that getLine looks for
    Producer,      \* threads that write, fill and wait for free space
    Consumer,      \* threads that read, peek, clear and wait for data
    Overwriter,    \* producers that call write_overflow
    Prober,        \* threads that call byteAt
    Msecs,         \* the timeouts waiters ask for
    MaxElapsed,    \* bound: longest delay seen by a waiter
    Wrap           \* timeouts are unsigned modulo Wrap (2^32 in the code)

ASSUME BufferAssumption ==
    /\ N \in Nat \ {0} /\ Wrap \in Nat \ {0} /\ MaxElapsed \in Nat
    /\ Chunks \subseteq Seq(Byte) /\ Terminal \in Seq(Byte) /\ Terminal # <<>>
    /\ Overwriter \subseteq Producer /\ Prober \subseteq Producer \cup Consumer
    /\ Msecs \subseteq 1..(Wrap - 1)

VARIABLES
    ring,    \* [mem, mReadPtr, mWritePtr, mLen]
    proc,    \* what each thread is doing between two steps
    io,      \* what the last call but byteAt was given, asked for and returned
    fault    \* undefined behaviour or an abort has ended the program

bufferVars == <<ring, proc, io, fault>>

Thread == Producer \cup Consumer
Idle == [at |-> "idle"]

Ring == [mem : [0..(N - 1) -> Byte], mReadPtr : 0..N, mWritePtr : 0..N, mLen : 0..N]

Least(a, b) == IF a <= b THEN a ELSE b
Free(g) == N - g.mLen

-----------------------------------------------------------------------------
(* The ring *)

\* memcpy of q to offset p.
Store(mem, p, q) ==
    [i \in 0..(N - 1) |-> IF p <= i /\ i < p + Len(q) THEN q[i - p + 1] ELSE mem[i]]

\* memcpy of n bytes from offset p.
Load(mem, p, n) == [i \in 1..n |-> mem[p + i - 1]]

\* add_length_internal: a read pointer left at mEnd moves to mBuffer.
AddLength(g, n) ==
    [g EXCEPT !.mLen = @ + n, !.mReadPtr = IF @ = N THEN 0 ELSE @]

\* subtract_length_internal: so does a write pointer.
SubtractLength(g, n) ==
    [g EXCEPT !.mLen = @ - n, !.mWritePtr = IF @ = N THEN 0 ELSE @]

\* A write pointer at mEnd is not wrapped until the next write.
WriteWithoutWrap(g, q) ==
    LET size == Least(Len(q), Free(g))
        tail == Least(N - g.mWritePtr, size)
    IN  AddLength([g EXCEPT !.mem = Store(@, g.mWritePtr, SubSeq(q, 1, tail)),
                            !.mWritePtr = @ + tail], size)

\* The second copy starts at the beginning of the caller's buffer again.
WriteSourceNotAdvanced(g, q) ==
    LET size == Least(Len(q), Free(g))
        tail == Least(N - g.mWritePtr, size)
        next == IF g.mWritePtr + tail = N THEN 0 ELSE g.mWritePtr + tail
    IN  IF size = 0 THEN g
        ELSE AddLength(
               [g EXCEPT !.mem = Store(Store(@, g.mWritePtr, SubSeq(q, 1, tail)),
                                       next, SubSeq(q, 1, size - tail)),
                         !.mWritePtr = next + (size - tail)], size)

\* write_internal: to the end of the memory, then on from its beginning.
WriteInternal(g, q) ==
    LET size == Least(Len(q), Free(g))
        tail == Least(N - g.mWritePtr, size)
        next == IF g.mWritePtr + tail = N THEN 0 ELSE g.mWritePtr + tail
    IN  IF size = 0 THEN g
        ELSE AddLength(
               [g EXCEPT !.mem = Store(Store(@, g.mWritePtr, SubSeq(q, 1, tail)),
                                       next, SubSeq(q, tail + 1, size)),
                         !.mWritePtr = next + (size - tail)], size)

\* read: the pointer stays at mEnd when the last byte of the memory is read.
Consume(g, size) ==
    LET n    == Least(size, g.mLen)
        tail == Least(N - g.mReadPtr, n)
    IN  IF n = 0 THEN g
        ELSE SubtractLength(
               [g EXCEPT !.mReadPtr = IF tail < n THEN n - tail ELSE @ + tail], n)

\* The bytes read copies out.
ReadBytes(g, size) ==
    LET n    == Least(size, g.mLen)
        tail == Least(N - g.mReadPtr, n)
    IN  Load(g.mem, g.mReadPtr, tail) \o Load(g.mem, 0, n - tail)

\* How many bytes fillFromFile asks the file for: those that fit before mEnd,
\* unless the free space ends before that.
FillRoom(g, size) ==
    IF g.mReadPtr > g.mWritePtr THEN size ELSE Least(size, N - g.mWritePtr)

\* The ring after the file's bytes q: the write pointer wraps only where the
\* free space reached to mEnd.
FillRing(g, q) ==
    LET w == g.mWritePtr + Len(q)
    IN  AddLength([g EXCEPT !.mem = Store(@, g.mWritePtr, q),
                            !.mWritePtr = IF g.mReadPtr <= g.mWritePtr /\ w = N THEN 0 ELSE w],
                  Len(q))

\* The end of the memory taken one byte too early.
SegmentShort(g, i) ==
    LET p == g.mReadPtr + i
    IN  IF g.mReadPtr >= g.mWritePtr
        THEN IF p >= N - 1 THEN [p |-> p - (N - 1), size |-> g.mWritePtr - (p - (N - 1))]
                           ELSE [p |-> p, size |-> N - p]
        ELSE [p |-> p, size |-> g.mWritePtr - p]

\* getBytesInternal for i < mLen: where byte i is, how many bytes follow in
\* one piece.
Segment(g, i) ==
    LET p == g.mReadPtr + i
    IN  IF g.mReadPtr >= g.mWritePtr
        THEN IF p >= N THEN [p |-> p - N, size |-> g.mWritePtr - (p - N)]
                       ELSE [p |-> p, size |-> N - p]
        ELSE [p |-> p, size |-> g.mWritePtr - p]

\* copy: one segment, and the next one when the first is too short.
CopyBytes(g, size) ==
    LET n     == Least(size, g.mLen)
        first == Segment(g, 0)
        start == Least(first.size, n)
    IN  IF n = 0 THEN <<>>
        ELSE Load(g.mem, first.p, start)
             \o IF start < n THEN Load(g.mem, Segment(g, start).p, n - start) ELSE <<>>

-----------------------------------------------------------------------------
(* Lines *)

\* peekLine's automaton after k bytes: how much of the terminal it has seen.
\* A mismatch starts over with the next byte.
Matched(g) ==
    LET m[k \in 0..N] ==
          IF k = 0 THEN 0
          ELSE IF m[k - 1] = Len(Terminal) THEN Len(Terminal)
          ELSE IF g.mem[(g.mReadPtr + k - 1) % N] = Terminal[m[k - 1] + 1]
               THEN m[k - 1] + 1 ELSE 0
    IN  m

\* peekLine: how many bytes line and terminal take, 0 when there is no line,
\* -1 when it leaves the memory or asks for a string of negative length.
LineSize(g) ==
    LET ends == {k \in 1..g.mLen : Matched(g)[k] = Len(Terminal)}
        k    == CHOOSE k \in ends : \A j \in ends : k <= j
        past == ((g.mReadPtr + k - 1) % N) + 1   \* ptr after "ptr += 1"
    IN  IF g.mLen = 0 THEN 0
        ELSE IF g.mReadPtr = N THEN -1
        ELSE IF ends = {} THEN IF g.mWritePtr = N THEN -1 ELSE 0
        ELSE IF past < g.mReadPtr
             THEN IF past < Len(Terminal) THEN -1 ELSE N - g.mReadPtr + past
             ELSE IF past - g.mReadPtr < Len(Terminal) THEN -1 ELSE past - g.mReadPtr

LineBytes(g) == ReadBytes(g, LineSize(g) - Len(Terminal))

-----------------------------------------------------------------------------
(* Waiters.  A sleeper is woken by a broadcast on the condition it waits on. *)

Ready(p, g) == IF p.on = "data" THEN g.mLen >= p.threshold ELSE Free(g) >= p.threshold

Wakes(conditions) ==
    [t \in Thread |-> IF proc[t].at = "wait" /\ proc[t].on \in conditions
                      THEN [proc[t] EXCEPT !.awake = TRUE] ELSE proc[t]]

\* The call was given bytes or a number of bytes and returns bytes.
Passes(given, asked, got) ==
    /\ io' = [given |-> given, asked |-> asked, got |-> got]
    /\ UNCHANGED fault

\* The thread can make a call.
Calls(t) == ~fault /\ proc[t] = Idle

BufferInit ==
    /\ ring \in {g \in Ring : g.mReadPtr = 0 /\ g.mWritePtr = 0 /\ g.mLen = 0}
    /\ proc = [t \in Thread |-> Idle]
    /\ io = [given |-> <<>>, asked |-> 0, got |-> <<>>]
    /\ fault = FALSE

\* write; without room it returns before it broadcasts.
Write(t, q) ==
    /\ Calls(t)
    /\ ring' = WriteInternal(ring, q)
    /\ proc' = IF Least(Len(q), Free(ring)) > 0 THEN Wakes({"data"}) ELSE proc
    /\ Passes(q, 0, <<>>)

\* writeByte
WriteByte(t, b) ==
    /\ Calls(t)
    /\ IF Free(ring) = 0 THEN UNCHANGED <<ring, proc>>
       ELSE LET put == AddLength([ring EXCEPT !.mem = Store(@, ring.mWritePtr, <<b>>),
                                              !.mWritePtr = @ + 1], 1)
            IN  /\ ring' = [put EXCEPT !.mWritePtr = IF @ = N THEN 0 ELSE @]
                /\ proc' = Wakes({"data"})
    /\ Passes(<<b>>, 0, <<>>)

\* write_overflow: the newest N bytes of q, after reading away what is in
\* their place.
WriteOverflow(t, q) ==
    LET p    == IF Len(q) > N THEN SubSeq(q, Len(q) - N + 1, Len(q)) ELSE q
        over == Len(p) - Free(ring)
    IN  /\ Calls(t)
        /\ ring' = WriteInternal(IF over > 0 THEN Consume(ring, over) ELSE ring, p)
        /\ proc' = Wakes((IF over > 0 THEN {"free"} ELSE {})
                          \cup (IF p # <<>> THEN {"data"} ELSE {}))
        /\ Passes(q, 0, <<>>)

\* read( buffer, size ), and read( NULL, size ) when it copies nothing.
Read(t, size, copied) ==
    /\ Calls(t)
    /\ ring' = Consume(ring, size)
    /\ proc' = IF Least(size, ring.mLen) > 0 THEN Wakes({"free"}) ELSE proc
    /\ Passes(<<>>, size, IF copied THEN ReadBytes(ring, size) ELSE <<>>)

\* copy
Copy(t, size) ==
    /\ Calls(t)
    /\ Passes(<<>>, size, CopyBytes(ring, size))
    /\ UNCHANGED <<ring, proc>>

\* Byte i of the data, counted from the oldest: what byteAt( i ) asks for.
ByteOf(g, i) == g.mem[(g.mReadPtr + i) % N]

\* byteAt: getBytes, with its own lock.  (Without such a byte it returns -1.)
\* The field byte is history.
ByteAt(t, i) ==
    /\ Calls(t)
    /\ i < ring.mLen
    /\ proc' = [proc EXCEPT ![t] =
                  [at |-> "byteAt", p |-> Segment(ring, i).p, byte |-> ByteOf(ring, i)]]
    /\ UNCHANGED <<ring, io, fault>>

\* byteAt: return *res, without the lock.  The result is ring.mem[p], which
\* ByteAtIsRight compares with the history.
ByteAtReturns(t) ==
    /\ ~fault /\ proc[t].at = "byteAt"
    /\ proc' = [proc EXCEPT ![t] = Idle]
    /\ UNCHANGED <<ring, io, fault>>

\* Nobody is told that the ring is empty.
ClearSilently(t) ==
    /\ Calls(t)
    /\ ring' = [ring EXCEPT !.mReadPtr = 0, !.mWritePtr = 0, !.mLen = 0]
    /\ Passes(<<>>, 0, <<>>)
    /\ UNCHANGED proc

\* clear
Clear(t) ==
    /\ Calls(t)
    /\ ring' = [ring EXCEPT !.mReadPtr = 0, !.mWritePtr = 0, !.mLen = 0]
    /\ proc' = Wakes({"free"})
    /\ Passes(<<>>, 0, <<>>)

\* fillFromFile trusts the size its caller asks for.
FillAsked(t, size) ==
    /\ Calls(t)
    /\ proc' = [proc EXCEPT ![t] = [at |-> "fill", size |-> Least(size, N)]]
    /\ UNCHANGED <<ring, io, fault>>

\* fillFromFile: getFreeSpace, with its own lock.
FillFromFile(t, size) ==
    /\ Calls(t)
    /\ proc' = [proc EXCEPT ![t] = [at |-> "fill", size |-> Least(size, Free(ring))]]
    /\ UNCHANGED <<ring, io, fault>>

\* fillFromFile under the lock, with nothing to read or a reader that fails.
FillFails(t) ==
    /\ ~fault /\ proc[t].at = "fill"
    /\ proc' = [proc EXCEPT ![t] = Idle]
    /\ UNCHANGED <<ring, io, fault>>

\* fillFromFile under the lock: one read, perhaps a short one, of the file into
\* one piece of the memory.  More bytes than there is room for overwrite
\* unread ones or the memory behind the ring.
FillReads(t, q) ==
    /\ ~fault /\ proc[t].at = "fill" /\ proc[t].size > 0
    /\ Len(q) <= FillRoom(ring, proc[t].size)
    /\ IF Len(q) > Free(ring)
       THEN fault' = TRUE /\ UNCHANGED <<ring, proc, io>>
       ELSE /\ ring' = FillRing(ring, q)
            /\ proc' = [Wakes({"data"}) EXCEPT ![t] = Idle]
            /\ Passes(q, 0, <<>>)

\* getLine
GetLine(t) ==
    /\ Calls(t)
    /\ IF LineSize(ring) < 0 THEN fault' = TRUE /\ UNCHANGED <<ring, proc, io>>
       ELSE /\ ring' = Consume(ring, LineSize(ring))
            /\ proc' = IF LineSize(ring) > 0 THEN Wakes({"free"}) ELSE proc
            /\ Passes(<<>>, 0, LineBytes(ring))

\* peekLine
PeekLine(t) ==
    /\ Calls(t)
    /\ IF LineSize(ring) < 0 THEN fault' = TRUE /\ UNCHANGED <<ring, proc, io>>
       ELSE Passes(<<>>, 0, LineBytes(ring)) /\ UNCHANGED <<ring, proc>>

\* waitForData, waitForFreeSpace: return at once or sleep.
WaitFor(t, on, threshold, msecs) ==
    LET p == [at |-> "wait", on |-> on, threshold |-> threshold, msecs |-> msecs,
              timeout |-> msecs, awake |-> FALSE]
    IN  /\ Calls(t)
        /\ proc' = IF Ready(p, ring) THEN proc ELSE [proc EXCEPT ![t] = p]
        /\ UNCHANGED <<ring, io, fault>>

\* A woken waiter tests again and sleeps for the time it has left, an unsigned
\* difference; Condition::Wait takes 0 to mean no timeout.
Awake(t) ==
    /\ ~fault /\ proc[t].at = "wait" /\ proc[t].awake
    /\ IF Ready(proc[t], ring) THEN proc' = [proc EXCEPT ![t] = Idle]
       ELSE \E elapsed \in 0..MaxElapsed :
              proc' = [proc EXCEPT ![t].awake = FALSE,
                                   ![t].timeout = (proc[t].msecs - elapsed) % Wrap]
    /\ UNCHANGED <<ring, io, fault>>

\* The timed wait ends by itself.
TimedOut(t) ==
    /\ ~fault /\ proc[t].at = "wait" /\ ~proc[t].awake /\ proc[t].timeout > 0
    /\ proc' = [proc EXCEPT ![t] = Idle]
    /\ UNCHANGED <<ring, io, fault>>

Sizes == 0..(N + 1)

BufferNext ==
    \/ \E t \in Producer :
         \/ \E q \in Chunks : Write(t, q)
         \/ \E b \in Byte : WriteByte(t, b)
         \/ \E size \in Sizes : FillFromFile(t, size)
         \/ FillFails(t)
         \/ \E q \in Chunks \cup {<<>>} : FillReads(t, q)
         \/ \E threshold \in 1..N, msecs \in Msecs : WaitFor(t, "free", threshold, msecs)
    \/ \E t \in Overwriter, q \in Chunks : WriteOverflow(t, q)
    \/ \E t \in Consumer :
         \/ \E size \in Sizes : Copy(t, size)
         \/ \E size \in Sizes, copied \in BOOLEAN : Read(t, size, copied)
         \/ Clear(t) \/ GetLine(t) \/ PeekLine(t)
         \/ \E threshold \in 1..N, msecs \in Msecs : WaitFor(t, "data", threshold, msecs)
    \/ \E t \in Prober : ByteAtReturns(t) \/ \E i \in Sizes : ByteAt(t, i)
    \/ \E t \in Thread : Awake(t) \/ TimedOut(t)

BufferSpec == BufferInit /\ [][BufferNext]_bufferVars

-----------------------------------------------------------------------------
(* Properties *)

Waiting == {t \in Thread : proc[t].at = "wait"}

\* Type invariant.
TypeOK ==
    /\ ring \in Ring
    /\ proc \in [Thread ->
          {Idle}
          \cup [at : {"byteAt"}, p : 0..(N - 1), byte : Byte]
          \cup [at : {"fill"}, size : 0..N]
          \cup [at : {"wait"}, on : {"data", "free"}, threshold : 1..N, msecs : Msecs,
                timeout : 0..(Wrap - 1), awake : BOOLEAN]]
    /\ io \in [given : Seq(Byte), asked : Sizes, got : Seq(Byte)]
    /\ fault \in BOOLEAN

\* The two pointers and the length, kept separately by every call, agree:
\* mWritePtr is mLen bytes after mReadPtr; a read pointer resting at mEnd has
\* all the data at the bottom of the memory, a write pointer resting there
\* means a full ring that starts at mBuffer.
PointersAgree ==
    /\ \/ ring.mWritePtr = ring.mReadPtr + ring.mLen
       \/ ring.mWritePtr = ring.mReadPtr + ring.mLen - N
    /\ ring.mReadPtr = N => ring.mWritePtr = ring.mLen /\ ring.mLen < N
    /\ ring.mWritePtr = N => ring.mReadPtr = 0 /\ ring.mLen = N

\* No thread sleeps on a condition that already holds: every call that adds
\* or removes bytes broadcasts.
SleepersHaveReason ==
    \A t \in Waiting : proc[t].awake \/ ~Ready(proc[t], ring)

\* CircularBuffer.h: "Will timeout after a specified time": no sleep is longer
\* than the time the caller gave, and none is without end (0).
SleepsAreBounded ==
    \A t \in Waiting : proc[t].timeout \in 1..proc[t].msecs

\* The free space fillFromFile reads before it takes the lock is still there
\* when it holds the lock, as long as one thread alone adds bytes.
FillHasRoom ==
    \A t \in Producer : proc[t].at = "fill" => proc[t].size <= Free(ring)

\* The places of the bytes that have not been read.
Unread(g) == {(g.mReadPtr + i) % N : i \in 0..(g.mLen - 1)}

\* byteAt, which dereferences its pointer without the lock: the pointer is that
\* of the byte its caller asked for, and until the fetch no call of any thread
\* changes that byte while it is unread, but for write_overflow, which reads
\* it away itself.  A caller gets another byte only when one was read away (or
\* when fillFromFile overflowed, the fault FillHasRoom is about).
ByteAtIsRight ==
    [][\A t \in Prober :
          /\ proc[t].at # "byteAt" /\ proc'[t].at = "byteAt" => ring'.mem[proc'[t].p] = proc'[t].byte
          /\ proc[t].at = "byteAt" /\ proc[t].p \in Unread(ring) =>
                \/ ring'.mem[proc[t].p] = ring.mem[proc[t].p]
                \/ \E s \in Overwriter, q \in Chunks : WriteOverflow(s, q)]_bufferVars

\* The bytes in the ring, oldest first, for the abstract queue.
Content == ReadBytes(ring, ring.mLen)

Fifo == INSTANCE ByteFifo WITH data <- Content

\* Through every wrap of either pointer the ring is a queue of bytes: calls
\* return, in order, the bytes that were written and are still there.
ImplementsFifo == Fifo!Spec
=============================================================================
