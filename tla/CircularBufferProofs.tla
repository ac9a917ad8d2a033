------------------------ MODULE CircularBufferProofs ------------------------
(***************************************************************************)
(* For every ring size and any number of threads: the pointers and the     *)
(* length always agree, no call other than a fillFromFile with stale free  *)
(* space or a getLine that ends the program leaves the memory, no wakeup   *)
(* is lost, a byte that is unread is not written over behind byteAt's back, *)
(* fillFromFile's stale free space is right as long as one thread alone    *)
(* adds bytes, and the ring is a queue.                                    *)
(***************************************************************************)
EXTENDS CircularBuffer, ListFacts, SequenceTheorems, TLAPS

Mem == [0..(N - 1) -> Byte]

\* PointersAgree for one ring.
Agree(g) ==
    /\ \/ g.mWritePtr = g.mReadPtr + g.mLen
       \/ g.mWritePtr = g.mReadPtr + g.mLen - N
    /\ g.mReadPtr = N => g.mWritePtr = g.mLen /\ g.mLen < N
    /\ g.mWritePtr = N => g.mReadPtr = 0 /\ g.mLen = N

\* The constants.
LEMMA Constants == N \in Nat /\ N >= 1 /\ Chunks \subseteq Seq(Byte)
  BY BufferAssumption

\* memcpy into the memory keeps it a memory.
LEMMA StoreType ==
    ASSUME NEW mem \in Mem, NEW p \in Int, NEW q \in Seq(Byte)
    PROVE  Store(mem, p, q) \in Mem
<1> SUFFICES ASSUME NEW i \in 0..(N - 1)
             PROVE  (IF p <= i /\ i < p + Len(q) THEN q[i - p + 1] ELSE mem[i]) \in Byte
  BY DEF Store, Mem
<1>1. CASE p <= i /\ i < p + Len(q)
  <2>1. Len(q) \in Nat
    BY LenProperties
  <2>2. i - p + 1 \in 1..Len(q)
    BY <1>1, <2>1, Constants
  <2> QED  BY <1>1, <2>2, ElementOfSeq
<1>2. CASE ~(p <= i /\ i < p + Len(q))
  BY <1>2 DEF Mem
<1> QED
  BY <1>1, <1>2

\* memcpy out of the memory yields bytes when it stays inside.
LEMMA LoadType ==
    ASSUME NEW mem \in Mem, NEW p \in Nat, NEW n \in Int, n <= 0 \/ p + n <= N
    PROVE  /\ Load(mem, p, n) \in Seq(Byte)
           /\ n >= 0 => Len(Load(mem, p, n)) = n
<1>1. CASE n <= 0
  <2>1. 1..n = 1..0
    BY <1>1
  <2>2. Load(mem, p, n) = <<>>
    BY <2>1 DEF Load
  <2> QED  BY <1>1, <2>2
<1>2. CASE n > 0
  <2>1. \A i \in 1..n : mem[p + i - 1] \in Byte
    <3> SUFFICES ASSUME NEW i \in 1..n PROVE mem[p + i - 1] \in Byte
      OBVIOUS
    <3>1. p + i - 1 \in 0..(N - 1)
      BY <1>2, Constants
    <3> QED  BY <3>1 DEF Mem
  <2>2. n \in Nat
    BY <1>2
  <2> QED  BY <2>1, <2>2 DEF Load
<1> QED
  BY <1>1, <1>2

\* What a ring is, field by field.
LEMMA RingFields ==
    ASSUME NEW g \in Ring
    PROVE  g.mem \in Mem /\ g.mReadPtr \in 0..N /\ g.mWritePtr \in 0..N /\ g.mLen \in 0..N
  BY DEF Ring, Mem

\* Pointers r and w and length l that agree.
Ptrs(r, w, l) ==
    /\ r \in 0..N /\ w \in 0..N /\ l \in 0..N
    /\ w = r + l \/ w = r + l - N
    /\ r = N => w = l /\ l < N
    /\ w = N => r = 0 /\ l = N

\* The ring with given fields.
Make(m, r, w, l) == [mem |-> m, mReadPtr |-> r, mWritePtr |-> w, mLen |-> l]

\* A good ring is one that agrees.
Good(g) == g \in Ring /\ Agree(g)

\* Goodness is about the fields.
LEMMA GoodFields ==
    /\ \A g : Good(g) => g.mem \in Mem /\ Ptrs(g.mReadPtr, g.mWritePtr, g.mLen)
    /\ \A m \in Mem : \A r, w, l : Ptrs(r, w, l) => Good(Make(m, r, w, l))
<1>1. ASSUME NEW g, Good(g) PROVE g.mem \in Mem /\ Ptrs(g.mReadPtr, g.mWritePtr, g.mLen)
  BY <1>1, RingFields DEF Good, Agree, Ptrs
<1>2. ASSUME NEW m \in Mem, NEW r, NEW w, NEW l, Ptrs(r, w, l) PROVE Good(Make(m, r, w, l))
  <2>1. Make(m, r, w, l) \in Ring
    BY <1>2 DEF Make, Ring, Mem, Ptrs
  <2>2. Agree(Make(m, r, w, l))
    BY <1>2 DEF Make, Agree, Ptrs
  <2> QED  BY <2>1, <2>2 DEF Good
<1> QED
  BY <1>1, <1>2

\* One field of a ring assigned.
LEMMA OneField ==
    ASSUME NEW a, NEW b, NEW c, NEW d, NEW x
    PROVE  /\ [Make(a, b, c, d) EXCEPT !.mem = x] = Make(x, b, c, d)
           /\ [Make(a, b, c, d) EXCEPT !.mReadPtr = x] = Make(a, x, c, d)
           /\ [Make(a, b, c, d) EXCEPT !.mWritePtr = x] = Make(a, b, x, d)
           /\ [Make(a, b, c, d) EXCEPT !.mLen = x] = Make(a, b, c, x)
           /\ Make(a, b, c, d).mem = a /\ Make(a, b, c, d).mReadPtr = b
           /\ Make(a, b, c, d).mWritePtr = c /\ Make(a, b, c, d).mLen = d
  BY DEF Make

\* A ring is its four fields.
LEMMA RingIsMade ==
    ASSUME NEW g \in Ring
    PROVE  g = Make(g.mem, g.mReadPtr, g.mWritePtr, g.mLen)
  BY DEF Ring, Make

\* add_length_internal and subtract_length_internal, field by field.
LEMMA Lengths ==
    ASSUME NEW a, NEW b, NEW c, NEW d, NEW n
    PROVE  /\ AddLength(Make(a, b, c, d), n) = Make(a, IF b = N THEN 0 ELSE b, c, d + n)
           /\ SubtractLength(Make(a, b, c, d), n) = Make(a, b, IF c = N THEN 0 ELSE c, d - n)
<1> DEFINE x == d + n  y == IF b = N THEN 0 ELSE b  u == d - n  v == IF c = N THEN 0 ELSE c
<1>1. AddLength(Make(a, b, c, d), n) = [[Make(a, b, c, d) EXCEPT !.mLen = x] EXCEPT !.mReadPtr = y]
  <2>1. Make(a, b, c, d).mLen = d /\ Make(a, b, c, d).mReadPtr = b
    BY OneField
  <2> QED  BY <2>1 DEF AddLength
<1>2. SubtractLength(Make(a, b, c, d), n) = [[Make(a, b, c, d) EXCEPT !.mLen = u] EXCEPT !.mWritePtr = v]
  <2>1. Make(a, b, c, d).mLen = d /\ Make(a, b, c, d).mWritePtr = c
    BY OneField
  <2> QED  BY <2>1 DEF SubtractLength
<1> HIDE DEF x, y, u, v
<1>3. [[Make(a, b, c, d) EXCEPT !.mLen = x] EXCEPT !.mReadPtr = y] = Make(a, y, c, x)
  <2>1. [Make(a, b, c, d) EXCEPT !.mLen = x] = Make(a, b, c, x)
    BY OneField
  <2>2. [Make(a, b, c, x) EXCEPT !.mReadPtr = y] = Make(a, y, c, x)
    BY OneField
  <2> QED  BY <2>1, <2>2
<1>4. [[Make(a, b, c, d) EXCEPT !.mLen = u] EXCEPT !.mWritePtr = v] = Make(a, b, v, u)
  <2>1. [Make(a, b, c, d) EXCEPT !.mLen = u] = Make(a, b, c, u)
    BY OneField
  <2>2. [Make(a, b, c, u) EXCEPT !.mWritePtr = v] = Make(a, b, v, u)
    BY OneField
  <2> QED  BY <2>1, <2>2
<1> QED
  BY <1>1, <1>2, <1>3, <1>4 DEF x, y, u, v

\* Bytes written and the write pointer moved, field by field.
LEMMA WriteUpdate ==
    ASSUME NEW g \in Ring, NEW m, NEW w, NEW n
    PROVE  AddLength([g EXCEPT !.mem = m, !.mWritePtr = w], n) =
             Make(m, IF g.mReadPtr = N THEN 0 ELSE g.mReadPtr, w, g.mLen + n)
<1>1. [g EXCEPT !.mem = m] = Make(m, g.mReadPtr, g.mWritePtr, g.mLen)
  BY RingIsMade, OneField, SMTT(40)
<1>2. [[g EXCEPT !.mem = m] EXCEPT !.mWritePtr = w] = Make(m, g.mReadPtr, w, g.mLen)
  <2>1. [Make(m, g.mReadPtr, g.mWritePtr, g.mLen) EXCEPT !.mWritePtr = w] = Make(m, g.mReadPtr, w, g.mLen)
    BY OneField
  <2> QED  BY <1>1, <2>1
<1>3. [g EXCEPT !.mem = m, !.mWritePtr = w] = [[g EXCEPT !.mem = m] EXCEPT !.mWritePtr = w]
  OBVIOUS
<1> QED
  BY <1>2, <1>3, Lengths

\* The read pointer moved, field by field.
LEMMA ReadUpdate ==
    ASSUME NEW g \in Ring, NEW r, NEW n
    PROVE  SubtractLength([g EXCEPT !.mReadPtr = r], n) =
             Make(g.mem, r, IF g.mWritePtr = N THEN 0 ELSE g.mWritePtr, g.mLen - n)
<1>1. [g EXCEPT !.mReadPtr = r] = Make(g.mem, r, g.mWritePtr, g.mLen)
  BY RingIsMade, OneField
<1> QED
  BY <1>1, Lengths

-----------------------------------------------------------------------------
(* Writing and reading *)

\* The arithmetic of write_internal.
LEMMA WriteArithmetic ==
    ASSUME NEW r, NEW w, NEW l, Ptrs(r, w, l), NEW size \in 1..(N - l),
           NEW tail \in Int, tail = Least(N - w, size),
           NEW next \in Int, next = IF w + tail = N THEN 0 ELSE w + tail
    PROVE  Ptrs(IF r = N THEN 0 ELSE r, next + (size - tail), l + size)
  BY Constants DEF Ptrs, Least

\* write_internal keeps the pointers in step with the length.
LEMMA WriteAgrees ==
    ASSUME NEW g, Good(g), NEW q \in Seq(Byte)
    PROVE  Good(WriteInternal(g, q))
<1> DEFINE size == Least(Len(q), Free(g))
           tail == Least(N - g.mWritePtr, size)
           next == IF g.mWritePtr + tail = N THEN 0 ELSE g.mWritePtr + tail
           m == Store(Store(g.mem, g.mWritePtr, SubSeq(q, 1, tail)), next, SubSeq(q, tail + 1, size))
           w == next + (size - tail)
<1>0. /\ N \in Nat /\ N >= 1 /\ Len(q) \in Nat
      /\ g.mem \in Mem /\ Ptrs(g.mReadPtr, g.mWritePtr, g.mLen)
      /\ g.mReadPtr \in 0..N /\ g.mWritePtr \in 0..N /\ g.mLen \in 0..N
  BY Constants, GoodFields, LenProperties DEF Ptrs
<1>1. size \in 0..(N - g.mLen) /\ size <= Len(q) /\ tail \in 0..size /\ next \in Int
  BY <1>0 DEF Least, Free
<1>2. CASE size = 0
  BY <1>2 DEF WriteInternal
<1>3. CASE size # 0
  <2>1. WriteInternal(g, q) = AddLength([g EXCEPT !.mem = m, !.mWritePtr = w], size)
    BY <1>3 DEF WriteInternal
  <2> HIDE DEF size, tail, next
  <2>2. m \in Mem
    <3>1. \A i \in 1..Len(q) : q[i] \in Byte
      BY ElementOfSeq
    <3>2. \A i \in 1..tail : q[i] \in Byte
      BY <3>1, <1>0, <1>1
    <3>3. \A i \in (tail + 1)..size : q[i] \in Byte
      BY <3>1, <1>0, <1>1
    <3>4. 1 \in Int /\ tail \in Int /\ tail + 1 \in Int /\ size \in Int
      BY <1>0, <1>1
    <3>5. SubSeq(q, 1, tail) \in Seq(Byte) /\ SubSeq(q, tail + 1, size) \in Seq(Byte)
      BY <3>2, <3>3, <3>4, SubSeqProperties
    <3>6. Store(g.mem, g.mWritePtr, SubSeq(q, 1, tail)) \in Mem
      <4>1. g.mem \in Mem /\ g.mWritePtr \in Int
        BY <1>0
      <4> QED  BY <3>5, <4>1, StoreType
    <3> QED  BY <1>1, <3>5, <3>6, StoreType
  <2>3. Ptrs(IF g.mReadPtr = N THEN 0 ELSE g.mReadPtr, w, g.mLen + size)
    <3>1. size \in 1..(N - g.mLen) /\ tail \in Int
      BY <1>0, <1>1, <1>3
    <3> QED  BY <3>1, <1>0, <1>1, WriteArithmetic DEF tail, next
  <2> HIDE DEF m, w
  <2>4. WriteInternal(g, q) = Make(m, IF g.mReadPtr = N THEN 0 ELSE g.mReadPtr, w, g.mLen + size)
    <3>1. g \in Ring
      BY DEF Good
    <3>2. AddLength([g EXCEPT !.mem = m, !.mWritePtr = w], size)
            = Make(m, IF g.mReadPtr = N THEN 0 ELSE g.mReadPtr, w, g.mLen + size)
      BY <3>1, WriteUpdate
    <3> QED  BY <2>1, <3>2
  <2> QED  BY <2>2, <2>3, <2>4, GoodFields
<1> QED
  BY <1>2, <1>3

\* The arithmetic of read.
LEMMA ReadArithmetic ==
    ASSUME NEW r, NEW w, NEW l, Ptrs(r, w, l), NEW n \in 1..l,
           NEW tail \in Int, tail = Least(N - r, n)
    PROVE  Ptrs(IF tail < n THEN n - tail ELSE r + tail, IF w = N THEN 0 ELSE w, l - n)
  BY Constants DEF Ptrs, Least

\* read keeps them in step too.
LEMMA ConsumeAgrees ==
    ASSUME NEW g, Good(g), NEW size \in Nat
    PROVE  Good(Consume(g, size))
<1> DEFINE n == Least(size, g.mLen)
           tail == Least(N - g.mReadPtr, n)
           r == IF tail < n THEN n - tail ELSE g.mReadPtr + tail
<1>0. /\ N \in Nat /\ N >= 1
      /\ g.mem \in Mem /\ Ptrs(g.mReadPtr, g.mWritePtr, g.mLen)
      /\ g.mReadPtr \in 0..N /\ g.mWritePtr \in 0..N /\ g.mLen \in 0..N
  BY Constants, GoodFields DEF Ptrs
<1>1. n \in 0..g.mLen /\ tail \in Int
  BY <1>0 DEF Least
<1>2. CASE n = 0
  BY <1>2 DEF Consume
<1>3. CASE n # 0
  <2>1. Consume(g, size) = SubtractLength([g EXCEPT !.mReadPtr = r], n)
    BY <1>3 DEF Consume
  <2> HIDE DEF n, tail
  <2>2. Ptrs(r, IF g.mWritePtr = N THEN 0 ELSE g.mWritePtr, g.mLen - n)
    <3>1. n \in 1..g.mLen
      BY <1>0, <1>1, <1>3
    <3> QED  BY <3>1, <1>0, <1>1, ReadArithmetic DEF tail
  <2> HIDE DEF r
  <2>3. Consume(g, size) = Make(g.mem, r, IF g.mWritePtr = N THEN 0 ELSE g.mWritePtr, g.mLen - n)
    BY <2>1, ReadUpdate DEF Good
  <2> QED  BY <1>0, <2>2, <2>3, GoodFields
<1> QED
  BY <1>2, <1>3

\* read copies bytes out of the memory only.
LEMMA ReadBytesType ==
    ASSUME NEW g, Good(g), NEW size \in Int
    PROVE  ReadBytes(g, size) \in Seq(Byte)
<1> DEFINE n == Least(size, g.mLen)
           tail == Least(N - g.mReadPtr, n)
<1>0. /\ N \in Nat /\ N >= 1
      /\ g.mem \in Mem /\ Ptrs(g.mReadPtr, g.mWritePtr, g.mLen)
      /\ g.mReadPtr \in 0..N /\ g.mLen \in 0..N
  BY Constants, GoodFields DEF Ptrs
<1>1. n \in Int /\ tail \in Int /\ n <= g.mLen /\ n - tail \in Int
  BY <1>0 DEF Least
<1>2. tail <= 0 \/ g.mReadPtr + tail <= N
  BY <1>0 DEF Least
<1>3. n - tail <= 0 \/ 0 + (n - tail) <= N
  BY <1>0 DEF Least
<1>4. ReadBytes(g, size) = Load(g.mem, g.mReadPtr, tail) \o Load(g.mem, 0, n - tail)
  BY DEF ReadBytes
<1> HIDE DEF n, tail
<1>5. Load(g.mem, g.mReadPtr, tail) \in Seq(Byte)
  BY <1>0, <1>1, <1>2, LoadType
<1>6. Load(g.mem, 0, n - tail) \in Seq(Byte)
  BY <1>0, <1>1, <1>3, LoadType
<1> QED
  BY <1>4, <1>5, <1>6, ConcatProperties

\* The three branches of getBytesInternal.
LEMMA SegmentCases ==
    ASSUME NEW g, Good(g), NEW i \in Nat
    PROVE  /\ g.mReadPtr >= g.mWritePtr /\ g.mReadPtr + i >= N =>
                /\ Segment(g, i).p = g.mReadPtr + i - N
                /\ Segment(g, i).size = g.mWritePtr - (g.mReadPtr + i - N)
           /\ g.mReadPtr >= g.mWritePtr /\ ~(g.mReadPtr + i >= N) =>
                /\ Segment(g, i).p = g.mReadPtr + i
                /\ Segment(g, i).size = N - (g.mReadPtr + i)
           /\ ~(g.mReadPtr >= g.mWritePtr) =>
                /\ Segment(g, i).p = g.mReadPtr + i
                /\ Segment(g, i).size = g.mWritePtr - (g.mReadPtr + i)
<1> DEFINE p == g.mReadPtr + i
<1>1. ASSUME g.mReadPtr >= g.mWritePtr, p >= N
      PROVE  Segment(g, i).p = p - N /\ Segment(g, i).size = g.mWritePtr - (p - N)
  <2>1. Segment(g, i) = [p |-> p - N, size |-> g.mWritePtr - (p - N)]
    BY <1>1 DEF Segment
  <2> QED  BY <2>1
<1>2. ASSUME g.mReadPtr >= g.mWritePtr, ~(p >= N)
      PROVE  Segment(g, i).p = p /\ Segment(g, i).size = N - p
  <2>1. Segment(g, i) = [p |-> p, size |-> N - p]
    BY <1>2 DEF Segment
  <2> QED  BY <2>1
<1>3. ASSUME ~(g.mReadPtr >= g.mWritePtr)
      PROVE  Segment(g, i).p = p /\ Segment(g, i).size = g.mWritePtr - p
  <2>1. Segment(g, i) = [p |-> p, size |-> g.mWritePtr - p]
    BY <1>3 DEF Segment
  <2> QED  BY <2>1
<1>4. g.mReadPtr \in Int /\ g.mWritePtr \in Int /\ N \in Int
  BY Constants, GoodFields DEF Ptrs
<1> QED
  BY <1>1, <1>2, <1>3, <1>4

\* getBytesInternal points into the memory and never past its end.
LEMMA SegmentInside ==
    ASSUME NEW g, Good(g), NEW i \in Nat, i < g.mLen
    PROVE  /\ Segment(g, i).p \in 0..(N - 1)
           /\ Segment(g, i).size \in Nat /\ Segment(g, i).size >= 1
           /\ Segment(g, i).p + Segment(g, i).size <= N
           /\ i + Segment(g, i).size <= g.mLen
<1>0. N \in Nat /\ N >= 1 /\ Ptrs(g.mReadPtr, g.mWritePtr, g.mLen)
  BY Constants, GoodFields
<1>1. CASE g.mReadPtr >= g.mWritePtr /\ g.mReadPtr + i >= N
  <2>1. Segment(g, i).p = g.mReadPtr + i - N /\ Segment(g, i).size = g.mWritePtr - (g.mReadPtr + i - N)
    BY <1>1, SegmentCases
  <2> QED  BY <1>0, <1>1, <2>1 DEF Ptrs
<1>2. CASE g.mReadPtr >= g.mWritePtr /\ ~(g.mReadPtr + i >= N)
  <2>1. Segment(g, i).p = g.mReadPtr + i /\ Segment(g, i).size = N - (g.mReadPtr + i)
    BY <1>2, SegmentCases
  <2> QED  BY <1>0, <1>2, <2>1 DEF Ptrs
<1>3. CASE ~(g.mReadPtr >= g.mWritePtr)
  <2>1. Segment(g, i).p = g.mReadPtr + i /\ Segment(g, i).size = g.mWritePtr - (g.mReadPtr + i)
    BY <1>3, SegmentCases
  <2> QED  BY <1>0, <1>3, <2>1 DEF Ptrs
<1> QED
  BY <1>1, <1>2, <1>3

\* Data that is not in one piece is in two: the second one starts at mBuffer.
LEMMA TwoSegments ==
    ASSUME NEW g, Good(g), NEW i \in Nat, i = Segment(g, 0).size, i < g.mLen
    PROVE  Segment(g, i).p = 0 /\ g.mReadPtr + i = N
<1>0. N \in Nat /\ N >= 1 /\ Ptrs(g.mReadPtr, g.mWritePtr, g.mLen)
  BY Constants, GoodFields
<1>1. g.mReadPtr >= g.mWritePtr /\ g.mReadPtr + i = N /\ i \in Int
  <2>1. CASE g.mReadPtr >= g.mWritePtr /\ g.mReadPtr + 0 >= N
    <3>1. i = g.mWritePtr - (g.mReadPtr + 0 - N)
      BY <2>1, SegmentCases
    <3> QED  BY <1>0, <2>1, <3>1 DEF Ptrs
  <2>2. CASE g.mReadPtr >= g.mWritePtr /\ ~(g.mReadPtr + 0 >= N)
    <3>1. i = N - (g.mReadPtr + 0)
      BY <2>2, SegmentCases
    <3> QED  BY <1>0, <2>2, <3>1 DEF Ptrs
  <2>3. CASE ~(g.mReadPtr >= g.mWritePtr)
    <3>1. i = g.mWritePtr - (g.mReadPtr + 0)
      BY <2>3, SegmentCases
    <3> QED  BY <1>0, <2>3, <3>1 DEF Ptrs
  <2> QED  BY <2>1, <2>2, <2>3
<1>2. g.mReadPtr + i >= N
  BY <1>0, <1>1 DEF Ptrs
<1>3. Segment(g, i).p = g.mReadPtr + i - N
  BY <1>1, <1>2, SegmentCases
<1> QED
  BY <1>0, <1>1, <1>3 DEF Ptrs

\* copy stays inside the memory, in both of its memcpys.
LEMMA CopyBytesType ==
    ASSUME NEW g, Good(g), NEW size \in Nat
    PROVE  CopyBytes(g, size) \in Seq(Byte)
<1> DEFINE n == Least(size, g.mLen)
           start == Least(Segment(g, 0).size, n)
           first == Load(g.mem, Segment(g, 0).p, start)
           second == Load(g.mem, Segment(g, start).p, n - start)
<1>0. /\ N \in Nat /\ N >= 1 /\ g.mem \in Mem /\ g.mLen \in 0..N
  BY Constants, GoodFields DEF Ptrs
<1>1. n \in Nat /\ n <= g.mLen /\ n <= N
  BY <1>0 DEF Least
<1>2. CASE n = 0
  BY <1>2 DEF CopyBytes
<1>3. CASE n # 0
  <2>1. CopyBytes(g, size) = first \o (IF start < n THEN second ELSE <<>>)
    BY <1>3 DEF CopyBytes
  <2> HIDE DEF n
  <2>2. g.mLen > 0
    BY <1>0, <1>1, <1>3
  <2>3. /\ Segment(g, 0).p \in 0..(N - 1) /\ Segment(g, 0).size \in Nat
        /\ Segment(g, 0).p + Segment(g, 0).size <= N
    BY <2>2, SegmentInside
  <2>4. start \in Nat /\ start <= n /\ Segment(g, 0).p + start <= N
    BY <2>3, <1>0, <1>1 DEF Least
  <2>5. first \in Seq(Byte)
    <3>1. Segment(g, 0).p \in Nat /\ start \in Int
      BY <2>3, <2>4, <1>0
    <3> HIDE DEF start
    <3> QED  BY <3>1, <1>0, <2>4, LoadType
  <2>6. CASE start < n
    <3>1. start = Segment(g, 0).size /\ Segment(g, 0).size < g.mLen
      BY <2>6, <2>3, <1>0, <1>1 DEF Least
    <3>2. Segment(g, start).p = 0
      BY <3>1, <2>4, TwoSegments
    <3>3. n - start \in Int /\ 0 + (n - start) <= N /\ 0 \in Nat
      BY <2>4, <1>0, <1>1
    <3> HIDE DEF start
    <3>4. second \in Seq(Byte)
      BY <3>2, <3>3, <1>0, LoadType
    <3> HIDE DEF first, second
    <3> QED  BY <2>1, <2>5, <2>6, <3>4, ConcatProperties
  <2>7. CASE ~(start < n)
    <3> HIDE DEF first, second, start
    <3> QED  BY <2>1, <2>5, <2>7, ConcatEmptySeq
  <2> QED  BY <2>6, <2>7
<1> QED
  BY <1>2, <1>3

\* The size of a line is a number.
LEMMA LineSizeType ==
    ASSUME NEW g, Good(g)
    PROVE  LineSize(g) \in Int
<1> DEFINE ends == {k \in 1..g.mLen : Matched(g)[k] = Len(Terminal)}
           k == CHOOSE k \in ends : \A j \in ends : k <= j
           past == ((g.mReadPtr + k - 1) % N) + 1
<1>0. /\ N \in Nat /\ N >= 1 /\ Len(Terminal) \in Nat
      /\ g.mReadPtr \in 0..N /\ g.mWritePtr \in 0..N /\ g.mLen \in 0..N
  <2>1. Len(Terminal) \in Nat
    BY BufferAssumption, LenProperties
  <2> QED  BY <2>1, Constants, GoodFields DEF Ptrs
<1>1. ends \in SUBSET Nat
  BY <1>0
<1>2. CASE ends = {}
  BY <1>0, <1>2 DEF LineSize
<1>3. CASE ends # {}
  <2>1. k \in Nat
    <3> HIDE DEF ends
    <3>1. \E x \in ends : \A y \in ends : x <= y
      BY <1>1, <1>3, LeastNumber
    <3>2. k \in ends
      BY <3>1
    <3> QED  BY <3>2, <1>1
  <2>2. LineSize(g) = IF g.mLen = 0 THEN 0
                      ELSE IF g.mReadPtr = N THEN -1
                      ELSE IF past < g.mReadPtr
                           THEN IF past < Len(Terminal) THEN -1 ELSE N - g.mReadPtr + past
                           ELSE IF past - g.mReadPtr < Len(Terminal) THEN -1 ELSE past - g.mReadPtr
    BY <1>3 DEF LineSize
  <2> HIDE DEF k, ends
  <2>3. past \in Int
    BY <1>0, <2>1
  <2> HIDE DEF past
  <2> QED  BY <1>0, <2>2, <2>3
<1> QED
  BY <1>2, <1>3

-----------------------------------------------------------------------------
(* The threads *)

\* What a thread can be doing.
FillProc == [at : {"fill"}, size : 0..N]
ByteAtProc == [at : {"byteAt"}, p : 0..(N - 1), byte : Byte]
WaitProc == [at : {"wait"}, on : {"data", "free"}, threshold : 1..N, msecs : Msecs,
             timeout : 0..(Wrap - 1), awake : BOOLEAN]
Proc == {Idle} \cup ByteAtProc \cup FillProc \cup WaitProc

\* The field "at" tells the kinds apart.
LEMMA ProcKinds ==
    ASSUME NEW p \in Proc
    PROVE  /\ p.at = "fill" => p \in FillProc
           /\ p.at = "byteAt" => p \in ByteAtProc
           /\ p.at = "wait" => p \in WaitProc
  BY DEF Proc, FillProc, ByteAtProc, WaitProc, Idle

\* Waking a waiter keeps it a waiter.
LEMMA WaitProcUpdates ==
    ASSUME NEW p \in WaitProc, NEW b \in BOOLEAN, NEW x \in 0..(Wrap - 1)
    PROVE  /\ [p EXCEPT !.awake = b] \in WaitProc
           /\ [p EXCEPT !.timeout = x] \in WaitProc
  BY DEF WaitProc

\* A broadcast changes only waiters.
LEMMA BroadcastType ==
    ASSUME proc \in [Thread -> Proc], NEW C
    PROVE  Wakes(C) \in [Thread -> Proc]
<1> SUFFICES ASSUME NEW t \in Thread
             PROVE  (IF proc[t].at = "wait" /\ proc[t].on \in C
                     THEN [proc[t] EXCEPT !.awake = TRUE] ELSE proc[t]) \in Proc
  BY DEF Wakes
<1>1. proc[t] \in Proc
  OBVIOUS
<1>2. CASE proc[t].at = "wait" /\ proc[t].on \in C
  <2>1. proc[t] \in WaitProc
    BY <1>1, <1>2, ProcKinds
  <2>2. [proc[t] EXCEPT !.awake = TRUE] \in WaitProc
    BY <2>1 DEF WaitProc
  <2> QED  BY <1>2, <2>2 DEF Proc
<1>3. CASE ~(proc[t].at = "wait" /\ proc[t].on \in C)
  BY <1>1, <1>3
<1> QED
  BY <1>2, <1>3

-----------------------------------------------------------------------------
(* The invariant *)

\* What passes through a call.
Io == [given : Seq(Byte), asked : Sizes, got : Seq(Byte)]

LEMMA PassesType ==
    ASSUME NEW given \in Seq(Byte), NEW asked \in Sizes, NEW got \in Seq(Byte),
           Passes(given, asked, got)
    PROVE  io' \in Io /\ fault' = fault
  BY DEF Passes, Io

\* A call may pass nothing.
LEMMA Nothing == 0 \in Sizes /\ <<>> \in Seq(Byte)
  BY Constants, EmptySeq DEF Sizes

\* TypeOK and PointersAgree together, in the terms used above.
IInv == Good(ring) /\ proc \in [Thread -> Proc] /\ io \in Io /\ fault \in BOOLEAN

\* IInv is the conjunction of the two invariants the runs check.
LEMMA IInvIs == IInv <=> TypeOK /\ PointersAgree
  BY DEF IInv, Io, TypeOK, PointersAgree, Good, Agree, Proc, ByteAtProc, FillProc, WaitProc

\* The arithmetic of writeByte.
LEMMA ByteArithmetic ==
    ASSUME NEW r, NEW w, NEW l, Ptrs(r, w, l), l # N
    PROVE  Ptrs(IF r = N THEN 0 ELSE r, IF w + 1 = N THEN 0 ELSE w + 1, l + 1)
  BY Constants DEF Ptrs

\* The three calls that write.
LEMMA WritersKeep ==
    ASSUME IInv, NEW t \in Producer,
           \/ \E q \in Chunks : Write(t, q) \/ WriteOverflow(t, q)
           \/ \E b \in Byte : WriteByte(t, b)
    PROVE  IInv'
<1>0. Good(ring) /\ proc \in [Thread -> Proc] /\ Chunks \subseteq Seq(Byte)
  BY Constants DEF IInv
<1>1. ASSUME NEW q \in Chunks, Write(t, q) PROVE IInv'
  <2>1. Good(ring')
    BY <1>0, <1>1, WriteAgrees DEF Write
  <2>2. proc' \in [Thread -> Proc]
    BY <1>0, <1>1, BroadcastType DEF Write
  <2>3. io' \in Io /\ fault' = fault
    BY <1>0, <1>1, Nothing, PassesType DEF Write
  <2> QED  BY <2>1, <2>2, <2>3 DEF IInv
<1>2. ASSUME NEW q \in Chunks, WriteOverflow(t, q) PROVE IInv'
  <2> DEFINE p == IF Len(q) > N THEN SubSeq(q, Len(q) - N + 1, Len(q)) ELSE q
             over == Len(p) - Free(ring)
             g == IF over > 0 THEN Consume(ring, over) ELSE ring
  <2>1. p \in Seq(Byte)
    <3>1. q \in Seq(Byte) /\ Len(q) \in Nat /\ \A i \in 1..Len(q) : q[i] \in Byte
      BY <1>0, LenProperties, ElementOfSeq
    <3>2. CASE Len(q) > N
      <4>1. Len(q) - N + 1 \in Int /\ Len(q) \in Int
            /\ \A i \in (Len(q) - N + 1)..Len(q) : q[i] \in Byte
        BY <3>1, <3>2, Constants
      <4> QED  BY <3>2, <4>1, SubSeqProperties
    <3> QED  BY <3>1, <3>2
  <2>2. ring' = WriteInternal(g, p)
    BY <1>2 DEF WriteOverflow
  <2> HIDE DEF p
  <2>3. over \in Int
    BY <1>0, <2>1, Constants, GoodFields, LenProperties DEF Free, Ptrs
  <2> HIDE DEF over
  <2>4. Good(g)
    <3>1. CASE over > 0
      <4>1. over \in Nat
        BY <2>3, <3>1
      <4> QED  BY <1>0, <3>1, <4>1, ConsumeAgrees
    <3> QED  BY <1>0, <3>1
  <2>5. Good(ring')
    <3> HIDE DEF g
    <3> QED  BY <2>1, <2>2, <2>4, WriteAgrees
  <2>6. proc' \in [Thread -> Proc]
    BY <1>0, <1>2, BroadcastType DEF WriteOverflow
  <2>7. io' \in Io /\ fault' = fault
    BY <1>0, <1>2, Nothing, PassesType DEF WriteOverflow
  <2> QED  BY <2>5, <2>6, <2>7 DEF IInv
<1>3. ASSUME NEW b \in Byte, WriteByte(t, b) PROVE IInv'
  <2>0. io' \in Io /\ fault' = fault
    <3>1. <<b>> \in Seq(Byte)
      OBVIOUS
    <3> QED  BY <1>3, <3>1, Nothing, PassesType DEF WriteByte
  <2>1. CASE Free(ring) = 0
    BY <1>3, <2>0, <2>1 DEF IInv, WriteByte
  <2>2. CASE Free(ring) # 0
    <3> DEFINE m == Store(ring.mem, ring.mWritePtr, <<b>>)
               w == ring.mWritePtr + 1
               r == IF ring.mReadPtr = N THEN 0 ELSE ring.mReadPtr
               put == AddLength([ring EXCEPT !.mem = m, !.mWritePtr = w], 1)
    <3>0. /\ N \in Nat /\ N >= 1 /\ ring \in Ring /\ ring.mem \in Mem
          /\ Ptrs(ring.mReadPtr, ring.mWritePtr, ring.mLen)
      BY <1>0, Constants, GoodFields DEF Good
    <3>1. m \in Mem
      <4>1. <<b>> \in Seq(Byte) /\ ring.mWritePtr \in Int
        BY <3>0 DEF Ptrs
      <4> QED  BY <3>0, <4>1, StoreType
    <3>2. ring' = [put EXCEPT !.mWritePtr = IF put.mWritePtr = N THEN 0 ELSE put.mWritePtr]
      BY <1>3, <2>2 DEF WriteByte
    <3>3. put = Make(m, r, w, ring.mLen + 1)
      <4> HIDE DEF m, w
      <4> QED  BY <3>0, WriteUpdate
    <3> HIDE DEF put, m
    <3>4. ring' = Make(m, r, IF w = N THEN 0 ELSE w, ring.mLen + 1)
      <4> HIDE DEF r, w
      <4>1. put.mWritePtr = w
        BY <3>3, OneField
      <4> QED  BY <3>2, <3>3, <4>1, OneField
    <3>5. Ptrs(r, IF w = N THEN 0 ELSE w, ring.mLen + 1)
      <4>1. ring.mLen # N
        BY <3>0, <2>2 DEF Free, Ptrs
      <4> QED  BY <3>0, <4>1, ByteArithmetic
    <3>6. Good(ring')
      <4> HIDE DEF r, w
      <4> QED  BY <3>1, <3>4, <3>5, GoodFields
    <3>7. proc' \in [Thread -> Proc]
      BY <1>0, <1>3, <2>2, BroadcastType DEF WriteByte
    <3> QED  BY <2>0, <3>6, <3>7 DEF IInv
  <2> QED  BY <2>1, <2>2
<1> QED
  BY <1>1, <1>2, <1>3

\* The arithmetic of fillFromFile.
LEMMA FillArithmetic ==
    ASSUME NEW r, NEW w, NEW l, Ptrs(r, w, l), NEW n \in Nat, n <= N - l, r <= w => n <= N - w
    PROVE  Ptrs(IF r = N THEN 0 ELSE r, IF r <= w /\ w + n = N THEN 0 ELSE w + n, l + n)
  BY Constants DEF Ptrs

\* The two steps of fillFromFile.
LEMMA FillKeeps ==
    ASSUME IInv, NEW t \in Producer,
           \/ \E size \in Sizes : FillFromFile(t, size)
           \/ FillFails(t)
           \/ \E q \in Chunks \cup {<<>>} : FillReads(t, q)
    PROVE  IInv'
<1>0. /\ Good(ring) /\ proc \in [Thread -> Proc] /\ Chunks \subseteq Seq(Byte)
      /\ N \in Nat /\ N >= 1 /\ ring \in Ring /\ ring.mem \in Mem
      /\ Ptrs(ring.mReadPtr, ring.mWritePtr, ring.mLen) /\ t \in Thread /\ Idle \in Proc
  BY Constants, GoodFields DEF IInv, Good, Thread, Proc
<1>1. ASSUME NEW size \in Sizes, FillFromFile(t, size) PROVE IInv'
  <2>1. Least(size, Free(ring)) \in 0..N
    BY <1>0 DEF Sizes, Least, Free, Ptrs
  <2>2. [at |-> "fill", size |-> Least(size, Free(ring))] \in Proc
    BY <2>1 DEF Proc, FillProc
  <2> QED  BY <1>0, <1>1, <2>2 DEF FillFromFile, IInv
<1>2. ASSUME FillFails(t) PROVE IInv'
  BY <1>0, <1>2 DEF IInv, FillFails
<1>3. ASSUME NEW q \in Chunks \cup {<<>>}, FillReads(t, q), Len(q) > Free(ring) PROVE IInv'
  BY <1>3 DEF IInv, FillReads
<1>4. ASSUME NEW q \in Chunks \cup {<<>>}, FillReads(t, q), ~(Len(q) > Free(ring)) PROVE IInv'
  <2> DEFINE n == Len(q)
             w == IF ring.mReadPtr <= ring.mWritePtr /\ ring.mWritePtr + n = N THEN 0
                  ELSE ring.mWritePtr + n
             r == IF ring.mReadPtr = N THEN 0 ELSE ring.mReadPtr
             m == Store(ring.mem, ring.mWritePtr, q)
  <2>1. q \in Seq(Byte) /\ n \in Nat
    <3>1. q \in Seq(Byte)
      BY <1>0, EmptySeq
    <3> QED  BY <3>1, LenProperties
  <2>2. m \in Mem
    <3>1. ring.mWritePtr \in Int
      BY <1>0 DEF Ptrs
    <3> QED  BY <1>0, <2>1, <3>1, StoreType
  <2>3. /\ ring' = AddLength([ring EXCEPT !.mem = m, !.mWritePtr = w], n)
        /\ proc' = [Wakes({"data"}) EXCEPT ![t] = Idle] /\ Passes(q, 0, <<>>)
        /\ n <= FillRoom(ring, proc[t].size) /\ proc[t].at = "fill"
    BY <1>4 DEF FillReads, FillRing
  <2> HIDE DEF m, n
  <2>4. n <= N - ring.mLen
    BY <1>0, <1>4, <2>1 DEF Free, n, Ptrs
  <2>5. proc[t].size \in 0..N
    <3>1. proc[t] \in FillProc
      BY <1>0, <2>3, ProcKinds
    <3> QED  BY <3>1 DEF FillProc
  <2>6. Ptrs(r, w, ring.mLen + n)
    <3>1. ring.mReadPtr <= ring.mWritePtr => n <= N - ring.mWritePtr
      BY <1>0, <2>1, <2>3, <2>5 DEF FillRoom, Least, Ptrs
    <3> QED  BY <1>0, <2>1, <2>4, <3>1, FillArithmetic
  <2> HIDE DEF r, w
  <2>7. ring' = Make(m, r, w, ring.mLen + n)
    BY <1>0, <2>3, WriteUpdate DEF r
  <2>8. Good(ring')
    BY <2>2, <2>6, <2>7, GoodFields
  <2>9. proc' \in [Thread -> Proc]
    BY <1>0, <2>3, BroadcastType
  <2>10. io' \in Io /\ fault' = fault
    BY <2>1, <2>3, Nothing, PassesType
  <2> QED  BY <2>8, <2>9, <2>10 DEF IInv
<1> QED
  BY <1>1, <1>2, <1>3, <1>4

\* clear, field by field.
LEMMA ClearUpdate ==
    ASSUME NEW g \in Ring
    PROVE  [g EXCEPT !.mReadPtr = 0, !.mWritePtr = 0, !.mLen = 0] = Make(g.mem, 0, 0, 0)
<1>1. [g EXCEPT !.mReadPtr = 0, !.mWritePtr = 0, !.mLen = 0]
        = [[[g EXCEPT !.mReadPtr = 0] EXCEPT !.mWritePtr = 0] EXCEPT !.mLen = 0]
  OBVIOUS
<1>2. [g EXCEPT !.mReadPtr = 0] = Make(g.mem, 0, g.mWritePtr, g.mLen)
  BY RingIsMade, OneField
<1>3. [Make(g.mem, 0, g.mWritePtr, g.mLen) EXCEPT !.mWritePtr = 0] = Make(g.mem, 0, 0, g.mLen)
  BY OneField
<1>4. [Make(g.mem, 0, 0, g.mLen) EXCEPT !.mLen = 0] = Make(g.mem, 0, 0, 0)
  BY OneField
<1> QED
  BY <1>1, <1>2, <1>3, <1>4

\* The calls that take bytes out of the ring.
LEMMA ReadersKeep ==
    ASSUME IInv, NEW t \in Consumer,
           \/ \E size \in Sizes, copied \in BOOLEAN : Read(t, size, copied)
           \/ Clear(t) \/ GetLine(t)
    PROVE  IInv'
<1>0. /\ Good(ring) /\ proc \in [Thread -> Proc] /\ io \in Io /\ fault \in BOOLEAN
      /\ N \in Nat /\ N >= 1 /\ Len(Terminal) \in Nat
  <2>1. Len(Terminal) \in Nat
    BY BufferAssumption, LenProperties
  <2> QED  BY <2>1, Constants DEF IInv
<1>1. ASSUME NEW size \in Sizes, NEW copied \in BOOLEAN, Read(t, size, copied) PROVE IInv'
  <2>1. size \in Nat /\ size \in Int
    BY <1>0 DEF Sizes
  <2>2. Good(ring')
    BY <1>0, <1>1, <2>1, ConsumeAgrees DEF Read
  <2>3. proc' \in [Thread -> Proc]
    BY <1>0, <1>1, BroadcastType DEF Read
  <2>4. io' \in Io /\ fault' = fault
    <3> DEFINE got == IF copied THEN ReadBytes(ring, size) ELSE <<>>
    <3>1. got \in Seq(Byte)
      BY <1>0, <2>1, ReadBytesType, Nothing
    <3>2. Passes(<<>>, size, got)
      BY <1>1 DEF Read
    <3> HIDE DEF got
    <3> QED  BY <3>1, <3>2, Nothing, PassesType
  <2> QED  BY <1>0, <2>2, <2>3, <2>4 DEF IInv
<1>2. ASSUME Clear(t) PROVE IInv'
  <2>1. ring' = Make(ring.mem, 0, 0, 0)
    BY <1>0, <1>2, ClearUpdate DEF Clear, Good
  <2>2. Ptrs(0, 0, 0)
    BY <1>0 DEF Ptrs
  <2>3. Good(ring')
    BY <1>0, <2>1, <2>2, GoodFields
  <2>4. proc' \in [Thread -> Proc]
    BY <1>0, <1>2, BroadcastType DEF Clear
  <2>5. io' \in Io /\ fault' = fault
    BY <1>2, Nothing, PassesType DEF Clear
  <2> QED  BY <1>0, <2>3, <2>4, <2>5 DEF IInv
<1>3. ASSUME GetLine(t), LineSize(ring) < 0 PROVE IInv'
  BY <1>3 DEF IInv, GetLine
<1>4. ASSUME GetLine(t), ~(LineSize(ring) < 0) PROVE IInv'
  <2>1. LineSize(ring) \in Int /\ LineSize(ring) \in Nat /\ LineSize(ring) - Len(Terminal) \in Int
    BY <1>0, <1>4, LineSizeType
  <2>2. Good(ring')
    BY <1>0, <1>4, <2>1, ConsumeAgrees DEF GetLine
  <2>3. proc' \in [Thread -> Proc]
    BY <1>0, <1>4, BroadcastType DEF GetLine
  <2>4. LineBytes(ring) \in Seq(Byte)
    BY <1>0, <2>1, ReadBytesType DEF LineBytes
  <2>5. io' \in Io /\ fault' = fault
    BY <1>4, <2>4, Nothing, PassesType DEF GetLine
  <2> QED  BY <1>0, <2>2, <2>3, <2>5 DEF IInv
<1> QED
  BY <1>1, <1>2, <1>3, <1>4

\* The calls that look into the ring.
LEMMA PeekersKeep ==
    ASSUME IInv, NEW t \in Thread,
           \/ \E size \in Sizes : Copy(t, size) \/ ByteAt(t, size)
           \/ ByteAtReturns(t) \/ PeekLine(t)
    PROVE  IInv'
<1>0. /\ Good(ring) /\ proc \in [Thread -> Proc] /\ io \in Io /\ fault \in BOOLEAN
      /\ N \in Nat /\ N >= 1 /\ Len(Terminal) \in Nat /\ t \in Thread /\ Idle \in Proc
      /\ ring.mem \in Mem
  <2>1. Len(Terminal) \in Nat
    BY BufferAssumption, LenProperties
  <2> QED  BY <2>1, Constants, GoodFields DEF IInv, Thread, Proc
<1>1. ASSUME NEW size \in Sizes, Copy(t, size) PROVE IInv'
  <2>1. size \in Nat
    BY <1>0 DEF Sizes
  <2>2. CopyBytes(ring, size) \in Seq(Byte)
    BY <1>0, <2>1, CopyBytesType
  <2>3. io' \in Io /\ fault' = fault /\ ring' = ring /\ proc' = proc
    BY <1>1, <2>2, Nothing, PassesType DEF Copy
  <2> QED  BY <1>0, <2>3 DEF IInv
<1>2. ASSUME NEW i \in Sizes, ByteAt(t, i) PROVE IInv'
  <2>1. i \in Nat /\ i < ring.mLen
    BY <1>0, <1>2 DEF Sizes, ByteAt
  <2>2. Segment(ring, i).p \in 0..(N - 1)
    BY <1>0, <2>1, SegmentInside
  <2>3. ByteOf(ring, i) \in Byte
    <3>1. ring.mReadPtr + i \in Int
      BY <1>0, <2>1, GoodFields DEF Ptrs
    <3>2. (ring.mReadPtr + i) % N \in 0..(N - 1)
      BY <1>0, <3>1
    <3> QED  BY <1>0, <3>2 DEF Mem, ByteOf
  <2>4. [at |-> "byteAt", p |-> Segment(ring, i).p, byte |-> ByteOf(ring, i)] \in Proc
    BY <2>2, <2>3 DEF Proc, ByteAtProc
  <2>5. proc' \in [Thread -> Proc] /\ ring' = ring /\ io' = io /\ fault' = fault
    BY <1>0, <1>2, <2>4 DEF ByteAt
  <2> QED  BY <1>0, <2>5 DEF IInv
<1>3. ASSUME ByteAtReturns(t) PROVE IInv'
  BY <1>0, <1>3 DEF IInv, ByteAtReturns
<1>4. ASSUME PeekLine(t), LineSize(ring) < 0 PROVE IInv'
  BY <1>4 DEF IInv, PeekLine
<1>5. ASSUME PeekLine(t), ~(LineSize(ring) < 0) PROVE IInv'
  <2>1. LineSize(ring) - Len(Terminal) \in Int
    BY <1>0, LineSizeType
  <2>2. LineBytes(ring) \in Seq(Byte)
    BY <1>0, <2>1, ReadBytesType DEF LineBytes
  <2>3. io' \in Io /\ fault' = fault /\ ring' = ring /\ proc' = proc
    BY <1>5, <2>2, Nothing, PassesType DEF PeekLine
  <2> QED  BY <1>0, <2>3 DEF IInv
<1> QED
  BY <1>1, <1>2, <1>3, <1>4, <1>5

\* A timeout is a number.
LEMMA MsecsAreNumbers == \A x \in Msecs : x \in Int /\ x \in 0..(Wrap - 1)
<1>1. Msecs \subseteq 1..(Wrap - 1) /\ Wrap \in Nat
  BY BufferAssumption
<1>2. \A x \in 1..(Wrap - 1) : x \in Int /\ x \in 0..(Wrap - 1)
  BY <1>1
<1> QED
  BY <1>1, <1>2

\* The waiters.
LEMMA WaitersKeep ==
    ASSUME IInv, NEW t \in Thread,
           \/ \E threshold \in 1..N, msecs \in Msecs :
                WaitFor(t, "free", threshold, msecs) \/ WaitFor(t, "data", threshold, msecs)
           \/ Awake(t) \/ TimedOut(t)
    PROVE  IInv'
<1>0. /\ Good(ring) /\ proc \in [Thread -> Proc] /\ io \in Io /\ fault \in BOOLEAN
      /\ Idle \in Proc /\ Wrap \in Nat /\ Wrap >= 1 /\ Msecs \subseteq 1..(Wrap - 1)
      /\ MaxElapsed \in Nat
  BY BufferAssumption DEF IInv, Proc
<1>1. ASSUME NEW on \in {"data", "free"}, NEW threshold \in 1..N, NEW msecs \in Msecs,
             WaitFor(t, on, threshold, msecs)
      PROVE  IInv'
  <2> DEFINE p == [at |-> "wait", on |-> on, threshold |-> threshold, msecs |-> msecs,
                   timeout |-> msecs, awake |-> FALSE]
  <2>1. msecs \in 0..(Wrap - 1)
    BY MsecsAreNumbers
  <2>2. p \in Proc
    BY <2>1 DEF Proc, WaitProc
  <2>3. proc' = proc \/ proc' = [proc EXCEPT ![t] = p]
    BY <1>1 DEF WaitFor
  <2>4. ring' = ring /\ io' = io /\ fault' = fault
    BY <1>1 DEF WaitFor
  <2> HIDE DEF p
  <2>5. proc' \in [Thread -> Proc]
    BY <1>0, <2>2, <2>3
  <2> QED  BY <1>0, <2>4, <2>5 DEF IInv
<1>2. ASSUME Awake(t), Ready(proc[t], ring) PROVE IInv'
  BY <1>0, <1>2 DEF IInv, Awake
<1>3. ASSUME Awake(t), ~Ready(proc[t], ring) PROVE IInv'
  <2>1. PICK elapsed \in 0..MaxElapsed :
          proc' = [proc EXCEPT ![t].awake = FALSE,
                               ![t].timeout = (proc[t].msecs - elapsed) % Wrap]
    BY <1>3 DEF Awake
  <2> DEFINE x == (proc[t].msecs - elapsed) % Wrap
             p == [proc[t] EXCEPT !.awake = FALSE]
  <2>2. proc[t] \in WaitProc
    BY <1>0, <1>3, ProcKinds DEF Awake
  <2>3. proc[t].msecs \in Int
    <3>1. proc[t].msecs \in Msecs
      BY <2>2 DEF WaitProc
    <3> QED  BY <3>1, MsecsAreNumbers
  <2>4. x \in 0..(Wrap - 1)
    BY <1>0, <2>3
  <2> HIDE DEF x
  <2>5. p \in WaitProc
    BY <2>2, <2>4, WaitProcUpdates
  <2>6. [p EXCEPT !.timeout = x] \in Proc
    BY <2>4, <2>5, WaitProcUpdates DEF Proc
  <2>7. proc' = [proc EXCEPT ![t] = [p EXCEPT !.timeout = x]]
    <3> DEFINE f == [proc EXCEPT ![t].awake = FALSE]
    <3>1. proc' = [f EXCEPT ![t].timeout = x]
      BY <2>1 DEF x
    <3>2. f = [proc EXCEPT ![t] = p]
      OBVIOUS
    <3> HIDE DEF p, f
    <3>3. f[t] = p
      BY <1>0, <3>2
    <3>4. proc' = [f EXCEPT ![t] = [p EXCEPT !.timeout = x]]
      BY <3>1, <3>3
    <3> QED  BY <1>0, <3>2, <3>4
  <2> HIDE DEF p
  <2>8. proc' \in [Thread -> Proc]
    BY <1>0, <2>6, <2>7
  <2>9. ring' = ring /\ io' = io /\ fault' = fault
    BY <1>3 DEF Awake
  <2> QED  BY <1>0, <2>8, <2>9 DEF IInv
<1>4. ASSUME TimedOut(t) PROVE IInv'
  BY <1>0, <1>4 DEF IInv, TimedOut
<1> QED
  BY <1>1, <1>2, <1>3, <1>4

\* The empty ring of the constructor agrees with itself.
LEMMA InitGood == BufferInit => IInv
<1> SUFFICES ASSUME BufferInit PROVE IInv
  OBVIOUS
<1>1. ring \in Ring /\ ring.mReadPtr = 0 /\ ring.mWritePtr = 0 /\ ring.mLen = 0
  BY DEF BufferInit
<1>2. Good(ring)
  BY <1>1, Constants DEF Good, Agree
<1> QED
  BY <1>2, Nothing DEF BufferInit, IInv, Io, Proc

\* Every step of every thread keeps the invariant.
LEMMA StepKeeps ==
    ASSUME IInv, [BufferNext]_bufferVars
    PROVE  IInv'
<1>1. CASE UNCHANGED bufferVars
  BY <1>1 DEF IInv, bufferVars
<1>2. ASSUME NEW t \in Producer,
             \/ \E q \in Chunks : Write(t, q)
             \/ \E b \in Byte : WriteByte(t, b)
             \/ \E size \in Sizes : FillFromFile(t, size)
             \/ FillFails(t)
             \/ \E q \in Chunks \cup {<<>>} : FillReads(t, q)
             \/ \E threshold \in 1..N, msecs \in Msecs : WaitFor(t, "free", threshold, msecs)
      PROVE  IInv'
  <2>1. t \in Thread
    BY DEF Thread
  <2> QED  BY <1>2, <2>1, WritersKeep, FillKeeps, WaitersKeep
<1>3. ASSUME NEW t \in Overwriter, NEW q \in Chunks, WriteOverflow(t, q) PROVE IInv'
  <2>1. t \in Producer
    BY BufferAssumption
  <2> QED  BY <1>3, <2>1, WritersKeep
<1>4. ASSUME NEW t \in Consumer,
             \/ \E size \in Sizes : Copy(t, size)
             \/ \E size \in Sizes, copied \in BOOLEAN : Read(t, size, copied)
             \/ Clear(t) \/ GetLine(t) \/ PeekLine(t)
             \/ \E threshold \in 1..N, msecs \in Msecs : WaitFor(t, "data", threshold, msecs)
      PROVE  IInv'
  <2>1. t \in Thread
    BY DEF Thread
  <2> QED  BY <1>4, <2>1, ReadersKeep, PeekersKeep, WaitersKeep
<1>5. ASSUME NEW t \in Prober, ByteAtReturns(t) \/ \E i \in Sizes : ByteAt(t, i) PROVE IInv'
  <2>1. t \in Thread
    BY BufferAssumption DEF Thread
  <2> QED  BY <1>5, <2>1, PeekersKeep
<1>6. ASSUME NEW t \in Thread, Awake(t) \/ TimedOut(t) PROVE IInv'
  BY <1>6, WaitersKeep
<1> QED
  BY <1>1, <1>2, <1>3, <1>4, <1>5, <1>6 DEF BufferNext

\* Both invariants at once.
LEMMA AlwaysGood == BufferSpec => []IInv
<1>1. BufferInit => IInv
  BY InitGood
<1>2. IInv /\ [BufferNext]_bufferVars => IInv'
  BY StepKeeps
<1> QED
  BY <1>1, <1>2, PTL DEF BufferSpec

\* For every ring size, memory content and set of threads, the read pointer,
\* the write pointer and the length that write_internal, read, fillFromFile,
\* writeByte, write_overflow, getLine and clear keep separately always agree.
THEOREM PointersAlwaysAgree == BufferSpec => []PointersAgree
<1>1. IInv => PointersAgree
  BY IInvIs
<1> QED
  BY <1>1, AlwaysGood, PTL

\* For every ring size, both pointers stay inside the memory and every byte a
\* caller is handed, also by copy's two memcpys, comes out of it; so does the
\* pointer that byteAt dereferences without the lock.
THEOREM BufferTypeCorrect == BufferSpec => []TypeOK
<1>1. IInv => TypeOK
  BY IInvIs
<1> QED
  BY <1>1, AlwaysGood, PTL

-----------------------------------------------------------------------------
(* Sleepers *)

\* How many bytes a write adds and a read takes.
LEMMA LengthsChange ==
    ASSUME NEW g, Good(g)
    PROVE  /\ \A q \in Seq(Byte) : WriteInternal(g, q).mLen = g.mLen + Least(Len(q), Free(g))
           /\ \A size \in Nat : Consume(g, size).mLen = g.mLen - Least(size, g.mLen)
           /\ \A q \in Seq(Byte) : FillRing(g, q).mLen = g.mLen + Len(q)
<1>0. g \in Ring /\ g.mLen \in 0..N /\ N \in Nat
  BY Constants, GoodFields DEF Good, Ptrs
<1>1. ASSUME NEW q \in Seq(Byte)
      PROVE  WriteInternal(g, q).mLen = g.mLen + Least(Len(q), Free(g))
  <2> DEFINE size == Least(Len(q), Free(g))
             tail == Least(N - g.mWritePtr, size)
             next == IF g.mWritePtr + tail = N THEN 0 ELSE g.mWritePtr + tail
             m == Store(Store(g.mem, g.mWritePtr, SubSeq(q, 1, tail)), next, SubSeq(q, tail + 1, size))
             w == next + (size - tail)
  <2>1. CASE size = 0
    BY <1>0, <2>1 DEF WriteInternal
  <2>2. CASE size # 0
    <3>1. WriteInternal(g, q) = AddLength([g EXCEPT !.mem = m, !.mWritePtr = w], size)
      BY <2>2 DEF WriteInternal
    <3> HIDE DEF size, m, w
    <3>2. WriteInternal(g, q) = Make(m, IF g.mReadPtr = N THEN 0 ELSE g.mReadPtr, w, g.mLen + size)
      BY <3>1, <1>0, WriteUpdate
    <3>3. WriteInternal(g, q).mLen = g.mLen + size
      BY <3>2, OneField
    <3> QED  BY <3>3 DEF size
  <2> QED  BY <2>1, <2>2
<1>2. ASSUME NEW size \in Nat
      PROVE  Consume(g, size).mLen = g.mLen - Least(size, g.mLen)
  <2> DEFINE n == Least(size, g.mLen)
             tail == Least(N - g.mReadPtr, n)
             r == IF tail < n THEN n - tail ELSE g.mReadPtr + tail
  <2>1. CASE n = 0
    BY <1>0, <2>1 DEF Consume
  <2>2. CASE n # 0
    <3>1. Consume(g, size) = SubtractLength([g EXCEPT !.mReadPtr = r], n)
      BY <2>2 DEF Consume
    <3> HIDE DEF n, r
    <3>2. Consume(g, size) = Make(g.mem, r, IF g.mWritePtr = N THEN 0 ELSE g.mWritePtr, g.mLen - n)
      BY <3>1, <1>0, ReadUpdate
    <3>3. Consume(g, size).mLen = g.mLen - n
      BY <3>2, OneField
    <3> QED  BY <3>3 DEF n
  <2> QED  BY <2>1, <2>2
<1>3. ASSUME NEW q \in Seq(Byte) PROVE FillRing(g, q).mLen = g.mLen + Len(q)
  <2> DEFINE n == Len(q)
             w == IF g.mReadPtr <= g.mWritePtr /\ g.mWritePtr + n = N THEN 0
                  ELSE g.mWritePtr + n
             m == Store(g.mem, g.mWritePtr, q)
  <2>1. FillRing(g, q) = AddLength([g EXCEPT !.mem = m, !.mWritePtr = w], n)
    BY DEF FillRing
  <2> HIDE DEF n, m, w
  <2>2. FillRing(g, q) = Make(m, IF g.mReadPtr = N THEN 0 ELSE g.mReadPtr, w, g.mLen + n)
    BY <2>1, <1>0, WriteUpdate
  <2>3. FillRing(g, q).mLen = g.mLen + n
    BY <2>2, OneField
  <2> QED  BY <2>3 DEF n
<1> QED
  BY <1>1, <1>2, <1>3

\* What SleepersHaveReason says of one thread.
Reasoned(p, g) == p.at = "wait" => p.awake \/ ~Ready(p, g)

LEMMA ReasonedIs == SleepersHaveReason <=> \A t \in Thread : Reasoned(proc[t], ring)
  BY DEF SleepersHaveReason, Reasoned, Waiting

\* A ring that gains no bytes makes no reader ready, one that loses none no
\* writer.
LEMMA StillReasoned ==
    ASSUME NEW p \in Proc, NEW g, NEW h, Good(g), Good(h), Reasoned(p, g),
           p.at = "wait" =>
             \/ p.on = "data" /\ h.mLen <= g.mLen
             \/ p.on = "free" /\ h.mLen >= g.mLen
    PROVE  Reasoned(p, h)
<1> SUFFICES ASSUME p.at = "wait", ~p.awake, ~Ready(p, g) PROVE ~Ready(p, h)
  BY DEF Reasoned
<1>0. g.mLen \in 0..N /\ h.mLen \in 0..N /\ N \in Nat
  BY Constants, GoodFields DEF Ptrs
<1>1. p.threshold \in Int
  <2>1. p \in WaitProc
    BY ProcKinds
  <2> QED  BY <2>1, <1>0 DEF WaitProc
<1> QED
  BY <1>0, <1>1 DEF Ready, Free

\* A broadcast to every waiter the new ring can make ready.
LEMMA BroadcastReasons ==
    ASSUME Good(ring), proc \in [Thread -> Proc], SleepersHaveReason,
           NEW h, Good(h), NEW C,
           h.mLen > ring.mLen => "data" \in C, h.mLen < ring.mLen => "free" \in C
    PROVE  \A t \in Thread : Reasoned(Wakes(C)[t], h)
<1> TAKE t \in Thread
<1>0. proc[t] \in Proc /\ Reasoned(proc[t], ring)
  BY ReasonedIs
<1>1. CASE proc[t].at = "wait" /\ proc[t].on \in C
  <2>1. proc[t] \in WaitProc
    BY <1>0, <1>1, ProcKinds
  <2>2. Wakes(C)[t] = [proc[t] EXCEPT !.awake = TRUE]
    BY <1>1 DEF Wakes
  <2>3. Wakes(C)[t].awake
    BY <2>1, <2>2 DEF WaitProc
  <2> QED  BY <2>3 DEF Reasoned
<1>2. CASE ~(proc[t].at = "wait" /\ proc[t].on \in C)
  <2>1. Wakes(C)[t] = proc[t]
    BY <1>2 DEF Wakes
  <2>2. ring.mLen \in Int /\ h.mLen \in Int
    BY GoodFields DEF Ptrs
  <2>3. proc[t].at = "wait" =>
          \/ proc[t].on = "data" /\ h.mLen <= ring.mLen
          \/ proc[t].on = "free" /\ h.mLen >= ring.mLen
    <3>1. proc[t].at = "wait" => proc[t].on \in {"data", "free"}
      BY <1>0, ProcKinds DEF WaitProc
    <3> QED  BY <1>2, <2>2, <3>1
  <2> QED  BY <1>0, <2>1, <2>3, StillReasoned
<1> QED
  BY <1>1, <1>2

\* The proof obligation of a step, thread by thread.
LEMMA ReasonedNext ==
    ASSUME \A t \in Thread : Reasoned(proc'[t], ring')
    PROVE  SleepersHaveReason'
  BY DEF SleepersHaveReason, Reasoned, Waiting

\* One thread starts or stops to sleep, and the ring stays as it is.
LEMMA OneThreadReasons ==
    ASSUME IInv, SleepersHaveReason, ring' = ring, NEW t \in Thread, NEW p, Reasoned(p, ring),
           proc' = [proc EXCEPT ![t] = p]
    PROVE  SleepersHaveReason'
<1>1. \A x \in Thread : proc'[x] = proc[x] \/ proc'[x] = p
  BY DEF IInv
<1>2. \A x \in Thread : Reasoned(proc[x], ring)
  BY ReasonedIs
<1>3. \A x \in Thread : Reasoned(proc'[x], ring)
  BY <1>1, <1>2
<1> QED
  BY <1>3, ReasonedNext

\* A call tells those whom it may have made ready.
LEMMA CallReasons ==
    ASSUME IInv, SleepersHaveReason, IInv', NEW C, proc' = Wakes(C),
           ring'.mLen > ring.mLen => "data" \in C, ring'.mLen < ring.mLen => "free" \in C
    PROVE  SleepersHaveReason'
<1>1. \A t \in Thread : Reasoned(Wakes(C)[t], ring')
  BY BroadcastReasons DEF IInv
<1> QED
  BY <1>1, ReasonedNext

\* An idle thread does not sleep.
LEMMA IdleReasons == \A g : Reasoned(Idle, g)
  BY DEF Reasoned, Idle

\* Neither does a broadcast to nobody, or a call that does nothing, change
\* anything.
LEMMA NothingReasons ==
    ASSUME IInv, SleepersHaveReason, ring' = ring, proc' = proc
    PROVE  SleepersHaveReason'
  BY DEF SleepersHaveReason, Ready, Waiting, Free

\* The calls of a producer.
LEMMA ProducerReasons ==
    ASSUME IInv, IInv', SleepersHaveReason, NEW t \in Producer,
           \/ \E q \in Chunks : Write(t, q) \/ WriteOverflow(t, q)
           \/ \E b \in Byte : WriteByte(t, b)
           \/ \E size \in Sizes : FillFromFile(t, size)
           \/ FillFails(t)
           \/ \E q \in Chunks \cup {<<>>} : FillReads(t, q)
    PROVE  SleepersHaveReason'
<1>0. /\ Good(ring) /\ Good(ring') /\ proc \in [Thread -> Proc] /\ Chunks \subseteq Seq(Byte)
      /\ N \in Nat /\ N >= 1 /\ ring.mLen \in 0..N /\ t \in Thread
  BY Constants, GoodFields DEF IInv, Ptrs, Thread
<1>1. ASSUME NEW q \in Chunks, Write(t, q) PROVE SleepersHaveReason'
  <2>0. q \in Seq(Byte) /\ Len(q) \in Nat
    BY <1>0, LenProperties
  <2>1. ring'.mLen = ring.mLen + Least(Len(q), Free(ring))
    BY <1>0, <1>1, <2>0, LengthsChange DEF Write
  <2>2. CASE Least(Len(q), Free(ring)) > 0
    <3>1. proc' = Wakes({"data"})
      BY <1>1, <2>2 DEF Write
    <3>2. ~(ring'.mLen < ring.mLen)
      BY <1>0, <2>0, <2>1 DEF Least, Free
    <3> QED  BY <3>1, <3>2, CallReasons
  <2>3. CASE ~(Least(Len(q), Free(ring)) > 0)
    <3>1. Least(Len(q), Free(ring)) = 0
      BY <1>0, <2>0, <2>3 DEF Least, Free
    <3>2. ring' = ring /\ proc' = proc
      BY <1>1, <2>3, <3>1 DEF Write, WriteInternal
    <3> QED  BY <3>2, NothingReasons
  <2> QED  BY <2>2, <2>3
<1>2. ASSUME NEW q \in Chunks, WriteOverflow(t, q) PROVE SleepersHaveReason'
  <2> DEFINE p == IF Len(q) > N THEN SubSeq(q, Len(q) - N + 1, Len(q)) ELSE q
             over == Len(p) - Free(ring)
             g == IF over > 0 THEN Consume(ring, over) ELSE ring
             C == (IF over > 0 THEN {"free"} ELSE {}) \cup (IF p # <<>> THEN {"data"} ELSE {})
  <2>1. p \in Seq(Byte) /\ Len(p) \in Nat /\ Len(p) <= N
    <3>1. q \in Seq(Byte) /\ Len(q) \in Nat /\ \A i \in 1..Len(q) : q[i] \in Byte
      BY <1>0, LenProperties, ElementOfSeq
    <3>2. CASE Len(q) > N
      <4>1. Len(q) - N + 1 \in Int /\ Len(q) \in Int
            /\ \A i \in (Len(q) - N + 1)..Len(q) : q[i] \in Byte
        BY <3>1, <3>2, <1>0
      <4>2. p \in Seq(Byte)
        BY <3>2, <4>1, SubSeqProperties
      <4>3. Len(p) = IF Len(q) - N + 1 <= Len(q) THEN Len(q) - (Len(q) - N + 1) + 1 ELSE 0
        BY <3>2, <4>1, SubSeqProperties
      <4> QED  BY <3>1, <4>2, <4>3, <1>0
    <3> QED  BY <3>1, <3>2, <1>0
  <2>2. ring' = WriteInternal(g, p) /\ proc' = Wakes(C)
    BY <1>2 DEF WriteOverflow
  <2>3. p = <<>> => Len(p) = 0
    BY EmptySeq
  <2> HIDE DEF p
  <2>4. over \in Int /\ Free(ring) = N - ring.mLen /\ over = Len(p) - (N - ring.mLen)
    BY <1>0, <2>1 DEF Free
  <2>5. CASE over > 0
    <3>1. over \in Nat /\ g = Consume(ring, over) /\ "free" \in C
      BY <2>4, <2>5
    <3> HIDE DEF over, C
    <3>2. p # <<>>
      BY <2>1, <2>3, <2>4, <2>5, <1>0 DEF over
    <3>3. "data" \in C
      BY <3>2 DEF C
    <3> QED  BY <2>2, <3>1, <3>3, CallReasons
  <2>6. CASE ~(over > 0)
    <3>1. g = ring
      BY <2>6
    <3>2. ring'.mLen = ring.mLen + Least(Len(p), Free(ring))
      <4> HIDE DEF over
      <4> QED  BY <1>0, <2>1, <2>2, <3>1, LengthsChange
    <3>3. ~(ring'.mLen < ring.mLen) /\ (ring'.mLen > ring.mLen => Len(p) # 0)
      BY <1>0, <2>1, <2>4, <3>2 DEF Least
    <3>4. ring'.mLen > ring.mLen => "data" \in C
      BY <2>3, <3>3
    <3> HIDE DEF C
    <3> QED  BY <2>2, <3>3, <3>4, CallReasons
  <2> QED  BY <2>5, <2>6
<1>3. ASSUME NEW b \in Byte, WriteByte(t, b) PROVE SleepersHaveReason'
  <2>1. CASE Free(ring) = 0
    <3>1. ring' = ring /\ proc' = proc
      BY <1>3, <2>1 DEF WriteByte
    <3> QED  BY <3>1, NothingReasons
  <2>2. CASE Free(ring) # 0
    <3> DEFINE m == Store(ring.mem, ring.mWritePtr, <<b>>)
               w == ring.mWritePtr + 1
               r == IF ring.mReadPtr = N THEN 0 ELSE ring.mReadPtr
               put == AddLength([ring EXCEPT !.mem = m, !.mWritePtr = w], 1)
    <3>1. /\ ring' = [put EXCEPT !.mWritePtr = IF put.mWritePtr = N THEN 0 ELSE put.mWritePtr]
          /\ proc' = Wakes({"data"})
      BY <1>3, <2>2 DEF WriteByte
    <3>2. put = Make(m, r, w, ring.mLen + 1)
      <4> HIDE DEF m, w
      <4> QED  BY <1>0, WriteUpdate DEF Good
    <3> DEFINE v == IF put.mWritePtr = N THEN 0 ELSE put.mWritePtr
    <3>3. ring' = Make(m, r, v, ring.mLen + 1)
      <4>1. ring' = [put EXCEPT !.mWritePtr = v]
        BY <3>1
      <4> HIDE DEF put, m, w, r, v
      <4> QED  BY <3>2, <4>1, OneField
    <3>4. ring'.mLen = ring.mLen + 1
      <4> HIDE DEF v, m, r
      <4> QED  BY <3>3, OneField
    <3>5. ~(ring'.mLen < ring.mLen)
      BY <1>0, <3>4
    <3> QED  BY <3>1, <3>5, CallReasons
  <2> QED  BY <2>1, <2>2
<1>4. ASSUME NEW size \in Sizes, FillFromFile(t, size) PROVE SleepersHaveReason'
  <2> DEFINE p == [at |-> "fill", size |-> Least(size, Free(ring))]
  <2>1. ring' = ring /\ proc' = [proc EXCEPT ![t] = p] /\ Reasoned(p, ring)
    BY <1>4 DEF FillFromFile, Reasoned
  <2> HIDE DEF p
  <2> QED  BY <1>0, <2>1, OneThreadReasons
<1>5. ASSUME FillFails(t) PROVE SleepersHaveReason'
  BY <1>0, <1>5, IdleReasons, OneThreadReasons DEF FillFails
<1>6. ASSUME NEW q \in Chunks \cup {<<>>}, FillReads(t, q), Len(q) > Free(ring)
      PROVE  SleepersHaveReason'
  <2>1. ring' = ring /\ proc' = proc
    BY <1>6 DEF FillReads
  <2> QED  BY <2>1, NothingReasons
<1>7. ASSUME NEW q \in Chunks \cup {<<>>}, FillReads(t, q), ~(Len(q) > Free(ring))
      PROVE  SleepersHaveReason'
  <2>1. q \in Seq(Byte) /\ Len(q) \in Nat
    <3>1. q \in Seq(Byte)
      BY <1>0, EmptySeq
    <3> QED  BY <3>1, LenProperties
  <2>2. ring' = FillRing(ring, q) /\ proc' = [Wakes({"data"}) EXCEPT ![t] = Idle]
    BY <1>7 DEF FillReads
  <2>3. ring'.mLen = ring.mLen + Len(q)
    BY <1>0, <2>1, <2>2, LengthsChange
  <2>4. ~(ring'.mLen < ring.mLen)
    BY <1>0, <2>1, <2>3
  <2>5. \A x \in Thread : Reasoned(Wakes({"data"})[x], ring')
    BY <1>0, <2>4, BroadcastReasons
  <2>6. \A x \in Thread : proc'[x] = Wakes({"data"})[x] \/ proc'[x] = Idle
    BY <2>2 DEF Wakes
  <2> QED  BY <2>5, <2>6, IdleReasons, ReasonedNext
<1> QED
  BY <1>1, <1>2, <1>3, <1>4, <1>5, <1>6, <1>7

\* The calls of a consumer.
LEMMA ConsumerReasons ==
    ASSUME IInv, IInv', SleepersHaveReason, NEW t \in Consumer,
           \/ \E size \in Sizes : Copy(t, size)
           \/ \E size \in Sizes, copied \in BOOLEAN : Read(t, size, copied)
           \/ Clear(t) \/ GetLine(t) \/ PeekLine(t)
    PROVE  SleepersHaveReason'
<1>0. /\ Good(ring) /\ N \in Nat /\ ring.mLen \in 0..N
  BY Constants, GoodFields DEF IInv, Ptrs
<1>1. ASSUME NEW n \in Nat, ring' = Consume(ring, n),
             proc' = IF Least(n, ring.mLen) > 0 THEN Wakes({"free"}) ELSE proc
      PROVE  SleepersHaveReason'
  <2>1. ring'.mLen = ring.mLen - Least(n, ring.mLen)
    BY <1>0, <1>1, LengthsChange
  <2>2. CASE Least(n, ring.mLen) > 0
    <3>1. ~(ring'.mLen > ring.mLen)
      BY <1>0, <2>1, <2>2 DEF Least
    <3> QED  BY <1>1, <2>2, <3>1, CallReasons
  <2>3. CASE ~(Least(n, ring.mLen) > 0)
    <3>1. Least(n, ring.mLen) = 0
      BY <1>0, <2>3 DEF Least
    <3>2. ring' = ring /\ proc' = proc
      BY <1>1, <2>3, <3>1 DEF Consume
    <3> QED  BY <3>2, NothingReasons
  <2> QED  BY <2>2, <2>3
<1>2. ASSUME NEW size \in Sizes, Copy(t, size) PROVE SleepersHaveReason'
  BY <1>2, NothingReasons DEF Copy
<1>3. ASSUME NEW size \in Sizes, NEW copied \in BOOLEAN, Read(t, size, copied)
      PROVE  SleepersHaveReason'
  <2>1. size \in Nat
    BY <1>0 DEF Sizes
  <2> QED  BY <1>1, <1>3, <2>1 DEF Read
<1>4. ASSUME Clear(t) PROVE SleepersHaveReason'
  <2>1. ring' = Make(ring.mem, 0, 0, 0) /\ proc' = Wakes({"free"})
    BY <1>0, <1>4, ClearUpdate DEF Clear, Good
  <2>2. ring'.mLen = 0
    BY <2>1, OneField
  <2>3. ~(ring'.mLen > ring.mLen)
    BY <1>0, <2>2
  <2> QED  BY <2>1, <2>3, CallReasons
<1>5. ASSUME GetLine(t) \/ PeekLine(t), LineSize(ring) < 0 PROVE SleepersHaveReason'
  <2>1. ring' = ring /\ proc' = proc
    BY <1>5 DEF GetLine, PeekLine
  <2> QED  BY <2>1, NothingReasons
<1>6. ASSUME GetLine(t), ~(LineSize(ring) < 0) PROVE SleepersHaveReason'
  <2>1. LineSize(ring) \in Nat
    BY <1>0, <1>6, LineSizeType
  <2>2. /\ ring' = Consume(ring, LineSize(ring))
        /\ proc' = IF LineSize(ring) > 0 THEN Wakes({"free"}) ELSE proc
    BY <1>6 DEF GetLine
  <2>3. ring'.mLen = ring.mLen - Least(LineSize(ring), ring.mLen)
    BY <1>0, <2>1, <2>2, LengthsChange
  <2>4. CASE LineSize(ring) > 0
    <3>1. ~(ring'.mLen > ring.mLen)
      BY <1>0, <2>1, <2>3 DEF Least
    <3> QED  BY <2>2, <2>4, <3>1, CallReasons
  <2>5. CASE ~(LineSize(ring) > 0)
    <3>1. LineSize(ring) = 0
      BY <2>1, <2>5
    <3>2. Consume(ring, 0) = ring
      BY <1>0 DEF Consume, Least
    <3> QED  BY <2>2, <2>5, <3>1, <3>2, NothingReasons
  <2> QED  BY <2>4, <2>5
<1>7. ASSUME PeekLine(t), ~(LineSize(ring) < 0) PROVE SleepersHaveReason'
  BY <1>7, NothingReasons DEF PeekLine
<1> QED
  BY <1>2, <1>3, <1>4, <1>5, <1>6, <1>7

\* A waiter sleeps only when it has found the condition false, with the lock
\* held.
LEMMA WaiterReasons ==
    ASSUME IInv, IInv', SleepersHaveReason, NEW t \in Thread,
           \/ \E threshold \in 1..N, msecs \in Msecs :
                WaitFor(t, "free", threshold, msecs) \/ WaitFor(t, "data", threshold, msecs)
           \/ Awake(t) \/ TimedOut(t)
           \/ ByteAtReturns(t) \/ \E i \in Sizes : ByteAt(t, i)
    PROVE  SleepersHaveReason'
<1>0. proc \in [Thread -> Proc]
  BY DEF IInv
<1>1. ASSUME NEW on \in {"data", "free"}, NEW threshold \in 1..N, NEW msecs \in Msecs,
             WaitFor(t, on, threshold, msecs)
      PROVE  SleepersHaveReason'
  <2> DEFINE p == [at |-> "wait", on |-> on, threshold |-> threshold, msecs |-> msecs,
                   timeout |-> msecs, awake |-> FALSE]
  <2>1. ring' = ring /\ proc' = IF Ready(p, ring) THEN proc ELSE [proc EXCEPT ![t] = p]
    BY <1>1 DEF WaitFor
  <2> HIDE DEF p
  <2>2. CASE Ready(p, ring)
    BY <2>1, <2>2, NothingReasons
  <2>3. CASE ~Ready(p, ring)
    <3>1. Reasoned(p, ring)
      BY <2>3 DEF Reasoned
    <3> QED  BY <2>1, <2>3, <3>1, OneThreadReasons
  <2> QED  BY <2>2, <2>3
<1>2. ASSUME Awake(t), Ready(proc[t], ring) PROVE SleepersHaveReason'
  BY <1>2, IdleReasons, OneThreadReasons DEF Awake
<1>3. ASSUME Awake(t), ~Ready(proc[t], ring) PROVE SleepersHaveReason'
  <2>1. PICK elapsed \in 0..MaxElapsed :
          proc' = [proc EXCEPT ![t].awake = FALSE,
                               ![t].timeout = (proc[t].msecs - elapsed) % Wrap]
    BY <1>3 DEF Awake
  <2>2. proc[t] \in WaitProc
    BY <1>0, <1>3, ProcKinds DEF Awake
  <2> DEFINE p == proc'[t]
  <2>3. proc' = [proc EXCEPT ![t] = p] /\ ring' = ring
    BY <1>0, <1>3, <2>1 DEF Awake
  <2>4. p.on = proc[t].on /\ p.threshold = proc[t].threshold
    BY <1>0, <2>1, <2>2 DEF WaitProc
  <2>5. Reasoned(p, ring)
    BY <1>3, <2>4 DEF Reasoned, Ready
  <2> HIDE DEF p
  <2> QED  BY <2>3, <2>5, OneThreadReasons
<1>4. ASSUME TimedOut(t) \/ ByteAtReturns(t) PROVE SleepersHaveReason'
  BY <1>4, IdleReasons, OneThreadReasons DEF TimedOut, ByteAtReturns
<1>5. ASSUME NEW i \in Sizes, ByteAt(t, i) PROVE SleepersHaveReason'
  <2> DEFINE p == [at |-> "byteAt", p |-> Segment(ring, i).p, byte |-> ByteOf(ring, i)]
  <2>1. ring' = ring /\ proc' = [proc EXCEPT ![t] = p] /\ Reasoned(p, ring)
    BY <1>5 DEF ByteAt, Reasoned
  <2> HIDE DEF p
  <2> QED  BY <2>1, OneThreadReasons
<1> QED
  BY <1>1, <1>2, <1>3, <1>4, <1>5

\* For every ring size, any number of producers, consumers and waiters and
\* every threshold: a thread that waitForData or waitForFreeSpace put to sleep
\* and nobody has woken waits for a condition that is false.  No wakeup is lost.
THEOREM SleepersAlwaysHaveReason == BufferSpec => []SleepersHaveReason
<1>1. BufferInit => SleepersHaveReason
  BY DEF BufferInit, SleepersHaveReason, Waiting, Idle
<1>2. ASSUME IInv, IInv', SleepersHaveReason, [BufferNext]_bufferVars PROVE SleepersHaveReason'
  <2>0. Producer \subseteq Thread /\ Consumer \subseteq Thread /\ Prober \subseteq Thread
        /\ Overwriter \subseteq Producer
    BY BufferAssumption DEF Thread
  <2>1. CASE UNCHANGED bufferVars
    BY <1>2, <2>1, NothingReasons DEF bufferVars
  <2>2. ASSUME NEW t \in Producer,
               \/ \E q \in Chunks : Write(t, q)
               \/ \E b \in Byte : WriteByte(t, b)
               \/ \E size \in Sizes : FillFromFile(t, size)
               \/ FillFails(t)
               \/ \E q \in Chunks \cup {<<>>} : FillReads(t, q)
               \/ \E threshold \in 1..N, msecs \in Msecs : WaitFor(t, "free", threshold, msecs)
        PROVE  SleepersHaveReason'
    BY <1>2, <2>0, <2>2, ProducerReasons, WaiterReasons
  <2>3. ASSUME NEW t \in Overwriter, NEW q \in Chunks, WriteOverflow(t, q)
        PROVE  SleepersHaveReason'
    BY <1>2, <2>0, <2>3, ProducerReasons
  <2>4. ASSUME NEW t \in Consumer,
               \/ \E size \in Sizes : Copy(t, size)
               \/ \E size \in Sizes, copied \in BOOLEAN : Read(t, size, copied)
               \/ Clear(t) \/ GetLine(t) \/ PeekLine(t)
               \/ \E threshold \in 1..N, msecs \in Msecs : WaitFor(t, "data", threshold, msecs)
        PROVE  SleepersHaveReason'
    BY <1>2, <2>0, <2>4, ConsumerReasons, WaiterReasons
  <2>5. ASSUME NEW t \in Prober, ByteAtReturns(t) \/ \E i \in Sizes : ByteAt(t, i)
        PROVE  SleepersHaveReason'
    BY <1>2, <2>0, <2>5, WaiterReasons
  <2>6. ASSUME NEW t \in Thread, Awake(t) \/ TimedOut(t) PROVE SleepersHaveReason'
    BY <1>2, <2>6, WaiterReasons
  <2> QED  BY <1>2, <2>1, <2>2, <2>3, <2>4, <2>5, <2>6 DEF BufferNext
<1> QED
  BY <1>1, <1>2, AlwaysGood, PTL DEF BufferSpec

-----------------------------------------------------------------------------
(* The two calls that use what they saw before they locked, or after they   *)
(* unlocked                                                                 *)

\* Thread x does not get between the two steps of such a call.
Busy == {"fill", "byteAt"}
Kept(x) == proc'[x].at \in Busy => proc'[x] = proc[x]

\* A broadcast concerns only waiters.
LEMMA BroadcastKeeps ==
    ASSUME proc \in [Thread -> Proc], NEW C, NEW x \in Thread
    PROVE  /\ Wakes(C)[x].at = proc[x].at
           /\ Wakes(C)[x].at \in Busy => Wakes(C)[x] = proc[x]
<1>1. CASE proc[x].at = "wait" /\ proc[x].on \in C
  <2>1. proc[x] \in WaitProc
    BY <1>1, ProcKinds
  <2>2. Wakes(C)[x] = [proc[x] EXCEPT !.awake = TRUE]
    BY <1>1 DEF Wakes
  <2>3. Wakes(C)[x].at = "wait"
    BY <2>1, <2>2 DEF WaitProc
  <2> QED  BY <1>1, <2>3 DEF Busy
<1>2. CASE ~(proc[x].at = "wait" /\ proc[x].on \in C)
  BY <1>2 DEF Wakes
<1> QED
  BY <1>1, <1>2

\* A read leaves the memory alone.
LEMMA ConsumeReads ==
    ASSUME NEW g, Good(g), NEW size \in Nat
    PROVE  /\ Consume(g, size).mem = g.mem
           /\ Consume(g, size).mLen <= g.mLen
<1>0. g \in Ring /\ g.mLen \in 0..N /\ N \in Nat
  BY Constants, GoodFields DEF Good, Ptrs
<1> DEFINE n == Least(size, g.mLen)
           tail == Least(N - g.mReadPtr, n)
           r == IF tail < n THEN n - tail ELSE g.mReadPtr + tail
<1>1. Consume(g, size).mem = g.mem
  <2>1. CASE n = 0
    BY <2>1 DEF Consume
  <2>2. CASE n # 0
    <3>1. Consume(g, size) = SubtractLength([g EXCEPT !.mReadPtr = r], n)
      BY <2>2 DEF Consume
    <3> HIDE DEF n, r
    <3>2. Consume(g, size) = Make(g.mem, r, IF g.mWritePtr = N THEN 0 ELSE g.mWritePtr, g.mLen - n)
      BY <3>1, <1>0, ReadUpdate
    <3> QED  BY <3>2, OneField
  <2> QED  BY <2>1, <2>2
<1>2. Consume(g, size).mLen = g.mLen - n
  BY LengthsChange
<1>3. g.mLen - n <= g.mLen
  BY <1>0 DEF Least
<1> QED
  BY <1>1, <1>2, <1>3

\* getBytesInternal finds the byte that byteAt asks for.
LEMMA SegmentIsByte ==
    ASSUME NEW g, Good(g), NEW i \in Nat, i < g.mLen
    PROVE  g.mem[Segment(g, i).p] = ByteOf(g, i)
<1>0. N \in Nat /\ N >= 1 /\ Ptrs(g.mReadPtr, g.mWritePtr, g.mLen)
  BY Constants, GoodFields
<1> DEFINE x == g.mReadPtr + i
<1>1. x \in Nat /\ x < 2 * N
  BY <1>0 DEF Ptrs
<1>2. \/ Segment(g, i).p = x - N /\ N <= x
      \/ Segment(g, i).p = x /\ x < N
  <2>1. CASE g.mReadPtr >= g.mWritePtr /\ g.mReadPtr + i >= N
    <3>1. /\ Segment(g, i).p = g.mReadPtr + i - N
          /\ Segment(g, i).size = g.mWritePtr - (g.mReadPtr + i - N)
      BY <2>1, SegmentCases
    <3> QED  BY <1>0, <1>1, <2>1, <3>1 DEF Ptrs
  <2>2. CASE g.mReadPtr >= g.mWritePtr /\ ~(g.mReadPtr + i >= N)
    <3>1. Segment(g, i).p = x
      BY <2>2, SegmentCases
    <3> QED  BY <1>0, <1>1, <2>2, <3>1
  <2>3. CASE ~(g.mReadPtr >= g.mWritePtr)
    <3>1. x < N
      BY <1>0, <2>3 DEF Ptrs
    <3> QED  BY <2>3, <3>1, SegmentCases
  <2> QED  BY <2>1, <2>2, <2>3
<1>3. ByteOf(g, i) = g.mem[x % N]
  BY DEF ByteOf
<1> HIDE DEF x
<1>4. Segment(g, i).p = x % N
  BY <1>0, <1>1, <1>2, ModuloOnce
<1> QED
  BY <1>3, <1>4

\* What a step does, as far as these two calls can see: a producer outside of
\* them adds bytes, or nobody adds any, or one of the two calls starts.
Shape(t) ==
    /\ \A x \in Thread \ {t} : Kept(x)
    /\ \/ t \in Producer /\ proc'[t].at \notin Busy
       \/ ring'.mem = ring.mem /\ ring'.mLen <= ring.mLen /\ Kept(t)
       \/ ring' = ring /\ proc'[t].at = "fill" /\ proc'[t].size <= Free(ring)
       \/ ring' = ring /\ proc'[t].at = "byteAt" /\ ring.mem[proc'[t].p] = proc'[t].byte

\* A thread whose own record is all that changes.
LEMMA OnlyOne ==
    ASSUME IInv, NEW t \in Thread, NEW p, proc' = [proc EXCEPT ![t] = p]
    PROVE  proc'[t] = p /\ \A x \in Thread \ {t} : Kept(x)
  BY DEF IInv, Kept

\* A call that wakes waiters, or nobody.
LEMMA CallKeeps ==
    ASSUME IInv, NEW C, proc' = Wakes(C) \/ proc' = proc
    PROVE  \A x \in Thread : Kept(x) /\ proc'[x].at = proc[x].at
  BY BroadcastKeeps DEF IInv, Kept

\* Nobody adds bytes.
LEMMA QuietShape ==
    ASSUME IInv, ring' = ring, NEW t \in Thread, NEW p,
           proc' = [proc EXCEPT ![t] = p] \/ proc' = proc, p.at \notin Busy
    PROVE  Shape(t)
<1>1. ring'.mem = ring.mem /\ ring'.mLen <= ring.mLen
  BY Constants, GoodFields DEF IInv, Ptrs
<1>2. CASE proc' = [proc EXCEPT ![t] = p]
  <2>1. Kept(t)
    BY <1>2, OnlyOne DEF Kept
  <2> QED  BY <1>1, <1>2, <2>1, OnlyOne DEF Shape
<1>3. CASE proc' = proc
  BY <1>1, <1>3 DEF Shape, Kept
<1> QED
  BY <1>2, <1>3

LEMMA ProducerShape ==
    ASSUME IInv, NEW t \in Producer,
           \/ \E q \in Chunks : Write(t, q) \/ WriteOverflow(t, q)
           \/ \E b \in Byte : WriteByte(t, b)
           \/ \E size \in Sizes : FillFromFile(t, size)
           \/ FillFails(t)
           \/ \E q \in Chunks \cup {<<>>} : FillReads(t, q)
    PROVE  Shape(t)
<1>0. t \in Thread /\ proc \in [Thread -> Proc] /\ Idle.at \notin Busy
      /\ ring.mLen \in Int /\ N \in Int
  BY Constants, GoodFields DEF Thread, IInv, Idle, Busy, Ptrs
<1>1. ASSUME NEW C, proc' = Wakes(C) \/ proc' = proc, proc[t] = Idle PROVE Shape(t)
  <2>1. \A x \in Thread : Kept(x) /\ proc'[x].at = proc[x].at
    BY <1>1, CallKeeps
  <2> QED  BY <1>0, <1>1, <2>1 DEF Shape
<1>2. ASSUME NEW q \in Chunks, Write(t, q) PROVE Shape(t)
  BY <1>1, <1>2 DEF Write, Calls
<1>3. ASSUME NEW q \in Chunks, WriteOverflow(t, q) PROVE Shape(t)
  <2>1. \E C : proc' = Wakes(C)
    BY <1>3 DEF WriteOverflow
  <2> QED  BY <1>1, <1>3, <2>1 DEF WriteOverflow, Calls
<1>4. ASSUME NEW b \in Byte, WriteByte(t, b) PROVE Shape(t)
  BY <1>1, <1>4 DEF WriteByte, Calls
<1>5. ASSUME NEW size \in Sizes, FillFromFile(t, size) PROVE Shape(t)
  <2> DEFINE n == Least(size, Free(ring))
             p == [at |-> "fill", size |-> n]
  <2>1. n <= Free(ring)
    BY <1>0 DEF Least, Free, Sizes
  <2>2. ring' = ring /\ proc' = [proc EXCEPT ![t] = p] /\ p.at = "fill" /\ p.size = n
    BY <1>5 DEF FillFromFile
  <2> HIDE DEF n, p
  <2>3. proc'[t] = p /\ \A x \in Thread \ {t} : Kept(x)
    BY <1>0, <2>2, OnlyOne
  <2> QED  BY <2>1, <2>2, <2>3 DEF Shape
<1>6. ASSUME FillFails(t) PROVE Shape(t)
  BY <1>0, <1>6, QuietShape DEF FillFails
<1>7. ASSUME NEW q \in Chunks \cup {<<>>}, FillReads(t, q), Len(q) > Free(ring) PROVE Shape(t)
  <2>1. ring' = ring /\ proc' = proc
    BY <1>7 DEF FillReads
  <2> QED  BY <1>0, <2>1, QuietShape
<1>8. ASSUME NEW q \in Chunks \cup {<<>>}, FillReads(t, q), ~(Len(q) > Free(ring)) PROVE Shape(t)
  <2>1. proc' = [Wakes({"data"}) EXCEPT ![t] = Idle]
    BY <1>8 DEF FillReads
  <2>2. Wakes({"data"}) \in [Thread -> Proc]
    BY <1>0, BroadcastType
  <2>3. proc'[t] = Idle /\ \A x \in Thread \ {t} : proc'[x] = Wakes({"data"})[x]
    BY <1>0, <2>1, <2>2
  <2>4. \A x \in Thread \ {t} : Kept(x)
    BY <1>0, <2>3, BroadcastKeeps DEF Kept
  <2> QED  BY <1>0, <2>3, <2>4 DEF Shape
<1> QED
  BY <1>2, <1>3, <1>4, <1>5, <1>6, <1>7, <1>8

LEMMA ConsumerShape ==
    ASSUME IInv, NEW t \in Consumer,
           \/ \E size \in Sizes : Copy(t, size)
           \/ \E size \in Sizes, copied \in BOOLEAN : Read(t, size, copied)
           \/ Clear(t) \/ GetLine(t) \/ PeekLine(t)
    PROVE  Shape(t)
<1>0. /\ t \in Thread /\ Good(ring) /\ Idle.at \notin Busy /\ ring.mLen \in 0..N /\ N \in Nat
  BY Constants, GoodFields DEF Thread, IInv, Idle, Busy, Ptrs
<1>1. ASSUME NEW C, proc' = Wakes(C) \/ proc' = proc,
             ring'.mem = ring.mem, ring'.mLen <= ring.mLen
      PROVE  Shape(t)
  <2>1. \A x \in Thread : Kept(x)
    BY <1>1, CallKeeps
  <2> QED  BY <1>0, <1>1, <2>1 DEF Shape
<1>2. ASSUME NEW size \in Sizes, Copy(t, size) PROVE Shape(t)
  BY <1>0, <1>2, QuietShape DEF Copy
<1>3. ASSUME NEW size \in Sizes, NEW copied \in BOOLEAN, Read(t, size, copied) PROVE Shape(t)
  <2>1. size \in Nat
    BY <1>0 DEF Sizes
  <2>2. ring'.mem = ring.mem /\ ring'.mLen <= ring.mLen
    BY <1>0, <1>3, <2>1, ConsumeReads DEF Read
  <2> QED  BY <1>1, <1>3, <2>2 DEF Read
<1>4. ASSUME Clear(t) PROVE Shape(t)
  <2>1. ring' = Make(ring.mem, 0, 0, 0) /\ proc' = Wakes({"free"})
    BY <1>0, <1>4, ClearUpdate DEF Clear, Good
  <2>2. ring'.mem = ring.mem /\ ring'.mLen = 0
    BY <2>1, OneField
  <2>3. ring'.mLen <= ring.mLen
    BY <1>0, <2>2
  <2> QED  BY <1>1, <2>1, <2>2, <2>3
<1>5. ASSUME GetLine(t) \/ PeekLine(t), LineSize(ring) < 0 PROVE Shape(t)
  <2>1. ring' = ring /\ proc' = proc
    BY <1>5 DEF GetLine, PeekLine
  <2> QED  BY <1>0, <2>1, QuietShape
<1>6. ASSUME GetLine(t), ~(LineSize(ring) < 0) PROVE Shape(t)
  <2>1. LineSize(ring) \in Nat
    BY <1>0, <1>6, LineSizeType
  <2>2. ring'.mem = ring.mem /\ ring'.mLen <= ring.mLen
    BY <1>0, <1>6, <2>1, ConsumeReads DEF GetLine
  <2>3. proc' = Wakes({"free"}) \/ proc' = proc
    BY <1>6 DEF GetLine
  <2> QED  BY <1>1, <2>2, <2>3
<1>7. ASSUME PeekLine(t), ~(LineSize(ring) < 0) PROVE Shape(t)
  BY <1>0, <1>7, QuietShape DEF PeekLine
<1> QED
  BY <1>2, <1>3, <1>4, <1>5, <1>6, <1>7

LEMMA OtherShape ==
    ASSUME IInv, NEW t \in Thread,
           \/ \E threshold \in 1..N, msecs \in Msecs :
                WaitFor(t, "free", threshold, msecs) \/ WaitFor(t, "data", threshold, msecs)
           \/ Awake(t) \/ TimedOut(t)
           \/ ByteAtReturns(t) \/ \E i \in Sizes : ByteAt(t, i)
    PROVE  Shape(t)
<1>0. proc \in [Thread -> Proc] /\ Idle.at \notin Busy /\ Good(ring) /\ N \in Nat
  BY Constants DEF IInv, Idle, Busy
<1>1. ASSUME NEW on \in {"data", "free"}, NEW threshold \in 1..N, NEW msecs \in Msecs,
             WaitFor(t, on, threshold, msecs)
      PROVE  Shape(t)
  <2> DEFINE p == [at |-> "wait", on |-> on, threshold |-> threshold, msecs |-> msecs,
                   timeout |-> msecs, awake |-> FALSE]
  <2>1. /\ ring' = ring /\ proc' = IF Ready(p, ring) THEN proc ELSE [proc EXCEPT ![t] = p]
        /\ p.at \notin Busy
    BY <1>1 DEF WaitFor, Busy
  <2> HIDE DEF p
  <2> QED  BY <2>1, QuietShape
<1>2. ASSUME Awake(t), Ready(proc[t], ring) PROVE Shape(t)
  BY <1>0, <1>2, QuietShape DEF Awake
<1>3. ASSUME Awake(t), ~Ready(proc[t], ring) PROVE Shape(t)
  <2>1. PICK elapsed \in 0..MaxElapsed :
          proc' = [proc EXCEPT ![t].awake = FALSE,
                               ![t].timeout = (proc[t].msecs - elapsed) % Wrap]
    BY <1>3 DEF Awake
  <2>2. proc[t] \in WaitProc
    BY <1>0, <1>3, ProcKinds DEF Awake
  <2> DEFINE p == proc'[t]
  <2>3. proc' = [proc EXCEPT ![t] = p] /\ ring' = ring
    BY <1>0, <1>3, <2>1 DEF Awake
  <2>4. p.at \notin Busy
    BY <1>0, <2>1, <2>2 DEF WaitProc, Busy
  <2> HIDE DEF p
  <2> QED  BY <2>3, <2>4, QuietShape
<1>4. ASSUME TimedOut(t) \/ ByteAtReturns(t) PROVE Shape(t)
  BY <1>0, <1>4, QuietShape DEF TimedOut, ByteAtReturns
<1>5. ASSUME NEW i \in Sizes, ByteAt(t, i) PROVE Shape(t)
  <2> DEFINE p == [at |-> "byteAt", p |-> Segment(ring, i).p, byte |-> ByteOf(ring, i)]
  <2>1. i \in Nat /\ i < ring.mLen
    BY <1>0, <1>5 DEF ByteAt, Sizes
  <2>2. ring.mem[p.p] = p.byte
    BY <1>0, <2>1, SegmentIsByte
  <2>3. ring' = ring /\ proc' = [proc EXCEPT ![t] = p] /\ p.at = "byteAt"
    BY <1>5 DEF ByteAt
  <2> HIDE DEF p
  <2>4. proc'[t] = p /\ \A x \in Thread \ {t} : Kept(x)
    BY <2>3, OnlyOne
  <2> QED  BY <2>2, <2>3, <2>4 DEF Shape
<1> QED
  BY <1>1, <1>2, <1>3, <1>4, <1>5

LEMMA StepShape ==
    ASSUME IInv, BufferNext
    PROVE  \E t \in Thread : Shape(t)
<1>0. Producer \subseteq Thread /\ Consumer \subseteq Thread /\ Prober \subseteq Thread
      /\ Overwriter \subseteq Producer
  BY BufferAssumption DEF Thread
<1>1. ASSUME NEW t \in Producer,
             \/ \E q \in Chunks : Write(t, q)
             \/ \E b \in Byte : WriteByte(t, b)
             \/ \E size \in Sizes : FillFromFile(t, size)
             \/ FillFails(t)
             \/ \E q \in Chunks \cup {<<>>} : FillReads(t, q)
             \/ \E threshold \in 1..N, msecs \in Msecs : WaitFor(t, "free", threshold, msecs)
      PROVE  Shape(t)
  BY <1>0, <1>1, ProducerShape, OtherShape
<1>2. ASSUME NEW t \in Overwriter, NEW q \in Chunks, WriteOverflow(t, q) PROVE Shape(t)
  BY <1>0, <1>2, ProducerShape
<1>3. ASSUME NEW t \in Consumer,
             \/ \E size \in Sizes : Copy(t, size)
             \/ \E size \in Sizes, copied \in BOOLEAN : Read(t, size, copied)
             \/ Clear(t) \/ GetLine(t) \/ PeekLine(t)
             \/ \E threshold \in 1..N, msecs \in Msecs : WaitFor(t, "data", threshold, msecs)
      PROVE  Shape(t)
  BY <1>0, <1>3, ConsumerShape, OtherShape
<1>4. ASSUME NEW t \in Prober, ByteAtReturns(t) \/ \E i \in Sizes : ByteAt(t, i) PROVE Shape(t)
  BY <1>0, <1>4, OtherShape
<1>5. ASSUME NEW t \in Thread, Awake(t) \/ TimedOut(t) PROVE Shape(t)
  BY <1>5, OtherShape
<1> QED
  BY <1>0, <1>1, <1>2, <1>3, <1>4, <1>5 DEF BufferNext

\* As long as one thread alone adds bytes, for every ring size and any number
\* of threads that take bytes, clear the ring or wait: the free space that
\* fillFromFile reads before it takes the lock is still there when it reads
\* the file into the ring.
THEOREM FillAlwaysHasRoom ==
    ASSUME \A s, t \in Producer : s = t
    PROVE  BufferSpec => []FillHasRoom
<1>1. BufferInit => FillHasRoom
  BY DEF BufferInit, FillHasRoom, Idle, Thread
<1>2. ASSUME IInv, IInv', FillHasRoom, [BufferNext]_bufferVars PROVE FillHasRoom'
  <2>1. CASE UNCHANGED bufferVars
    BY <1>2, <2>1 DEF bufferVars, FillHasRoom, Free
  <2>2. CASE BufferNext
    <3> SUFFICES ASSUME NEW x \in Producer, proc'[x].at = "fill"
                 PROVE  proc'[x].size <= Free(ring')
      BY DEF FillHasRoom, Free
    <3>0. /\ x \in Thread /\ proc'[x].at \in Busy /\ Free(ring) = N - ring.mLen
          /\ Free(ring') = N - ring'.mLen
          /\ N \in Int /\ ring.mLen \in Int /\ ring'.mLen \in Int /\ proc'[x].size \in Int
      <4>1. Good(ring) /\ Good(ring') /\ proc' \in [Thread -> Proc] /\ x \in Thread
        BY <1>2 DEF IInv, Thread
      <4>2. ring.mLen \in Int /\ ring'.mLen \in Int
        BY <4>1, GoodFields DEF Ptrs
      <4>3. proc'[x].size \in Int
        BY <4>1, ProcKinds, Constants DEF FillProc
      <4> QED  BY <4>1, <4>2, <4>3, Constants DEF Busy, Free
    <3>1. PICK t \in Thread : Shape(t)
      BY <1>2, <2>2, StepShape
    <3>2. ASSUME proc'[x] = proc[x], ring'.mLen <= ring.mLen PROVE proc'[x].size <= Free(ring')
      <4>1. proc[x].size <= Free(ring)
        BY <1>2, <3>2 DEF FillHasRoom
      <4> QED  BY <3>0, <3>2, <4>1
    <3>3. CASE t \in Producer /\ proc'[t].at \notin Busy
      BY <3>0, <3>3
    <3>4. CASE ring'.mem = ring.mem /\ ring'.mLen <= ring.mLen /\ Kept(t)
      BY <3>0, <3>1, <3>2, <3>4 DEF Shape, Kept
    <3>5. CASE ring' = ring /\ proc'[t].at = "fill" /\ proc'[t].size <= Free(ring)
      BY <3>0, <3>1, <3>2, <3>5 DEF Shape, Kept
    <3>6. CASE ring' = ring /\ proc'[t].at = "byteAt"
      BY <3>0, <3>1, <3>2, <3>6 DEF Shape, Kept
    <3> QED  BY <3>1, <3>3, <3>4, <3>5, <3>6 DEF Shape
  <2> QED  BY <1>2, <2>1, <2>2
<1> QED
  BY <1>1, <1>2, AlwaysGood, PTL DEF BufferSpec

-----------------------------------------------------------------------------
(* The ring is a queue *)

\* Where byte j of the data is, and the first n bytes of the data.
At(r, j) == IF r + j < N THEN r + j ELSE r + j - N
Bytes(m, r, n) == [i \in 1..n |-> m[At(r, i - 1)]]
View(g) == Bytes(g.mem, g.mReadPtr, g.mLen)

LEMMA BytesProperties ==
    ASSUME NEW m \in Mem, NEW r \in 0..N, NEW n \in 0..N
    PROVE  /\ Bytes(m, r, n) \in Seq(Byte) /\ Len(Bytes(m, r, n)) = n
           /\ \A i \in 1..n : Bytes(m, r, n)[i] = m[At(r, i - 1)]
<1>0. N \in Nat /\ N >= 1
  BY Constants
<1>1. \A i \in 1..n : m[At(r, i - 1)] \in Byte
  <2> TAKE i \in 1..n
  <2>1. At(r, i - 1) \in 0..(N - 1)
    BY <1>0 DEF At
  <2> QED  BY <2>1 DEF Mem
<1>2. n \in Nat
  BY <1>0
<1> QED
  BY <1>1, <1>2 DEF Bytes

\* A copy in two pieces, the second one from the beginning of the memory.
LEMMA TwoLoads ==
    ASSUME NEW m \in Mem, NEW r \in 0..N, NEW n \in 0..N, NEW p \in Nat, NEW t \in 0..n, p + t <= N,
           \A i \in 1..t : At(r, i - 1) = p + i - 1,
           \A i \in 1..n : i > t => At(r, i - 1) = 0 + (i - t) - 1
    PROVE  Load(m, p, t) \o Load(m, 0, n - t) = Bytes(m, r, n)
<1>0. N \in Nat /\ N >= 1 /\ n \in Nat /\ t \in Nat /\ t <= n
  BY Constants
<1> DEFINE a == Load(m, p, t)
           b == Load(m, 0, n - t)
           c == Bytes(m, r, n)
<1>1. /\ a \in Seq(Byte) /\ Len(a) = t /\ \A i \in 1..t : a[i] = m[p + i - 1]
  <2>1. t \in Int /\ t >= 0
    BY <1>0
  <2>2. a \in Seq(Byte) /\ Len(a) = t
    BY <2>1, LoadType
  <2>3. \A i \in 1..t : a[i] = m[p + i - 1]
    BY DEF Load
  <2> QED  BY <2>2, <2>3
<1>2. /\ b \in Seq(Byte) /\ Len(b) = n - t /\ \A i \in 1..(n - t) : b[i] = m[0 + i - 1]
  <2> DEFINE k == n - t
  <2>1. 0 \in Nat /\ k \in Int /\ k >= 0 /\ 0 + k <= N
    BY <1>0
  <2>2. \A i \in 1..k : b[i] = m[0 + i - 1]
    BY DEF Load
  <2> HIDE DEF k
  <2>3. Load(m, 0, k) \in Seq(Byte) /\ Len(Load(m, 0, k)) = k
    BY <2>1, LoadType
  <2> QED  BY <2>2, <2>3 DEF k
<1>3. c \in Seq(Byte) /\ Len(c) = n /\ \A i \in 1..n : c[i] = m[At(r, i - 1)]
  BY BytesProperties
<1> HIDE DEF a, b, c
<1>4. /\ a \o b \in Seq(Byte) /\ Len(a \o b) = n
      /\ \A i \in 1..n : (a \o b)[i] = IF i <= t THEN a[i] ELSE b[i - t]
  <2>1. /\ a \o b \in Seq(Byte) /\ Len(a \o b) = Len(a) + Len(b)
        /\ \A i \in 1..(Len(a) + Len(b)) : (a \o b)[i] = IF i <= Len(a) THEN a[i] ELSE b[i - Len(a)]
    BY <1>1, <1>2, ConcatProperties
  <2>2. Len(a) + Len(b) = n /\ Len(a) = t
    BY <1>0, <1>1, <1>2
  <2> QED  BY <2>1, <2>2
<1>5. ASSUME NEW i \in 1..n PROVE (a \o b)[i] = c[i]
  <2>1. CASE i <= t
    <3>1. i \in 1..t
      BY <1>0, <2>1
    <3>2. (a \o b)[i] = a[i]
      BY <1>4, <2>1
    <3>3. a[i] = m[p + i - 1] /\ At(r, i - 1) = p + i - 1
      BY <1>1, <3>1
    <3> QED  BY <1>3, <3>2, <3>3
  <2>2. CASE i > t
    <3>1. i - t \in 1..(n - t) /\ ~(i <= t)
      BY <1>0, <2>2
    <3>2. (a \o b)[i] = b[i - t]
      BY <1>4, <3>1
    <3>3. b[i - t] = m[0 + (i - t) - 1]
      BY <1>2, <3>1
    <3>4. At(r, i - 1) = 0 + (i - t) - 1
      BY <2>2
    <3>5. c[i] = m[At(r, i - 1)]
      BY <1>3
    <3> QED  BY <3>2, <3>3, <3>4, <3>5, Zenon
  <2>3. i <= t \/ i > t
    BY <1>0
  <2> QED  BY <2>1, <2>2, <2>3
<1>6. a \o b = c
  BY <1>3, <1>4, <1>5, SeqEqual
<1> QED
  BY <1>6 DEF a, b, c

\* read copies the first bytes of the data, also across the end of the memory.
LEMMA ReadIsBytes ==
    ASSUME NEW g, Good(g), NEW n \in 0..g.mLen
    PROVE  ReadBytes(g, n) = Bytes(g.mem, g.mReadPtr, n)
<1>0. /\ N \in Nat /\ N >= 1 /\ g.mem \in Mem
      /\ g.mReadPtr \in 0..N /\ g.mLen \in 0..N
  BY Constants, GoodFields DEF Ptrs
<1> DEFINE r == g.mReadPtr  t == Least(N - r, n)
<1>1. Least(n, g.mLen) = n /\ n \in 0..N
  BY <1>0 DEF Least
<1>2. ReadBytes(g, n) = Load(g.mem, r, t) \o Load(g.mem, 0, n - t)
  BY <1>1 DEF ReadBytes
<1>3. t \in 0..n /\ r + t <= N /\ r \in Nat /\ r \in 0..N
  BY <1>0, <1>1 DEF Least
<1>4. /\ \A i \in 1..t : At(r, i - 1) = r + i - 1
      /\ \A i \in 1..n : i > t => At(r, i - 1) = 0 + (i - t) - 1
  BY <1>0, <1>1 DEF At, Least
<1> HIDE DEF r, t
<1>5. Load(g.mem, r, t) \o Load(g.mem, 0, n - t) = Bytes(g.mem, r, n)
  BY <1>0, <1>1, <1>3, <1>4, TwoLoads
<1> QED
  BY <1>2, <1>5 DEF r

\* copy copies the same bytes, segment by segment.
LEMMA CopyIsBytes ==
    ASSUME NEW g, Good(g), NEW size \in Nat
    PROVE  CopyBytes(g, size) = Bytes(g.mem, g.mReadPtr, Least(size, g.mLen))
<1>0. /\ N \in Nat /\ N >= 1 /\ g.mem \in Mem /\ Ptrs(g.mReadPtr, g.mWritePtr, g.mLen)
      /\ g.mReadPtr \in 0..N /\ g.mLen \in 0..N
  BY Constants, GoodFields DEF Ptrs
<1> DEFINE r == g.mReadPtr  m == g.mem
           n == Least(size, g.mLen)
           p == Segment(g, 0).p
           t == Least(Segment(g, 0).size, n)
<1>1. n \in 0..N /\ n <= g.mLen
  BY <1>0 DEF Least
<1>2. CASE n = 0
  <2>1. CopyBytes(g, size) = <<>>
    BY <1>2 DEF CopyBytes
  <2>2. Bytes(m, r, n) = <<>>
    <3>1. Bytes(m, r, n) \in Seq(Byte) /\ Len(Bytes(m, r, n)) = 0
      <4> HIDE DEF m, n, r
      <4> QED  BY <1>0, <1>1, <1>2, BytesProperties DEF m, r
    <3> QED  BY <3>1, EmptySeq
  <2> QED  BY <2>1, <2>2
<1>3. CASE n # 0
  <2>1. CopyBytes(g, size) = Load(m, p, t)
          \o (IF t < n THEN Load(m, Segment(g, t).p, n - t) ELSE <<>>)
    BY <1>3 DEF CopyBytes
  <2> HIDE DEF n
  <2>2. g.mLen > 0 /\ 0 < g.mLen
    BY <1>0, <1>1, <1>3
  <2>3. p \in 0..(N - 1) /\ Segment(g, 0).size \in Nat /\ p + Segment(g, 0).size <= N
    BY <2>2, SegmentInside
  <2>4. p = At(r, 0)
    <3>1. CASE r >= g.mWritePtr /\ r + 0 >= N
      <4>1. p = r + 0 - N
        BY <3>1, SegmentCases
      <4> QED  BY <1>0, <3>1, <4>1 DEF At
    <3>2. CASE r >= g.mWritePtr /\ ~(r + 0 >= N)
      <4>1. p = r + 0
        BY <3>2, SegmentCases
      <4> QED  BY <1>0, <3>2, <4>1 DEF At
    <3>3. CASE ~(r >= g.mWritePtr)
      <4>1. p = r + 0 /\ r + 0 < N
        BY <1>0, <3>3, SegmentCases DEF Ptrs
      <4> QED  BY <1>0, <4>1 DEF At
    <3> QED  BY <3>1, <3>2, <3>3
  <2>5. t \in 0..n /\ p + t <= N /\ p \in Nat /\ (t < n => t = Segment(g, 0).size)
    BY <1>0, <1>1, <2>3 DEF Least
  <2>6. t < n => Segment(g, t).p = 0 /\ r + t = N
    <3> SUFFICES ASSUME t < n PROVE Segment(g, t).p = 0 /\ r + t = N
      OBVIOUS
    <3>1. t \in Nat /\ t = Segment(g, 0).size /\ t < g.mLen
      BY <1>0, <1>1, <2>3, <2>5
    <3> HIDE DEF t
    <3> QED  BY <3>1, TwoSegments
  <2> HIDE DEF t, p
  <2>7. IF t < n THEN Load(m, Segment(g, t).p, n - t) = Load(m, 0, n - t)
                 ELSE Load(m, 0, n - t) = <<>>
    <3>1. ASSUME ~(t < n) PROVE Load(m, 0, n - t) = <<>>
      <4>1. n - t = 0
        BY <1>1, <2>5, <3>1
      <4>2. 1..0 = {}
        OBVIOUS
      <4> QED  BY <4>1, <4>2 DEF Load
    <3> QED  BY <2>6, <3>1
  <2>8. CopyBytes(g, size) = Load(m, p, t) \o Load(m, 0, n - t)
    BY <2>1, <2>7
  <2>9. /\ \A i \in 1..t : At(r, i - 1) = p + i - 1
        /\ \A i \in 1..n : i > t => At(r, i - 1) = 0 + (i - t) - 1
    <3>1. ASSUME NEW i \in 1..t PROVE At(r, i - 1) = p + i - 1
      BY <1>0, <1>1, <2>3, <2>4, <2>5 DEF At
    <3>2. ASSUME NEW i \in 1..n, i > t PROVE At(r, i - 1) = 0 + (i - t) - 1
      <4>1. r + t = N
        BY <1>1, <2>5, <2>6, <3>2
      <4> QED  BY <1>0, <1>1, <2>5, <3>2, <4>1 DEF At
    <3> QED  BY <3>1, <3>2
  <2>10. m \in Mem /\ r \in 0..N
    BY <1>0
  <2> HIDE DEF m, r
  <2>11. Load(m, p, t) \o Load(m, 0, n - t) = Bytes(m, r, n)
    BY <1>1, <2>5, <2>9, <2>10, TwoLoads
  <2> QED  BY <2>8, <2>11 DEF n, m, r
<1> QED
  BY <1>2, <1>3

\* The abstract queue is the view of the ring.
LEMMA ContentIsView == Good(ring) => Content = View(ring)
<1> SUFFICES ASSUME Good(ring) PROVE Content = View(ring)
  OBVIOUS
<1>1. ring.mLen \in 0..ring.mLen
  BY Constants, GoodFields DEF Ptrs
<1> QED
  BY <1>1, ReadIsBytes DEF Content, View

LEMMA ViewProperties ==
    ASSUME NEW g, Good(g)
    PROVE  /\ View(g) \in Seq(Byte) /\ Len(View(g)) = g.mLen
           /\ \A i \in 1..g.mLen : View(g)[i] = g.mem[At(g.mReadPtr, i - 1)]
<1>1. g.mem \in Mem /\ g.mReadPtr \in 0..N /\ g.mLen \in 0..N
  BY GoodFields DEF Ptrs
<1> QED
  BY <1>1, BytesProperties DEF View

\* What read returns is the beginning of the queue.
LEMMA ReadIsPrefix ==
    ASSUME NEW g, Good(g), NEW n \in 0..g.mLen
    PROVE  Bytes(g.mem, g.mReadPtr, n) = SubSeq(View(g), 1, n)
<1>0. /\ N \in Nat /\ g.mem \in Mem /\ g.mReadPtr \in 0..N /\ g.mLen \in 0..N /\ n \in 0..N
  BY Constants, GoodFields DEF Ptrs
<1> DEFINE v == View(g)  s == SubSeq(v, 1, n)  c == Bytes(g.mem, g.mReadPtr, n)
<1>1. /\ v \in Seq(Byte) /\ Len(v) = g.mLen
      /\ \A i \in 1..g.mLen : v[i] = g.mem[At(g.mReadPtr, i - 1)]
  BY ViewProperties
<1>2. c \in Seq(Byte) /\ Len(c) = n /\ \A i \in 1..n : c[i] = g.mem[At(g.mReadPtr, i - 1)]
  BY <1>0, BytesProperties
<1> HIDE DEF v, c
<1>3. 1 \in Int /\ n \in Int /\ \A i \in 1..n : v[i] \in Byte
  BY <1>0, <1>1, ElementOfSeq
<1>4. /\ s \in Seq(Byte) /\ Len(s) = n /\ \A i \in 1..n : s[i] = v[i]
  <2>1. /\ s \in Seq(Byte) /\ Len(s) = IF 1 <= n THEN n - 1 + 1 ELSE 0
        /\ \A i \in 1..(n - 1 + 1) : s[i] = v[1 + i - 1]
    BY <1>3, SubSeqProperties
  <2> QED  BY <1>0, <2>1
<1> HIDE DEF s
<1>5. ASSUME NEW i \in 1..n PROVE c[i] = s[i]
  <2>1. i \in 1..g.mLen
    BY <1>0
  <2> QED  BY <1>1, <1>2, <1>4, <2>1
<1> QED
  BY <1>2, <1>4, <1>5, SeqEqual DEF c, s, v

-----------------------------------------------------------------------------
(* Adding bytes *)

\* A copy that fits appends to the queue.
LEMMA StoreAppends ==
    ASSUME NEW m \in Mem, NEW r, NEW w, NEW l, Ptrs(r, w, l), NEW q \in Seq(Byte),
           Len(q) <= N - l, r <= w => Len(q) <= N - w
    PROVE  Bytes(Store(m, w, q), IF r = N THEN 0 ELSE r, l + Len(q)) = Bytes(m, r, l) \o q
<1> DEFINE n == Len(q)
           s == IF r = N THEN 0 ELSE r
           k == l + n
           x == Store(m, w, q)
           a == Bytes(m, r, l)
           b == Bytes(x, s, k)
<1>0. /\ N \in Nat /\ N >= 1 /\ n \in Nat /\ r \in 0..N /\ w \in 0..N /\ l \in 0..N
      /\ s \in 0..N /\ k \in 0..N /\ w \in Int
  BY Constants, LenProperties DEF Ptrs
<1>1. x \in Mem
  BY <1>0, StoreType
<1>2. a \in Seq(Byte) /\ Len(a) = l /\ \A i \in 1..l : a[i] = m[At(r, i - 1)]
  BY <1>0, BytesProperties
<1>3. b \in Seq(Byte) /\ Len(b) = k /\ \A i \in 1..k : b[i] = x[At(s, i - 1)]
  <2> HIDE DEF x, s, k
  <2> QED  BY <1>0, <1>1, BytesProperties
<1>4. /\ a \o q \in Seq(Byte) /\ Len(a \o q) = k
      /\ \A i \in 1..k : (a \o q)[i] = IF i <= l THEN a[i] ELSE q[i - l]
  <2> HIDE DEF a
  <2>1. /\ a \o q \in Seq(Byte) /\ Len(a \o q) = Len(a) + Len(q)
        /\ \A i \in 1..(Len(a) + Len(q)) : (a \o q)[i] = IF i <= Len(a) THEN a[i] ELSE q[i - Len(a)]
    BY <1>2, ConcatProperties
  <2> QED  BY <1>2, <2>1
<1>5. ASSUME NEW i \in 1..k PROVE b[i] = (a \o q)[i]
  <2> DEFINE p == At(s, i - 1)
  <2>1. p \in 0..(N - 1)
    BY <1>0 DEF At
  <2>2. x[p] = IF w <= p /\ p < w + n THEN q[p - w + 1] ELSE m[p]
    BY <2>1 DEF Store
  <2>3. CASE i <= l
    <3>1. p = At(r, i - 1)
      BY <1>0, <2>3 DEF At
    <3>2. ~(w <= p /\ p < w + n)
      BY <1>0, <2>3 DEF At, Ptrs
    <3>3. i \in 1..l
      BY <1>0, <2>3
    <3> HIDE DEF p, a, b, x
    <3>4. b[i] = m[p]
      BY <1>3, <2>2, <3>2 DEF p
    <3>5. (a \o q)[i] = a[i] /\ a[i] = m[p]
      BY <1>2, <1>4, <2>3, <3>1, <3>3
    <3> QED  BY <3>4, <3>5
  <2>4. CASE i > l
    <3>1. w <= p /\ p < w + n /\ p - w + 1 = i - l
      BY <1>0, <2>4 DEF At, Ptrs
    <3> HIDE DEF p, a, b, x
    <3>2. b[i] = q[i - l]
      BY <1>3, <2>2, <3>1 DEF p
    <3>3. ~(i <= l)
      BY <1>0, <2>4
    <3>4. (a \o q)[i] = q[i - l]
      BY <1>4, <3>3
    <3> QED  BY <3>2, <3>4
  <2>5. i <= l \/ i > l
    BY <1>0
  <2> QED  BY <2>3, <2>4, <2>5
<1>6. b = a \o q
  <2> HIDE DEF a, b, k
  <2> QED  BY <1>3, <1>4, <1>5, SeqEqual
<1> QED
  BY <1>6

\* The view of a made ring.
LEMMA ViewOfMade ==
    ASSUME NEW m, NEW r, NEW w, NEW l
    PROVE  View(Make(m, r, w, l)) = Bytes(m, r, l)
  BY OneField DEF View

\* Part of a sequence of bytes.
LEMMA PartOfBytes ==
    ASSUME NEW q \in Seq(Byte), NEW i \in Int, NEW j \in Int, i >= 1, j <= Len(q), i <= j + 1
    PROVE  /\ SubSeq(q, i, j) \in Seq(Byte) /\ Len(SubSeq(q, i, j)) = j - i + 1
           /\ \A k \in 1..(j - i + 1) : SubSeq(q, i, j)[k] = q[i + k - 1]
<1>1. Len(q) \in Nat /\ \A k \in 1..Len(q) : q[k] \in Byte
  BY LenProperties, ElementOfSeq
<1>2. \A k \in i..j : q[k] \in Byte
  BY <1>1
<1>3. /\ SubSeq(q, i, j) \in Seq(Byte)
      /\ Len(SubSeq(q, i, j)) = IF i <= j THEN j - i + 1 ELSE 0
      /\ \A k \in 1..(j - i + 1) : SubSeq(q, i, j)[k] = q[i + k - 1]
  BY <1>2, SubSeqProperties
<1>4. (IF i <= j THEN j - i + 1 ELSE 0) = j - i + 1
  OBVIOUS
<1> QED
  BY <1>3, <1>4

\* write_internal appends what fits.
LEMMA WriteAppends ==
    ASSUME NEW g, Good(g), NEW q \in Seq(Byte)
    PROVE  View(WriteInternal(g, q)) = View(g) \o SubSeq(q, 1, Least(Len(q), Free(g)))
<1> DEFINE r == g.mReadPtr  w == g.mWritePtr  l == g.mLen
           size == Least(Len(q), Free(g))
           tail == Least(N - w, size)
           next == IF w + tail = N THEN 0 ELSE w + tail
           s1 == SubSeq(q, 1, tail)
           s2 == SubSeq(q, tail + 1, size)
           m1 == Store(g.mem, w, s1)
           m2 == Store(m1, next, s2)
           e == IF r = N THEN 0 ELSE r
<1>0. /\ N \in Nat /\ N >= 1 /\ Len(q) \in Nat /\ g.mem \in Mem /\ Ptrs(r, w, l)
      /\ r \in 0..N /\ w \in 0..N /\ l \in 0..N /\ g \in Ring
  BY Constants, GoodFields, LenProperties DEF Ptrs, Good
<1>1. size \in 0..(N - l) /\ size <= Len(q) /\ tail \in 0..size /\ next \in Int
  BY <1>0 DEF Least, Free
<1>2. CASE size = 0
  <2>1. WriteInternal(g, q) = g
    BY <1>2 DEF WriteInternal
  <2>2. SubSeq(q, 1, size) = <<>>
    BY <1>2, SubSeqEmpty
  <2>3. View(g) \in Seq(Byte)
    BY ViewProperties
  <2> HIDE DEF size
  <2>4. View(g) \o <<>> = View(g)
    BY <2>3, ConcatEmptySeq
  <2> QED  BY <2>1, <2>2, <2>4 DEF size
<1>3. CASE size # 0
  <2>1. WriteInternal(g, q) = AddLength([g EXCEPT !.mem = m2, !.mWritePtr = next + (size - tail)], size)
    BY <1>3 DEF WriteInternal
  <2>2. tail >= 1 /\ tail <= N - w /\ (tail < size => tail = N - w) /\ next \in 0..N
    <3> HIDE DEF size
    <3>1. size \in Nat /\ size >= 1 /\ l # N
      BY <1>0, <1>1, <1>3
    <3>2. w # N
      BY <1>0, <3>1 DEF Ptrs
    <3> HIDE DEF w
    <3> QED  BY <1>0, <3>1, <3>2 DEF Least
  <2>3. Ptrs(e, next, l + tail)
    <3> HIDE DEF size
    <3>1. tail \in 1..(N - l) /\ tail = Least(N - w, tail)
      BY <1>0, <1>1, <2>2 DEF Least
    <3> HIDE DEF tail
    <3>2. Ptrs(e, next + (tail - tail), l + tail)
      BY <1>0, <1>1, <3>1, WriteArithmetic, SMTT(40)
    <3>3. next + (tail - tail) = next
      BY <1>1, <3>1
    <3> QED  BY <3>2, <3>3
  <2>4. size - tail <= N - (l + tail) /\ (e <= next => size - tail <= N - next)
    <3>1. size - tail <= N - (l + tail)
      BY <1>0, <1>1
    <3> HIDE DEF tail, size, next, e
    <3>2. CASE tail = size
      BY <1>0, <1>1, <2>2, <3>1, <3>2
    <3>3. CASE tail < size
      <4>1. next = 0
        BY <1>0, <1>1, <2>2, <3>3 DEF next
      <4> QED  BY <1>0, <1>1, <3>1, <4>1
    <3> QED  BY <1>1, <3>1, <3>2, <3>3
  <2>5. tail <= N - l /\ (r <= w => tail <= N - w)
    BY <1>0, <1>1, <2>2
  <2> HIDE DEF size, tail, next
  <2>6. s1 \in Seq(Byte) /\ Len(s1) = tail /\ s2 \in Seq(Byte) /\ Len(s2) = size - tail
    <3>1. /\ 1 \in Int /\ tail \in Int /\ tail <= Len(q) /\ 1 <= tail + 1
          /\ tail + 1 \in Int /\ size \in Int /\ tail + 1 >= 1 /\ tail + 1 <= size + 1 /\ 1 >= 1
      BY <1>0, <1>1
    <3>2. s1 \in Seq(Byte) /\ Len(s1) = tail - 1 + 1
      BY <3>1, PartOfBytes
    <3>3. s2 \in Seq(Byte) /\ Len(s2) = size - (tail + 1) + 1
      BY <1>1, <3>1, PartOfBytes
    <3> QED  BY <3>1, <3>2, <3>3
  <2>7. m1 \in Mem
    <3> HIDE DEF s1
    <3> QED  BY <1>0, <2>6, StoreType
  <2>8. Bytes(m1, e, l + tail) = Bytes(g.mem, r, l) \o s1
    <3> DEFINE m == g.mem
    <3> HIDE DEF s1, r, w, l, m
    <3>1. Len(s1) <= N - l /\ (r <= w => Len(s1) <= N - w)
      BY <2>5, <2>6
    <3>2. m \in Mem /\ Ptrs(r, w, l) /\ s1 \in Seq(Byte)
      BY <1>0, <2>6 DEF m
    <3>3. Bytes(Store(m, w, s1), IF r = N THEN 0 ELSE r, l + Len(s1)) = Bytes(m, r, l) \o s1
      BY <3>1, <3>2, StoreAppends
    <3> QED  BY <2>6, <3>3 DEF m
  <2>9. e # N
    BY <1>0
  <2>10. Bytes(m2, e, l + size) = Bytes(m1, e, l + tail) \o s2
    <3> HIDE DEF s2, m1, e
    <3> DEFINE k == l + tail
    <3>1. Len(s2) <= N - k /\ (e <= next => Len(s2) <= N - next) /\ k + Len(s2) = l + size
      BY <2>4, <2>6, <1>0, <1>1
    <3>2. Ptrs(e, next, k)
      BY <2>3
    <3> HIDE DEF k
    <3>3. Bytes(Store(m1, next, s2), IF e = N THEN 0 ELSE e, k + Len(s2)) = Bytes(m1, e, k) \o s2
      BY <2>6, <2>7, <3>1, <3>2, StoreAppends, SMTT(40)
    <3> QED  BY <2>9, <3>1, <3>3 DEF k
  <2>11. Bytes(g.mem, r, l) \in Seq(Byte)
    BY <1>0, BytesProperties
  <2>12. s1 \o s2 = SubSeq(q, 1, size)
    <3>1. 1 \in 1..(Len(q) + 1) /\ tail \in (1 - 1)..Len(q) /\ size \in tail..Len(q)
      BY <1>0, <1>1
    <3> QED  BY <3>1, ConcatAdjacentSubSeq
  <2>13. View(WriteInternal(g, q)) = Bytes(m2, e, l + size)
    <3> DEFINE x == next + (size - tail)
    <3> HIDE DEF m2, x, e
    <3>1. WriteInternal(g, q) = Make(m2, IF g.mReadPtr = N THEN 0 ELSE g.mReadPtr, x, g.mLen + size)
      BY <1>0, <2>1, WriteUpdate DEF x
    <3> QED  BY <3>1, ViewOfMade DEF e
  <2>14. View(g) = Bytes(g.mem, r, l)
    BY DEF View
  <2> HIDE DEF s1, s2, m1, m2, e, r, l
  <2>15. (Bytes(g.mem, r, l) \o s1) \o s2 = Bytes(g.mem, r, l) \o (s1 \o s2)
    <3> DEFINE v == Bytes(g.mem, r, l)
    <3>1. v \in Seq(Byte)
      BY <2>11
    <3> HIDE DEF v
    <3>2. \A x, y, z \in Seq(Byte) : (x \o y) \o z = x \o (y \o z)
      BY ConcatAssociative, SMTT(40)
    <3> QED  BY <2>6, <3>1, <3>2 DEF v
  <2>16. View(WriteInternal(g, q)) = View(g) \o SubSeq(q, 1, size)
    BY <2>8, <2>10, <2>12, <2>13, <2>14, <2>15, Zenon
  <2> QED  BY <2>16 DEF size
<1> QED
  BY <1>2, <1>3

\* fillFromFile appends what it reads.
LEMMA FillAppends ==
    ASSUME NEW g, Good(g), NEW q \in Seq(Byte), Len(q) <= Free(g),
           g.mReadPtr <= g.mWritePtr => Len(q) <= N - g.mWritePtr
    PROVE  View(FillRing(g, q)) = View(g) \o q
<1> DEFINE n == Len(q)
           w == IF g.mReadPtr <= g.mWritePtr /\ g.mWritePtr + n = N THEN 0
                ELSE g.mWritePtr + n
           m == Store(g.mem, g.mWritePtr, q)
           e == IF g.mReadPtr = N THEN 0 ELSE g.mReadPtr
<1>0. g \in Ring /\ g.mem \in Mem /\ Ptrs(g.mReadPtr, g.mWritePtr, g.mLen)
  BY GoodFields DEF Good
<1>1. FillRing(g, q) = AddLength([g EXCEPT !.mem = m, !.mWritePtr = w], n)
  BY DEF FillRing
<1>2. Bytes(m, e, g.mLen + n) = Bytes(g.mem, g.mReadPtr, g.mLen) \o q
  <2> DEFINE r == g.mReadPtr  u == g.mWritePtr  l == g.mLen  x == g.mem
  <2>1. x \in Mem /\ Ptrs(r, u, l) /\ Len(q) <= N - l /\ (r <= u => Len(q) <= N - u)
    BY <1>0 DEF Free
  <2> HIDE DEF r, u, l, x
  <2>2. Bytes(Store(x, u, q), IF r = N THEN 0 ELSE r, l + Len(q)) = Bytes(x, r, l) \o q
    BY <2>1, StoreAppends
  <2> QED  BY <2>2 DEF r, u, l, x
<1> HIDE DEF n, m, w, e
<1>3. FillRing(g, q) = Make(m, e, w, g.mLen + n)
  BY <1>0, <1>1, WriteUpdate DEF e
<1> QED
  BY <1>2, <1>3, ViewOfMade DEF View

\* read takes from the front.
LEMMA ConsumeDrops ==
    ASSUME NEW g, Good(g), NEW size \in Nat
    PROVE  View(Consume(g, size)) = SubSeq(View(g), Least(size, g.mLen) + 1, g.mLen)
<1> DEFINE n == Least(size, g.mLen)
           tail == Least(N - g.mReadPtr, n)
           r == IF tail < n THEN n - tail ELSE g.mReadPtr + tail
           k == g.mLen - n
           v == View(g)
           a == Bytes(g.mem, r, k)
           b == SubSeq(v, n + 1, g.mLen)
<1>0. /\ N \in Nat /\ N >= 1 /\ g \in Ring /\ g.mem \in Mem /\ Ptrs(g.mReadPtr, g.mWritePtr, g.mLen)
      /\ g.mReadPtr \in 0..N /\ g.mLen \in 0..N
  BY Constants, GoodFields DEF Ptrs, Good
<1>1. n \in 0..g.mLen /\ tail \in Int
  BY <1>0 DEF Least
<1>2. /\ v \in Seq(Byte) /\ Len(v) = g.mLen
      /\ \A i \in 1..g.mLen : v[i] = g.mem[At(g.mReadPtr, i - 1)]
  BY ViewProperties
<1>3. CASE n = 0
  <2>1. Consume(g, size) = g
    BY <1>3 DEF Consume
  <2> HIDE DEF v, n
  <2>2. SubSeq(v, 1, g.mLen) = v
    BY <1>2, SubSeqFull
  <2>3. n + 1 = 1
    BY <1>3
  <2> QED  BY <2>1, <2>2, <2>3 DEF v, n
<1>4. CASE n # 0
  <2>1. Consume(g, size) = SubtractLength([g EXCEPT !.mReadPtr = r], n)
    BY <1>4 DEF Consume
  <2>2. k \in 0..N /\ r \in 0..N /\ n \in 1..g.mLen
    BY <1>0, <1>1, <1>4 DEF Least
  <2>3. View(Consume(g, size)) = a
    <3> HIDE DEF n, r
    <3>1. Consume(g, size) = Make(g.mem, r, IF g.mWritePtr = N THEN 0 ELSE g.mWritePtr, g.mLen - n)
      BY <1>0, <2>1, ReadUpdate
    <3> QED  BY <3>1, ViewOfMade
  <2>4. ASSUME NEW i \in 1..k, NEW j \in Int, j = n + 1 + i - 1
        PROVE  At(r, i - 1) = At(g.mReadPtr, j - 1) /\ j \in 1..g.mLen
    BY <1>0, <2>2, <2>4 DEF At, Least
  <2>5. a \in Seq(Byte) /\ Len(a) = k /\ \A i \in 1..k : a[i] = g.mem[At(r, i - 1)]
    <3> HIDE DEF r, k
    <3> QED  BY <1>0, <2>2, BytesProperties
  <2>6. b \in Seq(Byte) /\ Len(b) = k /\ \A i \in 1..k : b[i] = v[n + 1 + i - 1]
    <3> HIDE DEF n, v
    <3>1. \A i \in 1..Len(v) : v[i] \in Byte
      BY <1>2, ElementOfSeq
    <3>2. n + 1 \in Int /\ g.mLen \in Int /\ \A i \in (n + 1)..g.mLen : v[i] \in Byte
      BY <1>0, <1>2, <2>2, <3>1
    <3>3. /\ b \in Seq(Byte) /\ Len(b) = IF n + 1 <= g.mLen THEN g.mLen - (n + 1) + 1 ELSE 0
          /\ \A i \in 1..(g.mLen - (n + 1) + 1) : b[i] = v[n + 1 + i - 1]
      BY <3>2, SubSeqProperties
    <3>4. /\ g.mLen - (n + 1) + 1 = k
          /\ k = IF n + 1 <= g.mLen THEN g.mLen - (n + 1) + 1 ELSE 0
      BY <1>0, <2>2
    <3> HIDE DEF b, k
    <3> QED  BY <3>3, <3>4
  <2>7. ASSUME NEW i \in 1..k PROVE a[i] = b[i]
    <3> DEFINE j == n + 1 + i - 1
    <3>0. j \in Int /\ j = n + 1 + i - 1
      BY <1>0, <1>1
    <3>1. a[i] = g.mem[At(r, i - 1)] /\ b[i] = v[j]
      BY <2>5, <2>6
    <3> HIDE DEF j, a, b, r, v, k, n
    <3>2. At(r, i - 1) = At(g.mReadPtr, j - 1) /\ j \in 1..g.mLen
      BY <2>4, <3>0
    <3>3. v[j] = g.mem[At(g.mReadPtr, j - 1)]
      BY <1>2, <3>2
    <3> QED  BY <3>1, <3>2, <3>3
  <2>8. a = b
    <3> HIDE DEF a, b, k
    <3> QED  BY <2>5, <2>6, <2>7, SeqEqual
  <2> QED  BY <2>3, <2>8
<1> QED
  BY <1>3, <1>4

-----------------------------------------------------------------------------
(* Lines *)

\* The byte peekLine looks at in its k-th step, and the automaton's step.
LineByte(g, k) == g.mem[(g.mReadPtr + k - 1) % N]
LineStep(g, c, k) ==
    IF c = Len(Terminal) THEN Len(Terminal)
    ELSE IF LineByte(g, k) = Terminal[c + 1] THEN c + 1 ELSE 0

\* f is the automaton's run over n bytes.
IsRun(g, f, n) == f = [k \in 0..n |-> IF k = 0 THEN 0 ELSE LineStep(g, f[k - 1], k)]

\* It has a run over any number of bytes.
LEMMA RunExists ==
    ASSUME NEW g, NEW n \in Nat
    PROVE  \E f : IsRun(g, f, n)
<1> DEFINE bad == {k \in Nat : ~\E f : IsRun(g, f, k)}
<1> SUFFICES ASSUME bad # {} PROVE FALSE
  OBVIOUS
<1>1. PICK x \in bad : \A y \in bad : x <= y
  <2>1. bad \in SUBSET Nat
    OBVIOUS
  <2> HIDE DEF bad
  <2> QED  BY <2>1, LeastNumber
<1>2. x \in Nat /\ ~\E f : IsRun(g, f, x)
  OBVIOUS
<1>3. CASE x = 0
  <2> DEFINE f == [k \in 0..0 |-> 0]
  <2>1. f = [k \in 0..0 |-> IF k = 0 THEN 0 ELSE LineStep(g, f[k - 1], k)]
    OBVIOUS
  <2> HIDE DEF f
  <2>2. IsRun(g, f, 0)
    BY <2>1 DEF IsRun
  <2> QED  BY <1>2, <1>3, <2>2
<1>4. CASE x # 0
  <2>1. x - 1 \in Nat /\ ~(x <= x - 1)
    BY <1>2, <1>4
  <2>2. x - 1 \notin bad
    BY <1>1, <2>1
  <2>3. PICK f : IsRun(g, f, x - 1)
    BY <2>1, <2>2
  <2> DEFINE h == [k \in 0..x |-> IF k = x THEN LineStep(g, f[x - 1], x) ELSE f[k]]
             e == [k \in 0..x |-> IF k = 0 THEN 0 ELSE LineStep(g, h[k - 1], k)]
  <2>4. ASSUME NEW k \in 0..x PROVE h[k] = IF k = 0 THEN 0 ELSE LineStep(g, h[k - 1], k)
    <3>1. CASE k = x
      <4>1. k - 1 \in 0..x /\ k - 1 # x /\ k # 0
        BY <1>2, <1>4, <3>1
      <4>2. h[k - 1] = f[x - 1]
        BY <3>1, <4>1
      <4>3. h[k] = LineStep(g, f[x - 1], x)
        BY <3>1
      <4> QED  BY <3>1, <4>1, <4>2, <4>3
    <3>2. CASE k # x
      <4>1. k \in 0..(x - 1)
        BY <1>2, <3>2
      <4>2. h[k] = f[k] /\ f[k] = IF k = 0 THEN 0 ELSE LineStep(g, f[k - 1], k)
        BY <2>3, <3>2, <4>1 DEF IsRun
      <4>3. k # 0 => h[k - 1] = f[k - 1]
        BY <1>2, <3>2
      <4> QED  BY <4>2, <4>3
    <3> QED  BY <3>1, <3>2
  <2>5. h = e
    BY <2>4
  <2> HIDE DEF h
  <2>6. IsRun(g, h, x)
    BY <2>5 DEF IsRun
  <2> QED  BY <1>2, <2>6
<1> QED
  BY <1>3, <1>4

\* Matched is that run.
LEMMA MatchedRuns ==
    ASSUME NEW g
    PROVE  /\ Matched(g)[0] = 0
           /\ \A k \in 1..N : Matched(g)[k] = LineStep(g, Matched(g)[k - 1], k)
<1>0. N \in Nat
  BY Constants
<1>1. PICK f : IsRun(g, f, N)
  BY <1>0, RunExists
<1> DEFINE R(m) == m = [k \in 0..N |-> IF k = 0 THEN 0
                         ELSE IF m[k - 1] = Len(Terminal) THEN Len(Terminal)
                         ELSE IF g.mem[(g.mReadPtr + k - 1) % N] = Terminal[m[k - 1] + 1]
                              THEN m[k - 1] + 1 ELSE 0]
<1>2. Matched(g) = CHOOSE m : R(m)
  BY DEF Matched
<1>3. \A m : R(m) <=> IsRun(g, m, N)
  BY DEF IsRun, LineStep, LineByte
<1> HIDE DEF R
<1>4. IsRun(g, Matched(g), N)
  BY <1>1, <1>2, <1>3, Zenon
<1> DEFINE m == Matched(g)
<1> HIDE DEF m
<1>5. m = [k \in 0..N |-> IF k = 0 THEN 0 ELSE LineStep(g, m[k - 1], k)]
  BY <1>4 DEF IsRun, m
<1>6. m[0] = 0 /\ \A k \in 1..N : m[k] = LineStep(g, m[k - 1], k)
  BY <1>0, <1>5
<1> QED
  BY <1>6 DEF m

\* What the automaton knows after j bytes: the last c of them are the first c
\* of the terminal.
Seen(g, j) ==
    LET c == Matched(g)[j]
    IN  /\ c \in 0..Len(Terminal) /\ c <= j
        /\ \A i \in 1..c : LineByte(g, j - c + i) = Terminal[i]

LEMMA TerminalIs == Terminal \in Seq(Byte) /\ Len(Terminal) \in Nat /\ Len(Terminal) >= 1
<1>1. Terminal \in Seq(Byte) /\ Terminal # <<>>
  BY BufferAssumption
<1> QED
  BY <1>1, EmptySeq, LenProperties

\* One more byte.
LEMMA SeenStep ==
    ASSUME NEW g, NEW j \in 1..N, Seen(g, j - 1), Matched(g)[j - 1] # Len(Terminal)
    PROVE  Seen(g, j)
<1> DEFINE T == Len(Terminal)  b == Matched(g)[j - 1]  c == Matched(g)[j]
<1>0. T \in Nat /\ T >= 1 /\ N \in Nat
  BY TerminalIs, Constants
<1>1. /\ b \in 0..T /\ b <= j - 1 /\ b # T
      /\ \A i \in 1..b : LineByte(g, j - 1 - b + i) = Terminal[i]
  BY DEF Seen
<1>2. c = IF LineByte(g, j) = Terminal[b + 1] THEN b + 1 ELSE 0
  BY <1>1, MatchedRuns DEF LineStep
<1> HIDE DEF T, b, c
<1>3. CASE LineByte(g, j) = Terminal[b + 1]
  <2>1. c = b + 1
    BY <1>2, <1>3
  <2>2. c \in 0..T /\ c <= j
    BY <1>0, <1>1, <2>1
  <2>3. ASSUME NEW i \in 1..c PROVE LineByte(g, j - c + i) = Terminal[i]
    <3>1. CASE i = c
      <4>1. j - c + i = j
        BY <1>0, <2>2, <3>1
      <4> QED  BY <1>3, <2>1, <3>1, <4>1
    <3>2. CASE i # c
      <4>1. j - c + i = j - 1 - b + i /\ i \in 1..b
        BY <1>0, <1>1, <2>1, <2>2, <3>2
      <4> QED  BY <1>1, <4>1
    <3> QED  BY <3>1, <3>2
  <2> QED  BY <2>2, <2>3 DEF Seen, c, T
<1>4. CASE LineByte(g, j) # Terminal[b + 1]
  <2>1. c = 0
    BY <1>2, <1>4
  <2>2. c \in 0..T /\ c <= j /\ 1..c = {}
    BY <1>0, <2>1
  <2> QED  BY <2>2 DEF Seen, c, T
<1> QED
  BY <1>3, <1>4

\* Up to the first place where all of the terminal has been seen.
LEMMA SeenUpTo ==
    ASSUME NEW g, NEW k \in 1..N, \A j \in 1..(k - 1) : Matched(g)[j] # Len(Terminal)
    PROVE  Seen(g, k)
<1> DEFINE bad == {j \in 0..k : ~Seen(g, j)}
<1>0. N \in Nat /\ Len(Terminal) \in Nat /\ Len(Terminal) >= 1
  BY TerminalIs, Constants
<1> SUFFICES ASSUME bad # {} PROVE FALSE
  BY <1>0
<1>1. PICK x \in bad : \A y \in bad : x <= y
  <2>1. bad \in SUBSET Nat
    BY <1>0
  <2> HIDE DEF bad
  <2> QED  BY <2>1, LeastNumber
<1>2. x \in 0..k /\ ~Seen(g, x)
  OBVIOUS
<1>3. CASE x = 0
  <2>1. Matched(g)[0] = 0
    BY MatchedRuns
  <2>2. 1..0 = {}
    OBVIOUS
  <2>3. Seen(g, 0)
    BY <1>0, <2>1, <2>2 DEF Seen
  <2> QED  BY <1>2, <1>3, <2>3
<1>4. CASE x # 0
  <2>1. x - 1 \in 0..k /\ ~(x <= x - 1) /\ x \in 1..N
    BY <1>0, <1>2, <1>4
  <2>2. Seen(g, x - 1)
    BY <1>1, <2>1
  <2>3. Matched(g)[x - 1] # Len(Terminal)
    <3>1. CASE x = 1
      <4>1. x - 1 = 0
        BY <3>1
      <4> QED  BY <1>0, <4>1, MatchedRuns
    <3>2. CASE x # 1
      <4>1. x - 1 \in 1..(k - 1)
        BY <1>0, <1>2, <1>4, <3>2
      <4> QED  BY <4>1
    <3> QED  BY <3>1, <3>2
  <2> QED  BY <1>2, <2>1, <2>2, <2>3, SeenStep
<1> QED
  BY <1>3, <1>4

\* The pointer arithmetic of peekLine finds the number of bytes it has seen.
LEMMA LineArithmetic ==
    ASSUME NEW r \in 0..(N - 1), NEW k \in 1..N, NEW T \in Nat, NEW past \in Int,
           past = ((r + k - 1) % N) + 1, NEW size \in Int,
           size = IF past < r
                  THEN IF past < T THEN -1 ELSE N - r + past
                  ELSE IF past - r < T THEN -1 ELSE past - r
    PROVE  T >= 1 => size = -1 \/ size = k
<1>0. N \in Nat /\ N >= 1
  BY Constants
<1> DEFINE x == r + k - 1
<1>1. x \in Nat /\ x < 2 * N
  BY <1>0
<1>2. past = (x % N) + 1
  OBVIOUS
<1>3. x = r + k - 1
  OBVIOUS
<1> HIDE DEF x
<1>4. (past = x + 1 /\ x < N) \/ (past = x - N + 1 /\ N <= x)
  <2>1. (x % N = x /\ x < N) \/ (x % N = x - N /\ N <= x)
    <3>1. CASE x < N
      BY <1>0, <1>1, <3>1, ModuloOnce
    <3>2. CASE N <= x
      BY <1>0, <1>1, <3>2, ModuloOnce
    <3> QED  BY <1>0, <1>1, <3>1, <3>2
  <2> QED  BY <1>0, <1>1, <1>2, <2>1
<1> QED
  BY <1>0, <1>1, <1>3, <1>4

\* A line is as long as peekLine says: its last bytes are the terminal.
LEMMA LineIsLine ==
    ASSUME NEW g, Good(g), LineSize(g) >= 0, LineSize(g) # 0
    PROVE  /\ LineSize(g) \in Len(Terminal)..g.mLen
           /\ g.mReadPtr # N
           /\ \A i \in 1..Len(Terminal) :
                LineByte(g, LineSize(g) - Len(Terminal) + i) = Terminal[i]
<1> DEFINE T == Len(Terminal)
           ends == {k \in 1..g.mLen : Matched(g)[k] = T}
           k == CHOOSE k \in ends : \A j \in ends : k <= j
           past == ((g.mReadPtr + k - 1) % N) + 1
<1>0. /\ N \in Nat /\ N >= 1 /\ T \in Nat /\ T >= 1
      /\ g.mReadPtr \in 0..N /\ g.mWritePtr \in 0..N /\ g.mLen \in 0..N
  BY TerminalIs, Constants, GoodFields DEF Ptrs
<1>1. g.mLen # 0 /\ g.mReadPtr # N /\ ends # {}
  BY <1>0, SMTT(40) DEF LineSize
<1>2. LineSize(g) = IF past < g.mReadPtr
                    THEN IF past < T THEN -1 ELSE N - g.mReadPtr + past
                    ELSE IF past - g.mReadPtr < T THEN -1 ELSE past - g.mReadPtr
  BY <1>0, <1>1 DEF LineSize
<1>3. k \in ends /\ \A j \in ends : k <= j
  <2>1. ends \in SUBSET Nat
    BY <1>0
  <2> HIDE DEF ends
  <2>2. \E x \in ends : \A y \in ends : x <= y
    BY <1>1, <2>1, LeastNumber
  <2> QED  BY <2>2
<1> HIDE DEF k
<1>4. k \in 1..g.mLen /\ k \in 1..N /\ Matched(g)[k] = T
  BY <1>0, <1>3
<1>5. ASSUME NEW j \in 1..(k - 1) PROVE Matched(g)[j] # T
  <2>1. j \in 1..g.mLen /\ ~(k <= j)
    BY <1>0, <1>4
  <2> QED  BY <1>3, <2>1
<1>6. Seen(g, k)
  BY <1>4, <1>5, SeenUpTo
<1>7. k \in T..g.mLen /\ \A i \in 1..T : LineByte(g, k - T + i) = Terminal[i]
  <2>1. T <= k /\ \A i \in 1..T : LineByte(g, k - T + i) = Terminal[i]
    BY <1>4, <1>6 DEF Seen
  <2> QED  BY <1>0, <1>4, <2>1
<1>8. LineSize(g) = k
  <2> DEFINE r == g.mReadPtr
  <2>1. r \in 0..(N - 1) /\ past \in Int /\ LineSize(g) \in Int /\ LineSize(g) # -1
    <3>1. r + k - 1 \in Int
      BY <1>0, <1>4
    <3>2. (r + k - 1) % N \in Int
      BY <1>0, <3>1
    <3> QED  BY <1>0, <1>1, <3>2, LineSizeType, SMTT(40)
  <2> DEFINE size == LineSize(g)
             p == past
  <2>2. /\ p = ((r + k - 1) % N) + 1
        /\ size = IF p < r THEN IF p < T THEN -1 ELSE N - r + p
                  ELSE IF p - r < T THEN -1 ELSE p - r
        /\ r \in 0..(N - 1) /\ p \in Int /\ size \in Int /\ size # -1
    BY <1>2, <2>1
  <2> HIDE DEF r, p, size, T
  <2>3. T >= 1 => size = -1 \/ size = k
    BY <1>0, <1>4, <2>2, LineArithmetic
  <2> QED  BY <1>0, <2>2, <2>3 DEF size
<1> QED
  BY <1>1, <1>7, <1>8

-----------------------------------------------------------------------------
(* The refinement *)

\* The abstract queue before and after a step.
LEMMA Contents ==
    ASSUME IInv, IInv'
    PROVE  /\ Content = View(ring) /\ Content' = View(ring')
           /\ Content \in Seq(Byte) /\ Len(Content) = ring.mLen
           /\ ring.mLen \in 0..N /\ N \in Nat /\ N >= 1 /\ N - Len(Content) = Free(ring)
<1>0. Good(ring) /\ Good(ring') /\ N \in Nat /\ N >= 1 /\ ring.mLen \in 0..N /\ ring'.mLen \in 0..N
  BY Constants, GoodFields DEF IInv, Ptrs
<1>1. Content = View(ring)
  BY <1>0, ContentIsView
<1>2. Content' = View(ring')
  <2>1. ring'.mLen \in 0..ring'.mLen
    BY <1>0
  <2>2. ReadBytes(ring', ring'.mLen) = Bytes(ring'.mem, ring'.mReadPtr, ring'.mLen)
    BY <1>0, <2>1, ReadIsBytes
  <2> QED  BY <2>2 DEF Content, View
<1>3. View(ring) \in Seq(Byte) /\ Len(View(ring)) = ring.mLen
  BY <1>0, ViewProperties
<1> QED
  BY <1>0, <1>1, <1>2, <1>3 DEF Free

\* What a call passed, in the terms of ByteFifo.
LEMMA CallIs ==
    ASSUME NEW given, NEW asked, NEW got, Passes(given, asked, got)
    PROVE  io' = Fifo!Call(given, asked, got)
  BY DEF Passes, Fifo!Call

\* The two modules mean the same by Least.
LEMMA SameLeast == \A a, b : Fifo!Least(a, b) = Least(a, b)
  BY DEF Fifo!Least, Least

\* What read returns is the beginning of the queue.
LEMMA ReadReturns ==
    ASSUME NEW g, Good(g), NEW size \in Nat
    PROVE  ReadBytes(g, size) = SubSeq(View(g), 1, Least(size, g.mLen))
<1> DEFINE n == Least(size, g.mLen)
<1>0. g.mLen \in 0..N /\ N \in Nat
  BY Constants, GoodFields DEF Ptrs
<1>1. n \in 0..g.mLen /\ Least(n, g.mLen) = n
  BY <1>0 DEF Least
<1>2. ReadBytes(g, size) = ReadBytes(g, n)
  BY <1>1 DEF ReadBytes
<1> HIDE DEF n
<1>3. ReadBytes(g, n) = Bytes(g.mem, g.mReadPtr, n)
  BY <1>1, ReadIsBytes
<1>4. Bytes(g.mem, g.mReadPtr, n) = SubSeq(View(g), 1, n)
  BY <1>1, ReadIsPrefix
<1> QED
  BY <1>2, <1>3, <1>4 DEF n

\* write
LEMMA WriteIsPut ==
    ASSUME IInv, IInv', NEW t, NEW q \in Chunks, Write(t, q)
    PROVE  Fifo!Put(q)
<1>0. q \in Seq(Byte) /\ Good(ring)
  BY Constants DEF IInv
<1>1. View(ring') = View(ring) \o SubSeq(q, 1, Least(Len(q), Free(ring)))
  BY <1>0, WriteAppends DEF Write
<1>2. Content' = Content \o SubSeq(q, 1, Fifo!Least(Len(q), N - Len(Content)))
  BY <1>1, Contents, SameLeast
<1>3. io' = Fifo!Call(q, 0, <<>>)
  BY CallIs DEF Write
<1> QED
  BY <1>2, <1>3 DEF Fifo!Put

\* writeByte
LEMMA WriteByteIsPut ==
    ASSUME IInv, IInv', NEW t, NEW b \in Byte, WriteByte(t, b)
    PROVE  Fifo!Put(<<b>>)
<1> DEFINE q == <<b>>
<1>0. q \in Seq(Byte) /\ Len(q) = 1 /\ Good(ring) /\ Free(ring) \in Nat
  BY Contents DEF IInv, Free
<1>1. io' = Fifo!Call(q, 0, <<>>)
  BY CallIs DEF WriteByte
<1>2. Content' = Content \o SubSeq(q, 1, Fifo!Least(Len(q), N - Len(Content)))
  <2>1. CASE Free(ring) = 0
    <3>1. Content' = Content
      <4>1. ring' = ring
        BY <2>1 DEF WriteByte
      <4> QED  BY <4>1 DEF Content
    <3>2. Least(Len(q), Free(ring)) = 0
      BY <1>0, <2>1 DEF Least
    <3>3. SubSeq(q, 1, 0) = <<>>
      BY SubSeqEmpty
    <3> HIDE DEF q
    <3>4. Content \o <<>> = Content
      BY Contents, ConcatEmptySeq
    <3>5. Fifo!Least(Len(q), N - Len(Content)) = 0
      BY <3>2, Contents, SameLeast
    <3> QED  BY <3>1, <3>3, <3>4, <3>5
  <2>2. CASE Free(ring) # 0
    <3> DEFINE m == Store(ring.mem, ring.mWritePtr, q)
               w == ring.mWritePtr + 1
               e == IF ring.mReadPtr = N THEN 0 ELSE ring.mReadPtr
               put == AddLength([ring EXCEPT !.mem = m, !.mWritePtr = w], 1)
    <3>0. ring \in Ring /\ ring.mem \in Mem /\ Ptrs(ring.mReadPtr, ring.mWritePtr, ring.mLen)
      BY <1>0, GoodFields DEF Good
    <3>1. ring' = [put EXCEPT !.mWritePtr = IF put.mWritePtr = N THEN 0 ELSE put.mWritePtr]
      BY <2>2 DEF WriteByte
    <3>2. put = Make(m, e, w, ring.mLen + 1)
      <4> HIDE DEF m, w
      <4> QED  BY <3>0, WriteUpdate
    <3> DEFINE v == IF put.mWritePtr = N THEN 0 ELSE put.mWritePtr
    <3>3. ring' = Make(m, e, v, ring.mLen + 1)
      <4>1. ring' = [put EXCEPT !.mWritePtr = v]
        BY <3>1
      <4> HIDE DEF put, m, w, e, v
      <4> QED  BY <3>2, <4>1, OneField
    <3>4. View(ring') = Bytes(m, e, ring.mLen + 1)
      <4> HIDE DEF m, e, v
      <4> QED  BY <3>3, ViewOfMade
    <3>5. Bytes(m, e, ring.mLen + 1) = Bytes(ring.mem, ring.mReadPtr, ring.mLen) \o q
      <4> DEFINE r == ring.mReadPtr  u == ring.mWritePtr  l == ring.mLen  x == ring.mem
      <4>1. x \in Mem /\ Ptrs(r, u, l)
        BY <3>0
      <4>2. q \in Seq(Byte) /\ Len(q) <= N - l /\ (r <= u => Len(q) <= N - u)
        BY <1>0, <2>2, <4>1, Contents, SMTT(40) DEF Free, Ptrs
      <4> HIDE DEF r, u, l, x, q
      <4>3. Bytes(Store(x, u, q), IF r = N THEN 0 ELSE r, l + Len(q)) = Bytes(x, r, l) \o q
        BY <4>1, <4>2, StoreAppends
      <4> QED  BY <1>0, <4>3 DEF r, u, l, x
    <3>6. Content' = Content \o q
      BY <3>4, <3>5, Contents DEF View
    <3>7. Least(Len(q), Free(ring)) = 1 /\ SubSeq(q, 1, 1) = q
      <4>1. Least(Len(q), Free(ring)) = 1
        BY <1>0, <2>2 DEF Least
      <4> HIDE DEF q
      <4>2. SubSeq(q, 1, Len(q)) = q
        BY <1>0, SubSeqFull
      <4> QED  BY <1>0, <4>1, <4>2
    <3> HIDE DEF q
    <3>8. Fifo!Least(Len(q), N - Len(Content)) = 1
      BY <3>7, Contents, SameLeast
    <3> QED  BY <3>6, <3>7, <3>8
  <2> QED  BY <2>1, <2>2
<1> QED
  BY <1>1, <1>2 DEF Fifo!Put

\* fillFromFile, when the file has bytes.
LEMMA FillIsPut ==
    ASSUME IInv, IInv', NEW t \in Producer, NEW q \in Seq(Byte), FillReads(t, q), ~(Len(q) > Free(ring))
    PROVE  Fifo!Put(q)
<1>0. Good(ring) /\ Len(q) \in Nat /\ Ptrs(ring.mReadPtr, ring.mWritePtr, ring.mLen)
      /\ N \in Nat /\ t \in Thread
  BY LenProperties, GoodFields, Constants DEF IInv, Thread
<1>1. io' = Fifo!Call(q, 0, <<>>)
  BY CallIs DEF FillReads
<1>2. ring' = FillRing(ring, q) /\ Len(q) <= FillRoom(ring, proc[t].size) /\ proc[t].at = "fill"
  BY DEF FillReads
<1>3. Len(q) <= Free(ring) /\ (ring.mReadPtr <= ring.mWritePtr => Len(q) <= N - ring.mWritePtr)
  <2>1. proc[t].size \in 0..N
    BY <1>0, <1>2, ProcKinds DEF IInv, FillProc
  <2> QED  BY <1>0, <1>2, <2>1, SMTT(40) DEF FillRoom, Least, Free, Ptrs
<1>4. View(ring') = View(ring) \o q
  BY <1>0, <1>2, <1>3, FillAppends
<1>5. Least(Len(q), Free(ring)) = Len(q)
  BY <1>3 DEF Least
<1>6. SubSeq(q, 1, Len(q)) = q
  BY SubSeqFull
<1>7. Content' = Content \o SubSeq(q, 1, Fifo!Least(Len(q), N - Len(Content)))
  BY <1>4, <1>5, <1>6, Contents, SameLeast
<1> QED
  BY <1>1, <1>7 DEF Fifo!Put

\* The last n bytes of a sequence of k bytes.
LEMMA SuffixIs ==
    ASSUME NEW s, NEW n, NEW k, Len(s) = k
    PROVE  Fifo!Suffix(s, n) = SubSeq(s, k - Least(n, k) + 1, k)
<1>1. Fifo!Suffix(s, n) = SubSeq(s, Len(s) - Fifo!Least(n, Len(s)) + 1, Len(s))
  BY DEF Fifo!Suffix
<1>2. Fifo!Least(n, Len(s)) = Least(n, Len(s))
  BY SameLeast
<1> QED
  BY <1>1, <1>2

\* The last n bytes of a concatenation.
LEMMA LastOfConcat ==
    ASSUME NEW a \in Seq(Byte), NEW q \in Seq(Byte), NEW n \in Nat
    PROVE  /\ n <= Len(q) => Fifo!Suffix(a \o q, n) = SubSeq(q, Len(q) - n + 1, Len(q))
           /\ n > Len(q) /\ n < Len(a) + Len(q) =>
                Fifo!Suffix(a \o q, n) = SubSeq(a, Len(a) + Len(q) - n + 1, Len(a)) \o q
           /\ n >= Len(a) + Len(q) => Fifo!Suffix(a \o q, n) = a \o q
<1> DEFINE s == a \o q  x == Len(a)  y == Len(q)
<1>0. /\ x \in Nat /\ y \in Nat /\ s \in Seq(Byte) /\ Len(s) = x + y
      /\ \A i \in 1..(x + y) : s[i] = IF i <= x THEN a[i] ELSE q[i - x]
  BY LenProperties, ConcatProperties
<1> DEFINE m == Least(n, x + y)
<1>1. Fifo!Suffix(s, n) = SubSeq(s, (x + y) - m + 1, x + y)
  <2> HIDE DEF s, x, y
  <2>1. Len(s) = x + y
    BY <1>0
  <2> DEFINE k == x + y
  <2> HIDE DEF k
  <2>2. Len(s) = k
    BY <2>1 DEF k
  <2>3. Fifo!Suffix(s, n) = SubSeq(s, k - Least(n, k) + 1, k)
    BY <2>2, SuffixIs
  <2> QED  BY <2>3 DEF k
<1> HIDE DEF s, x, y
<1>2. m \in Nat /\ m <= x + y /\ (n <= x + y => m = n) /\ (n > x + y => m = x + y)
  BY <1>0 DEF Least
<1> HIDE DEF m
<1> DEFINE u == SubSeq(s, (x + y) - m + 1, x + y)
<1>3. u \in Seq(Byte) /\ Len(u) = m /\ \A i \in 1..m : u[i] = s[x + y - m + i]
  <2> DEFINE lo == (x + y) - m + 1  hi == x + y
  <2>1. lo \in Int /\ hi \in Int /\ lo >= 1 /\ hi <= Len(s) /\ lo <= hi + 1
    BY <1>0, <1>2
  <2>2. hi - lo + 1 = m /\ \A i \in 1..m : lo + i - 1 = x + y - m + i
    BY <1>0, <1>2
  <2> HIDE DEF lo, hi
  <2>3. /\ SubSeq(s, lo, hi) \in Seq(Byte) /\ Len(SubSeq(s, lo, hi)) = hi - lo + 1
        /\ \A i \in 1..(hi - lo + 1) : SubSeq(s, lo, hi)[i] = s[lo + i - 1]
    BY <1>0, <2>1, PartOfBytes
  <2>4. u = SubSeq(s, lo, hi)
    BY DEF lo, hi
  <2> HIDE DEF u
  <2> QED  BY <2>2, <2>3, <2>4
<1> HIDE DEF u
<1>4. ASSUME n <= y PROVE u = SubSeq(q, y - n + 1, y)
  <2> DEFINE v == SubSeq(q, y - n + 1, y)
  <2>0. m = n
    BY <1>0, <1>2, <1>4
  <2>1. v \in Seq(Byte) /\ Len(v) = m /\ \A i \in 1..m : v[i] = q[y - m + i]
    <3> DEFINE lo == y - n + 1
    <3>1. lo \in Int /\ y \in Int /\ lo >= 1 /\ y <= Len(q) /\ lo <= y + 1
      BY <1>0, <1>4 DEF y
    <3>2. y - lo + 1 = m /\ \A i \in 1..m : lo + i - 1 = y - m + i
      BY <1>0, <2>0
    <3> HIDE DEF lo
    <3>3. /\ SubSeq(q, lo, y) \in Seq(Byte) /\ Len(SubSeq(q, lo, y)) = y - lo + 1
          /\ \A i \in 1..(y - lo + 1) : SubSeq(q, lo, y)[i] = q[lo + i - 1]
      BY <3>1, PartOfBytes
    <3>4. v = SubSeq(q, lo, y)
      BY DEF lo
    <3> HIDE DEF v
    <3> QED  BY <3>2, <3>3, <3>4
  <2> HIDE DEF v
  <2>2. ASSUME NEW i \in 1..m PROVE u[i] = v[i]
    <3> DEFINE j == x + y - m + i
    <3>1. j \in 1..(x + y) /\ ~(j <= x) /\ j - x = y - m + i
      BY <1>0, <1>2, <1>4, <2>0
    <3>2. u[i] = s[j] /\ v[i] = q[y - m + i]
      BY <1>3, <2>1
    <3> HIDE DEF j
    <3>3. s[j] = q[j - x]
      BY <1>0, <3>1
    <3> QED  BY <3>1, <3>2, <3>3
  <2>3. u = v
    BY <1>3, <2>1, <2>2, SeqEqual
  <2> QED  BY <2>3 DEF v
<1>5. ASSUME n > y, n < x + y PROVE u = SubSeq(a, x + y - n + 1, x) \o q
  <2> DEFINE b == SubSeq(a, x + y - n + 1, x)
             v == b \o q
  <2>0. m = n
    BY <1>0, <1>2, <1>5
  <2>1. b \in Seq(Byte) /\ Len(b) = m - y /\ \A i \in 1..(m - y) : b[i] = a[x + y - m + i]
    <3> DEFINE lo == x + y - n + 1
    <3>1. lo \in Int /\ x \in Int /\ lo >= 1 /\ x <= Len(a) /\ lo <= x + 1
      BY <1>0, <1>5 DEF x
    <3>2. x - lo + 1 = m - y /\ \A i \in 1..(m - y) : lo + i - 1 = x + y - m + i
      BY <1>0, <2>0
    <3> HIDE DEF lo
    <3>3. /\ SubSeq(a, lo, x) \in Seq(Byte) /\ Len(SubSeq(a, lo, x)) = x - lo + 1
          /\ \A i \in 1..(x - lo + 1) : SubSeq(a, lo, x)[i] = a[lo + i - 1]
      BY <3>1, PartOfBytes
    <3>4. b = SubSeq(a, lo, x)
      BY DEF lo
    <3> HIDE DEF b
    <3> QED  BY <3>2, <3>3, <3>4
  <2> HIDE DEF b
  <2>2. v \in Seq(Byte) /\ Len(v) = m
        /\ \A i \in 1..m : v[i] = IF i <= m - y THEN b[i] ELSE q[i - (m - y)]
    <3>1. /\ v \in Seq(Byte) /\ Len(v) = Len(b) + Len(q)
          /\ \A i \in 1..(Len(b) + Len(q)) : v[i] = IF i <= Len(b) THEN b[i] ELSE q[i - Len(b)]
      BY <2>1, ConcatProperties
    <3>2. Len(b) + Len(q) = m /\ Len(b) = m - y
      BY <1>0, <1>2, <2>1 DEF y
    <3> HIDE DEF v
    <3> QED  BY <3>1, <3>2
  <2> HIDE DEF v
  <2>3. ASSUME NEW i \in 1..m PROVE u[i] = v[i]
    <3> DEFINE j == x + y - m + i
    <3>1. /\ j \in 1..(x + y) /\ (j <= x <=> i <= m - y)
          /\ ~(i <= m - y) => j - x = i - (m - y)
          /\ i <= m - y => i \in 1..(m - y)
      BY <1>0, <1>2, <1>5, <2>0
    <3>2. u[i] = s[j] /\ v[i] = IF i <= m - y THEN b[i] ELSE q[i - (m - y)]
      BY <1>3, <2>2
    <3>3. i <= m - y => b[i] = a[j]
      BY <2>1, <3>1
    <3> HIDE DEF j
    <3>4. s[j] = IF j <= x THEN a[j] ELSE q[j - x]
      BY <1>0, <3>1
    <3> QED  BY <3>1, <3>2, <3>3, <3>4
  <2>4. u = v
    BY <1>3, <2>2, <2>3, SeqEqual
  <2> QED  BY <2>4 DEF v, b
<1>6. ASSUME n >= x + y PROVE u = s
  <2>1. m = x + y
    BY <1>0, <1>2, <1>6
  <2>2. (x + y) - m + 1 = 1
    BY <1>0, <1>2, <2>1
  <2>3. SubSeq(s, 1, Len(s)) = s
    BY <1>0, SubSeqFull
  <2> QED  BY <1>0, <2>1, <2>2, <2>3 DEF u
<1> QED
  BY <1>1, <1>4, <1>5, <1>6 DEF s, u, x, y

\* write_overflow
LEMMA OverflowIsPutOver ==
    ASSUME IInv, IInv', NEW t, NEW q \in Chunks, WriteOverflow(t, q)
    PROVE  Fifo!PutOver(q)
<1> DEFINE d == View(ring)  l == ring.mLen
           p == IF Len(q) > N THEN SubSeq(q, Len(q) - N + 1, Len(q)) ELSE q
           over == Len(p) - Free(ring)
           g == IF over > 0 THEN Consume(ring, over) ELSE ring
<1>0. /\ q \in Seq(Byte) /\ Len(q) \in Nat /\ Good(ring) /\ N \in Nat /\ N >= 1 /\ l \in 0..N
      /\ d \in Seq(Byte) /\ Len(d) = l /\ Free(ring) = N - l
  <2>1. q \in Seq(Byte)
    BY Constants
  <2> QED  BY <2>1, Contents, LenProperties DEF IInv, Free
<1>1. io' = Fifo!Call(q, 0, <<>>)
  BY CallIs DEF WriteOverflow
<1>2. ring' = WriteInternal(g, p)
  BY DEF WriteOverflow
<1>3. /\ p \in Seq(Byte) /\ Len(p) \in 0..N
      /\ Len(q) > N => Len(p) = N /\ p = SubSeq(q, Len(q) - N + 1, Len(q))
      /\ ~(Len(q) > N) => p = q
  <2>1. CASE Len(q) > N
    <3>1. Len(q) - N + 1 \in Int /\ Len(q) - N + 1 >= 1 /\ Len(q) - N + 1 <= Len(q) + 1
          /\ Len(q) - (Len(q) - N + 1) + 1 = N /\ Len(q) \in Int /\ Len(q) <= Len(q)
      BY <1>0, <2>1
    <3>2. p \in Seq(Byte) /\ Len(p) = Len(q) - (Len(q) - N + 1) + 1
      BY <1>0, <2>1, <3>1, PartOfBytes
    <3> QED  BY <1>0, <2>1, <3>1, <3>2
  <2>2. CASE ~(Len(q) > N)
    BY <1>0, <2>2
  <2> QED  BY <2>1, <2>2
<1> HIDE DEF p, d, l
<1>4. over = Len(p) - (N - l) /\ over \in Int
  BY <1>0, <1>3
<1>5. SubSeq(p, 1, Len(p)) = p
  BY <1>3, SubSeqFull
<1>6. d \o <<>> = d /\ <<>> \o p = p
  BY <1>0, <1>3, ConcatEmptySeq
<1>7. /\ N <= Len(q) => Fifo!Suffix(d \o q, N) = SubSeq(q, Len(q) - N + 1, Len(q))
      /\ N > Len(q) /\ N < l + Len(q) =>
           Fifo!Suffix(d \o q, N) = SubSeq(d, l + Len(q) - N + 1, l) \o q
      /\ N >= l + Len(q) => Fifo!Suffix(d \o q, N) = d \o q
  BY <1>0, LastOfConcat
<1>8. CASE over > 0
  <2>1. over \in Nat /\ g = Consume(ring, over) /\ Least(over, l) = over /\ over <= l
    BY <1>0, <1>3, <1>4, <1>8 DEF Least
  <2>2. Good(g) /\ g.mLen = l - over /\ View(g) = SubSeq(d, over + 1, l)
    <3> HIDE DEF over
    <3>1. Good(Consume(ring, over))
      BY <1>0, <2>1, ConsumeAgrees
    <3>2. Consume(ring, over).mLen = l - over
      BY <1>0, <2>1, LengthsChange DEF l
    <3>3. View(Consume(ring, over)) = SubSeq(d, over + 1, l)
      BY <1>0, <2>1, ConsumeDrops DEF l, d
    <3> QED  BY <2>1, <3>1, <3>2, <3>3
  <2> HIDE DEF g
  <2>3. Free(g) = Len(p) /\ Least(Len(p), Free(g)) = Len(p)
    <3> HIDE DEF over
    <3>1. Free(g) = N - g.mLen
      BY DEF Free
    <3>2. N - g.mLen = Len(p)
      BY <1>0, <1>3, <1>4, <2>1, <2>2, SMTT(40)
    <3> QED  BY <1>3, <3>1, <3>2 DEF Least
  <2>4. View(ring') = SubSeq(d, over + 1, l) \o p
    <3>1. View(WriteInternal(g, p)) = View(g) \o SubSeq(p, 1, Least(Len(p), Free(g)))
      BY <1>3, <2>2, WriteAppends
    <3> QED  BY <1>2, <1>5, <2>2, <2>3, <3>1
  <2>5. CASE N <= Len(q)
    <3>1. p = SubSeq(q, Len(q) - N + 1, Len(q)) /\ Len(p) = N
      <4>1. CASE Len(q) > N
        BY <1>3, <4>1
      <4>2. CASE Len(q) = N
        <5>1. p = q /\ Len(q) - N + 1 = 1
          BY <1>0, <1>3, <4>2
        <5> QED  BY <1>5, <4>2, <5>1
      <4> QED  BY <1>0, <2>5, <4>1, <4>2
    <3>2. over + 1 \in Int /\ l \in Int /\ l < over + 1
      BY <1>0, <1>4, <3>1
    <3>3. SubSeq(d, over + 1, l) = <<>>
      BY <3>2, SubSeqEmpty
    <3>4. View(ring') = p
      BY <1>6, <2>4, <3>3
    <3>5. Fifo!Suffix(d \o q, N) = p
      BY <1>7, <2>5, <3>1
    <3>6. Content' = Fifo!Suffix(Content \o q, N)
      BY <3>4, <3>5, Contents DEF d
    <3> QED  BY <1>1, <3>6 DEF Fifo!PutOver
  <2>6. CASE N > Len(q)
    <3>1. p = q /\ N < l + Len(q) /\ over + 1 = l + Len(q) - N + 1
      BY <1>0, <1>3, <1>4, <1>8, <2>6
    <3>2. Fifo!Suffix(d \o q, N) = SubSeq(d, over + 1, l) \o p
      BY <1>7, <2>6, <3>1
    <3>3. Content' = Fifo!Suffix(Content \o q, N)
      BY <2>4, <3>2, Contents DEF d
    <3> QED  BY <1>1, <3>3 DEF Fifo!PutOver
  <2> QED  BY <1>0, <2>5, <2>6
<1>9. CASE ~(over > 0)
  <2>1. g = ring
    BY <1>9
  <2> HIDE DEF g
  <2>2. Len(p) <= N - l /\ Least(Len(p), Free(ring)) = Len(p)
    BY <1>0, <1>3, <1>4, <1>9 DEF Least
  <2>3. View(ring') = d \o p
    <3>1. View(WriteInternal(ring, p)) = View(ring) \o SubSeq(p, 1, Least(Len(p), Free(ring)))
      BY <1>0, <1>3, WriteAppends
    <3> QED  BY <1>2, <1>5, <2>1, <2>2, <3>1 DEF d
  <2>4. Fifo!Suffix(d \o q, N) = d \o p
    <3>1. CASE Len(q) > N
      <4>1. l = 0 /\ p = SubSeq(q, Len(q) - N + 1, Len(q)) /\ N <= Len(q)
        BY <1>0, <1>3, <2>2, <3>1
      <4>2. d = <<>>
        BY <1>0, <4>1, EmptySeq
      <4> QED  BY <1>6, <1>7, <4>1, <4>2
    <3>2. CASE ~(Len(q) > N)
      <4>1. p = q /\ N >= l + Len(q)
        BY <1>0, <1>3, <2>2, <3>2
      <4> QED  BY <1>7, <4>1
    <3> QED  BY <3>1, <3>2
  <2>5. Content' = Fifo!Suffix(Content \o q, N)
    BY <2>3, <2>4, Contents DEF d
  <2> QED  BY <1>1, <2>5 DEF Fifo!PutOver
<1> QED
  BY <1>8, <1>9

\* read
LEMMA ReadIsGet ==
    ASSUME IInv, IInv', NEW t, NEW size \in Sizes, NEW copied \in BOOLEAN, Read(t, size, copied)
    PROVE  Fifo!Get(size, copied)
<1>0. Good(ring) /\ size \in Nat
  BY Constants DEF IInv, Sizes
<1>1. io' = Fifo!Call(<<>>, size, IF copied THEN ReadBytes(ring, size) ELSE <<>>)
  BY CallIs DEF Read
<1>2. ReadBytes(ring, size) = SubSeq(View(ring), 1, Least(size, ring.mLen))
  BY <1>0, ReadReturns
<1>3. View(ring') = SubSeq(View(ring), Least(size, ring.mLen) + 1, ring.mLen)
  BY <1>0, ConsumeDrops DEF Read
<1>4. Fifo!Least(size, Len(Content)) = Least(size, ring.mLen)
  BY Contents, SameLeast
<1>5. Content' = SubSeq(Content, Fifo!Least(size, Len(Content)) + 1, Len(Content))
  BY <1>3, <1>4, Contents
<1>6. io' = Fifo!Call(<<>>, size, IF copied THEN SubSeq(Content, 1, Fifo!Least(size, Len(Content))) ELSE <<>>)
  BY <1>1, <1>2, <1>4, Contents
<1> QED
  BY <1>5, <1>6 DEF Fifo!Get

\* copy
LEMMA CopyIsPeek ==
    ASSUME IInv, IInv', NEW t, NEW size \in Sizes, Copy(t, size)
    PROVE  Fifo!Peek(size)
<1>0. Good(ring) /\ size \in Nat /\ ring.mLen \in 0..N /\ N \in Nat
  BY Constants, GoodFields DEF IInv, Sizes, Ptrs
<1>1. io' = Fifo!Call(<<>>, size, CopyBytes(ring, size)) /\ ring' = ring
  BY CallIs DEF Copy
<1> DEFINE n == Least(size, ring.mLen)
<1>2. CopyBytes(ring, size) = Bytes(ring.mem, ring.mReadPtr, n)
  BY <1>0, CopyIsBytes
<1>3. n \in 0..ring.mLen
  BY <1>0 DEF Least
<1>4. Fifo!Least(size, Len(Content)) = n
  BY Contents, SameLeast
<1> HIDE DEF n
<1>5. CopyBytes(ring, size) = SubSeq(View(ring), 1, n)
  BY <1>0, <1>2, <1>3, ReadIsPrefix
<1>6. io' = Fifo!Call(<<>>, size, SubSeq(Content, 1, Fifo!Least(size, Len(Content))))
  BY <1>1, <1>4, <1>5, Contents
<1>7. Content' = Content
  BY <1>1 DEF Content
<1> QED
  BY <1>6, <1>7 DEF Fifo!Peek

\* clear
LEMMA ClearIsClear ==
    ASSUME IInv, IInv', NEW t, Clear(t)
    PROVE  Fifo!Clear
<1>1. io' = Fifo!Call(<<>>, 0, <<>>)
  BY CallIs DEF Clear
<1>2. ring' = Make(ring.mem, 0, 0, 0)
  BY ClearUpdate DEF Clear, IInv, Good
<1>3. View(ring') = Bytes(ring.mem, 0, 0)
  BY <1>2, ViewOfMade
<1>4. Bytes(ring.mem, 0, 0) = <<>>
  <2>1. 1..0 = {}
    OBVIOUS
  <2> QED  BY <2>1 DEF Bytes
<1>5. Content' = <<>>
  BY <1>3, <1>4, Contents
<1> QED
  BY <1>1, <1>5 DEF Fifo!Clear

\* A line that peekLine and getLine find, or no line.
LEMMA LineIsFifoLine ==
    ASSUME IInv, IInv', ~(LineSize(ring) < 0)
    PROVE  /\ LineSize(ring) \in 0..Len(Content)
           /\ Fifo!IsLine(LineSize(ring))
           /\ LineBytes(ring) = SubSeq(Content, 1, LineSize(ring) - Len(Terminal))
<1> DEFINE n == LineSize(ring)  T == Len(Terminal)  d == View(ring)  l == ring.mLen
           r == ring.mReadPtr
<1>0. /\ Good(ring) /\ n \in Nat /\ T \in Nat /\ T >= 1 /\ Terminal \in Seq(Byte)
      /\ N \in Nat /\ N >= 1 /\ l \in 0..N /\ r \in 0..N /\ ring.mem \in Mem
      /\ d \in Seq(Byte) /\ Len(d) = l /\ Content = d
      /\ \A i \in 1..l : d[i] = ring.mem[At(r, i - 1)]
  <2>1. Good(ring)
    BY DEF IInv
  <2>2. n \in Nat
    BY <2>1, LineSizeType
  <2> QED
    BY <2>1, <2>2, TerminalIs, Contents, GoodFields, ViewProperties DEF Ptrs
<1>1. CASE n = 0
  <2>1. n \in 0..Len(Content) /\ Fifo!IsLine(n)
    BY <1>0, <1>1 DEF Fifo!IsLine
  <2>2. SubSeq(Content, 1, n - T) = <<>>
    <3>1. n - T \in Int /\ n - T < 1 /\ 1 \in Int
      BY <1>0, <1>1
    <3> HIDE DEF n, T
    <3> QED  BY <3>1, SubSeqEmpty
  <2>3. LineBytes(ring) = <<>>
    <3> DEFINE k == Least(n - T, l)  tail == Least(N - r, k)
    <3>1. k = n - T /\ tail = k /\ k < 1 /\ k \in Int
      BY <1>0, <1>1 DEF Least
    <3>2. LineBytes(ring) = Load(ring.mem, r, tail) \o Load(ring.mem, 0, k - tail)
      BY DEF LineBytes, ReadBytes
    <3> HIDE DEF k, tail
    <3>3. 1..tail = {} /\ 1..(k - tail) = {}
      BY <3>1
    <3>4. Load(ring.mem, r, tail) = <<>> /\ Load(ring.mem, 0, k - tail) = <<>>
      BY <3>3 DEF Load
    <3>5. <<>> \in Seq(Byte)
      BY EmptySeq
    <3>6. <<>> \o <<>> = <<>>
      BY <3>5, ConcatEmptySeq
    <3> QED  BY <3>2, <3>4, <3>6
  <2> QED  BY <2>1, <2>2, <2>3
<1>2. CASE n # 0
  <2>1. /\ n \in T..l /\ r # N
        /\ \A i \in 1..T : LineByte(ring, n - T + i) = Terminal[i]
    <3>1. n >= 0
      BY <1>0
    <3> QED  BY <1>0, <1>2, <3>1, LineIsLine
  <2> HIDE DEF n, d, l, r, T
  <2>2. ASSUME NEW i \in 1..T PROVE d[n - T + i] = Terminal[i]
    <3> DEFINE k == n - T + i  x == r + k - 1
    <3>1. k \in 1..l /\ x \in Nat /\ x < 2 * N /\ x = r + k - 1 /\ k - 1 \in Int
      BY <1>0, <2>1
    <3>2. LineByte(ring, k) = ring.mem[x % N]
      BY DEF LineByte, r
    <3>3. LineByte(ring, k) = Terminal[i]
      BY <2>1
    <3> HIDE DEF k, x
    <3>4. At(r, k - 1) = x % N
      <4>1. CASE x < N
        <5>1. x % N = x
          BY <1>0, <3>1, <4>1, ModuloOnce
        <5>2. At(r, k - 1) = x
          BY <1>0, <3>1, <4>1 DEF At
        <5> QED  BY <5>1, <5>2
      <4>2. CASE N <= x
        <5>1. x % N = x - N
          BY <1>0, <3>1, <4>2, ModuloOnce
        <5>2. At(r, k - 1) = x - N
          BY <1>0, <3>1, <4>2 DEF At
        <5> QED  BY <5>1, <5>2
      <4> QED  BY <1>0, <3>1, <4>1, <4>2
    <3>5. d[k] = ring.mem[At(r, k - 1)]
      BY <1>0, <3>1
    <3> QED  BY <3>2, <3>3, <3>4, <3>5 DEF k
  <2>3. SubSeq(d, n - T + 1, n) = Terminal
    <3> DEFINE lo == n - T + 1  s == SubSeq(d, lo, n)
    <3>1. lo \in Int /\ n \in Int /\ lo >= 1 /\ n <= Len(d) /\ lo <= n + 1
      BY <1>0, <2>1
    <3>2. n - lo + 1 = T /\ \A i \in 1..T : lo + i - 1 = n - T + i
      BY <1>0, <2>1
    <3> HIDE DEF lo
    <3>3. s \in Seq(Byte) /\ Len(s) = n - lo + 1 /\ \A i \in 1..(n - lo + 1) : s[i] = d[lo + i - 1]
      BY <1>0, <3>1, PartOfBytes
    <3> HIDE DEF s
    <3>4. ASSUME NEW i \in 1..T PROVE s[i] = Terminal[i]
      <4>1. s[i] = d[lo + i - 1] /\ lo + i - 1 = n - T + i
        BY <3>2, <3>3
      <4> QED  BY <2>2, <4>1
    <3>5. Len(s) = T /\ T = Len(Terminal)
      BY <3>2, <3>3 DEF T
    <3>6. s = Terminal
      BY <1>0, <3>3, <3>4, <3>5, SeqEqual
    <3> QED  BY <3>6 DEF s, lo
  <2>4. Fifo!IsLine(n)
    <3>1. n >= T
      BY <1>0, <2>1
    <3> QED  BY <1>0, <2>3, <3>1 DEF Fifo!IsLine, T
  <2>5. n \in 0..Len(Content)
    BY <1>0, <2>1
  <2>6. LineBytes(ring) = SubSeq(Content, 1, n - T)
    <3> DEFINE k == n - T
    <3>1. k \in 0..ring.mLen
      BY <1>0, <2>1 DEF l
    <3>2. LineBytes(ring) = ReadBytes(ring, k)
      BY DEF LineBytes, n, T
    <3> HIDE DEF k
    <3>3. ReadBytes(ring, k) = SubSeq(View(ring), 1, k)
      BY <1>0, <3>1, ReadIsBytes, ReadIsPrefix
    <3> QED  BY <1>0, <3>2, <3>3 DEF k, d
  <2> QED  BY <2>4, <2>5, <2>6 DEF n, T
<1> QED
  BY <1>1, <1>2

\* getLine and peekLine
LEMMA LinesAreLines ==
    ASSUME IInv, IInv', NEW t, GetLine(t) \/ PeekLine(t)
    PROVE  [Fifo!Next]_(Fifo!fvars)
<1>1. CASE LineSize(ring) < 0
  <2>1. ring' = ring /\ io' = io
    BY <1>1 DEF GetLine, PeekLine
  <2> QED  BY <2>1 DEF Fifo!fvars, Content
<1>2. CASE ~(LineSize(ring) < 0)
  <2> DEFINE n == LineSize(ring)
  <2>0. /\ n \in 0..Len(Content) /\ Fifo!IsLine(n)
        /\ LineBytes(ring) = SubSeq(Content, 1, n - Len(Terminal))
    BY <1>2, LineIsFifoLine
  <2>1. io' = Fifo!Call(<<>>, 0, SubSeq(Content, 1, n - Len(Terminal)))
    <3>1. Passes(<<>>, 0, LineBytes(ring))
      BY <1>2 DEF GetLine, PeekLine
    <3> QED  BY <2>0, <3>1, CallIs
  <2>2. CASE PeekLine(t)
    <3>1. Content' = Content
      BY <1>2, <2>2 DEF PeekLine, Content
    <3> HIDE DEF n
    <3>2. Fifo!PeekLine(n)
      BY <2>0, <2>1, <3>1 DEF Fifo!PeekLine
    <3> QED  BY <2>0, <3>2 DEF Fifo!Next
  <2>3. CASE GetLine(t)
    <3>1. ring' = Consume(ring, n)
      BY <1>2, <2>3 DEF GetLine
    <3> HIDE DEF n
    <3>2. n \in Nat /\ n <= ring.mLen /\ Good(ring) /\ Least(n, ring.mLen) = n
      BY <2>0, Contents DEF IInv, Least
    <3>3. View(ring') = SubSeq(View(ring), n + 1, ring.mLen)
      BY <3>1, <3>2, ConsumeDrops
    <3>4. Content' = SubSeq(Content, n + 1, Len(Content))
      BY <3>3, Contents
    <3>5. Fifo!GetLine(n)
      BY <2>0, <2>1, <3>4 DEF Fifo!GetLine
    <3> QED  BY <2>0, <3>5 DEF Fifo!Next
  <2> QED  BY <2>2, <2>3
<1> QED
  BY <1>1, <1>2

\* Every step of every thread is a step of the queue, or none.
LEMMA StepIsFifoStep ==
    ASSUME IInv, IInv', [BufferNext]_bufferVars
    PROVE  [Fifo!Next]_(Fifo!fvars)
<1>0. Producer \subseteq Thread /\ Overwriter \subseteq Producer /\ Chunks \subseteq Seq(Byte)
  BY BufferAssumption DEF Thread
<1>1. ASSUME ring' = ring, io' = io PROVE [Fifo!Next]_(Fifo!fvars)
  BY <1>1 DEF Fifo!fvars, Content
<1>2. CASE UNCHANGED bufferVars
  BY <1>1, <1>2 DEF bufferVars
<1>3. ASSUME NEW t \in Producer, NEW q \in Chunks, Write(t, q) PROVE Fifo!Next
  <2>1. Fifo!Put(q)
    BY <1>3, WriteIsPut
  <2> QED  BY <2>1 DEF Fifo!Next
<1>4. ASSUME NEW t \in Producer, NEW b \in Byte, WriteByte(t, b) PROVE Fifo!Next
  <2>1. Fifo!Put(<<b>>)
    BY <1>4, WriteByteIsPut
  <2> QED  BY <2>1 DEF Fifo!Next
<1>5. ASSUME NEW t \in Producer, NEW q \in Chunks \cup {<<>>}, FillReads(t, q)
      PROVE  [Fifo!Next]_(Fifo!fvars)
  <2>1. CASE Len(q) > Free(ring)
    BY <1>1, <1>5, <2>1 DEF FillReads
  <2>2. CASE ~(Len(q) > Free(ring))
    <3>1. q \in Seq(Byte)
      BY <1>0, EmptySeq
    <3>2. Fifo!Put(q)
      BY <1>5, <2>2, <3>1, FillIsPut
    <3>3. CASE q \in Chunks
      BY <3>2, <3>3 DEF Fifo!Next
    <3>4. CASE q = <<>>
      \* A file without bytes changes nothing, like a read of nothing.
      <4>1. io' = Fifo!Call(<<>>, 0, <<>>)
        BY <3>2, <3>4 DEF Fifo!Put
      <4>2. Content' = Content
        <5> DEFINE k == Fifo!Least(Len(q), N - Len(Content))
        <5>1. k \in Int /\ k < 1
          <6>1. Len(q) = 0 /\ N - Len(Content) \in Nat
            BY <3>4, Contents, EmptySeq
          <6> QED  BY <6>1 DEF Fifo!Least
        <5>2. Content' = Content \o SubSeq(q, 1, k)
          BY <3>2 DEF Fifo!Put
        <5> HIDE DEF k
        <5>3. SubSeq(q, 1, k) = <<>>
          BY <5>1, SubSeqEmpty
        <5>4. Content \o <<>> = Content
          BY Contents, ConcatEmptySeq
        <5> QED  BY <5>2, <5>3, <5>4
      <4>3. Fifo!Least(0, Len(Content)) = 0 /\ Len(Content) \in Nat
        BY Contents DEF Fifo!Least
      <4>4. SubSeq(Content, 1, Len(Content)) = Content
        BY Contents, SubSeqFull
      <4>5. Content' = SubSeq(Content, Fifo!Least(0, Len(Content)) + 1, Len(Content))
        BY <4>2, <4>3, <4>4
      <4>6. Fifo!Get(0, FALSE)
        BY <4>1, <4>5 DEF Fifo!Get
      <4>7. 0 \in 0..(N + 1)
        BY Constants
      <4> QED  BY <4>6, <4>7 DEF Fifo!Next
    <3> QED  BY <3>3, <3>4
  <2> QED  BY <2>1, <2>2
<1>6. ASSUME NEW t \in Overwriter, NEW q \in Chunks, WriteOverflow(t, q) PROVE Fifo!Next
  <2>1. Fifo!PutOver(q)
    BY <1>6, OverflowIsPutOver
  <2> QED  BY <2>1 DEF Fifo!Next
<1>7. ASSUME NEW t \in Consumer, NEW size \in Sizes, NEW copied \in BOOLEAN, Read(t, size, copied)
      PROVE  Fifo!Next
  <2>1. Fifo!Get(size, copied) /\ size \in 0..(N + 1)
    BY <1>7, ReadIsGet DEF Sizes
  <2>2. CASE copied
    <3>1. Fifo!Get(size, TRUE)
      BY <2>1, <2>2 DEF Fifo!Get
    <3> QED  BY <2>1, <3>1 DEF Fifo!Next
  <2>3. CASE ~copied
    <3>1. Fifo!Get(size, FALSE)
      BY <2>1, <2>3 DEF Fifo!Get
    <3> QED  BY <2>1, <3>1 DEF Fifo!Next
  <2> QED  BY <2>2, <2>3
<1>8. ASSUME NEW t \in Consumer, NEW size \in Sizes, Copy(t, size) PROVE Fifo!Next
  <2>1. Fifo!Peek(size) /\ size \in 0..(N + 1)
    BY <1>8, CopyIsPeek DEF Sizes
  <2> QED  BY <2>1 DEF Fifo!Next
<1>9. ASSUME NEW t \in Consumer, Clear(t) PROVE Fifo!Next
  <2>1. Fifo!Clear
    BY <1>9, ClearIsClear
  <2> QED  BY <2>1 DEF Fifo!Next
<1>10. ASSUME NEW t \in Consumer, GetLine(t) \/ PeekLine(t) PROVE [Fifo!Next]_(Fifo!fvars)
  BY <1>10, LinesAreLines
<1>11. ASSUME NEW t,
              \/ \E size \in Sizes : FillFromFile(t, size)
              \/ FillFails(t)
              \/ \E threshold \in 1..N, msecs \in Msecs :
                   WaitFor(t, "free", threshold, msecs) \/ WaitFor(t, "data", threshold, msecs)
              \/ ByteAtReturns(t) \/ (\E i \in Sizes : ByteAt(t, i))
              \/ Awake(t) \/ TimedOut(t)
       PROVE  [Fifo!Next]_(Fifo!fvars)
  BY <1>1, <1>11 DEF FillFromFile, FillFails, WaitFor, ByteAtReturns, ByteAt, Awake, TimedOut
<1> QED
  BY <1>2, <1>3, <1>4, <1>5, <1>6, <1>7, <1>8, <1>9, <1>10, <1>11 DEF BufferNext

\* For every ring size, every set of chunks, every line terminal and any number
\* of threads: the ring with its two pointers, its two-piece copies and its
\* line search is a queue of at most N bytes.  What read, copy, getLine and
\* peekLine return is, in order, what write, writeByte, write_overflow and
\* fillFromFile put in.
THEOREM BufferIsFifo == BufferSpec => ImplementsFifo
<1>1. BufferInit => Fifo!Init
  <2> SUFFICES ASSUME BufferInit PROVE Fifo!Init
    OBVIOUS
  <2>1. IInv /\ ring.mLen = 0
    BY InitGood DEF BufferInit
  <2>2. Content \in Seq(Byte) /\ Len(Content) = 0
    <3>1. Good(ring)
      BY <2>1 DEF IInv
    <3> QED  BY <2>1, <3>1, ContentIsView, ViewProperties
  <2>3. Content = <<>>
    BY <2>2, EmptySeq
  <2> QED  BY <2>3 DEF BufferInit, Fifo!Init, Fifo!Call
<1>2. IInv /\ IInv' /\ [BufferNext]_bufferVars => [Fifo!Next]_(Fifo!fvars)
  BY StepIsFifoStep
<1> QED
  BY <1>1, <1>2, AlwaysGood, PTL DEF BufferSpec, ImplementsFifo, Fifo!Spec

-----------------------------------------------------------------------------
(* byteAt *)

\* Bytes were added to g, or none were, and those that were there are still
\* where they were.
Added(g, h) ==
    /\ h.mReadPtr \in {g.mReadPtr, IF g.mReadPtr = N THEN 0 ELSE g.mReadPtr}
    /\ \E q \in Seq(Byte) : View(h) = View(g) \o q

\* The places of unread bytes, without the modulus.
LEMMA UnreadAt ==
    ASSUME NEW g, Good(g), NEW p \in Unread(g)
    PROVE  \E i \in 0..(g.mLen - 1) : p = At(g.mReadPtr, i) /\ View(g)[i + 1] = g.mem[p]
<1>0. N \in Nat /\ N >= 1 /\ Ptrs(g.mReadPtr, g.mWritePtr, g.mLen)
  BY Constants, GoodFields
<1>1. PICK i \in 0..(g.mLen - 1) : p = (g.mReadPtr + i) % N
  BY DEF Unread
<1> DEFINE x == g.mReadPtr + i
<1>2. x \in Nat /\ x < 2 * N /\ i + 1 \in 1..g.mLen /\ i + 1 - 1 = i
  BY <1>0 DEF Ptrs
<1>3. p = x % N
  BY <1>1, Zenon
<1>4. p = At(g.mReadPtr, i)
  <2>1. At(g.mReadPtr, i) = IF x < N THEN x ELSE x - N
    BY <1>0 DEF At, Ptrs
  <2> HIDE DEF x
  <2>2. CASE x < N
    <3>1. x % N = x
      BY <1>0, <1>2, <2>2, ModuloOnce
    <3> QED  BY <1>3, <2>1, <2>2, <3>1
  <2>3. CASE ~(x < N)
    <3>1. x % N = x - N
      <4>1. x \in Nat /\ N \in Nat /\ N >= 1 /\ N <= x /\ x < 2 * N
        BY <1>0, <1>2, <2>3
      <4> QED  BY <4>1, ModuloOnce
    <3> QED  BY <1>3, <2>1, <2>3, <3>1
  <2> QED  BY <2>2, <2>3
<1>5. View(g)[i + 1] = g.mem[At(g.mReadPtr, i)]
  BY <1>2, ViewProperties
<1> QED
  BY <1>4, <1>5

\* What is unread stays when bytes are added.
LEMMA AddedKeeps ==
    ASSUME NEW g, Good(g), NEW h, Good(h), Added(g, h), NEW p \in Unread(g)
    PROVE  h.mem[p] = g.mem[p]
<1>1. PICK i \in 0..(g.mLen - 1) : p = At(g.mReadPtr, i) /\ View(g)[i + 1] = g.mem[p]
  BY UnreadAt
<1>2. PICK q \in Seq(Byte) : View(h) = View(g) \o q
  BY DEF Added
<1>3. /\ N \in Nat /\ N >= 1 /\ g.mLen \in Nat /\ h.mLen \in Nat
      /\ Ptrs(g.mReadPtr, g.mWritePtr, g.mLen)
  BY Constants, GoodFields DEF Ptrs
<1>4. /\ View(g) \in Seq(Byte) /\ Len(View(g)) = g.mLen
      /\ Len(View(h)) = h.mLen /\ \A k \in 1..h.mLen : View(h)[k] = h.mem[At(h.mReadPtr, k - 1)]
  BY ViewProperties
<1>5. /\ Len(View(g) \o q) = Len(View(g)) + Len(q)
      /\ \A k \in 1..(Len(View(g)) + Len(q)) :
           (View(g) \o q)[k] = IF k <= Len(View(g)) THEN View(g)[k] ELSE q[k - Len(View(g))]
  BY <1>4, ConcatProperties
<1>6. Len(q) \in Nat
  BY LenProperties
<1>7. i + 1 \in 1..h.mLen /\ i + 1 <= g.mLen /\ i + 1 - 1 = i /\ i \in Int
  BY <1>2, <1>3, <1>4, <1>5, <1>6
<1>8. View(h)[i + 1] = View(g)[i + 1]
  BY <1>2, <1>3, <1>4, <1>5, <1>6, <1>7
<1>9. View(h)[i + 1] = h.mem[At(h.mReadPtr, i)]
  BY <1>4, <1>7
<1>10. At(h.mReadPtr, i) = At(g.mReadPtr, i)
  <2>1. CASE h.mReadPtr = g.mReadPtr
    BY <2>1
  <2>2. CASE g.mReadPtr = N /\ h.mReadPtr = 0
    <3>1. i < N
      BY <1>3, <1>7 DEF Ptrs
    <3> QED  BY <1>3, <1>7, <2>2, <3>1 DEF At
  <2> QED  BY <2>1, <2>2 DEF Added
<1> QED
  BY <1>1, <1>8, <1>9, <1>10

\* Where the read pointer is after bytes were added.
Reads(g, h) == h.mReadPtr \in {g.mReadPtr, IF g.mReadPtr = N THEN 0 ELSE g.mReadPtr}

LEMMA MadeReads ==
    /\ \A m, r, w, l : Make(m, r, w, l).mReadPtr = r
    /\ \A m, r, w, l : Make(m, r, w, l).mem = m
  BY DEF Make

LEMMA AddersRead ==
    ASSUME NEW g \in Ring, NEW q
    PROVE  Reads(g, WriteInternal(g, q)) /\ Reads(g, FillRing(g, q))
<1> DEFINE e == IF g.mReadPtr = N THEN 0 ELSE g.mReadPtr
           Longer(m, w, n) == AddLength([g EXCEPT !.mem = m, !.mWritePtr = w], n)
<1>1. ASSUME NEW m, NEW w, NEW n PROVE Reads(g, Longer(m, w, n))
  <2>1. Longer(m, w, n) = Make(m, e, w, g.mLen + n)
    BY WriteUpdate, Zenon
  <2>2. Make(m, e, w, g.mLen + n).mReadPtr = e
    BY MadeReads
  <2> QED  BY <2>1, <2>2, Zenon DEF Reads
<1>2. ASSUME Least(Len(q), Free(g)) = 0 PROVE Reads(g, WriteInternal(g, q))
  <2>1. WriteInternal(g, q) = g
    BY <1>2 DEF WriteInternal
  <2> QED  BY <2>1, Zenon DEF Reads
<1>3. ASSUME Least(Len(q), Free(g)) # 0 PROVE Reads(g, WriteInternal(g, q))
  <2> DEFINE size == Least(Len(q), Free(g))
             tail == Least(N - g.mWritePtr, size)
             next == IF g.mWritePtr + tail = N THEN 0 ELSE g.mWritePtr + tail
             m == Store(Store(g.mem, g.mWritePtr, SubSeq(q, 1, tail)), next, SubSeq(q, tail + 1, size))
             w == next + (size - tail)
  <2>1. WriteInternal(g, q) = Longer(m, w, size)
    BY <1>3 DEF WriteInternal
  <2> HIDE DEF m, w, size, Longer
  <2> QED  BY <1>1, <2>1
<1>4. Reads(g, FillRing(g, q))
  <2> DEFINE m == Store(g.mem, g.mWritePtr, q)
             w == IF g.mReadPtr <= g.mWritePtr /\ g.mWritePtr + Len(q) = N THEN 0
                  ELSE g.mWritePtr + Len(q)
  <2>1. FillRing(g, q) = Longer(m, w, Len(q))
    BY DEF FillRing
  <2> HIDE DEF m, w, Longer
  <2> QED  BY <1>1, <2>1
<1> QED
  BY <1>2, <1>3, <1>4

\* The step of a queue that puts bytes in leaves those that were there.
LEMMA PutAdds ==
    ASSUME IInv, IInv', NEW q \in Seq(Byte), Fifo!Put(q),
           Reads(ring, ring')
    PROVE  Added(ring, ring')
<1> DEFINE k == Fifo!Least(Len(q), N - Len(Content))
<1>1. Content' = Content \o SubSeq(q, 1, k)
  BY DEF Fifo!Put
<1>2. k \in Int /\ k <= Len(q) /\ k >= 0
  <2>1. Len(q) \in Nat /\ N - Len(Content) \in Nat
    BY Contents, LenProperties
  <2> QED  BY <2>1 DEF Fifo!Least
<1> HIDE DEF k
<1>3. SubSeq(q, 1, k) \in Seq(Byte)
  BY <1>2, PartOfBytes
<1>4. View(ring') = View(ring) \o SubSeq(q, 1, k)
  BY <1>1, Contents
<1> QED
  BY <1>3, <1>4 DEF Added, Reads

\* Every step but write_overflow leaves the memory alone or adds to it.
LEMMA StepAdds ==
    ASSUME IInv, IInv', BufferNext, ~ \E s \in Overwriter, q \in Chunks : WriteOverflow(s, q)
    PROVE  ring'.mem = ring.mem \/ Added(ring, ring')
<1>0. /\ Good(ring) /\ ring \in Ring /\ Chunks \subseteq Seq(Byte)
      /\ Sizes \subseteq Nat
  <2>1. Good(ring) /\ ring \in Ring
    BY DEF IInv, Good
  <2>2. Sizes \subseteq Nat
    BY Constants DEF Sizes
  <2> QED  BY <2>1, <2>2, Constants
<1>1. ASSUME NEW t \in Producer, NEW q \in Chunks, Write(t, q) PROVE Added(ring, ring')
  <2>1. Fifo!Put(q) /\ q \in Seq(Byte)
    BY <1>0, <1>1, WriteIsPut
  <2>2. ring' = WriteInternal(ring, q)
    BY <1>1 DEF Write
  <2>3. Reads(ring, ring')
    BY <1>0, <2>2, AddersRead
  <2> QED  BY <2>1, <2>3, PutAdds
<1>2. ASSUME NEW t \in Producer, NEW b \in Byte, WriteByte(t, b)
      PROVE  ring'.mem = ring.mem \/ Added(ring, ring')
  <2>1. CASE Free(ring) = 0
    <3>1. ring' = ring
      BY <1>2, <2>1 DEF WriteByte
    <3> QED  BY <3>1
  <2>2. CASE Free(ring) # 0
    <3> DEFINE m == Store(ring.mem, ring.mWritePtr, <<b>>)
               w == ring.mWritePtr + 1
               put == AddLength([ring EXCEPT !.mem = m, !.mWritePtr = w], 1)
               e == IF ring.mReadPtr = N THEN 0 ELSE ring.mReadPtr
               v == IF put.mWritePtr = N THEN 0 ELSE put.mWritePtr
               l == ring.mLen + 1
    <3>1. ring' = [put EXCEPT !.mWritePtr = v]
      BY <1>2, <2>2 DEF WriteByte
    <3>2. put = Make(m, e, w, l)
      <4> HIDE DEF m, w
      <4> QED  BY <1>0, WriteUpdate, Zenon
    <3> HIDE DEF m, w, put, e, v, l
    <3>3. ring'.mReadPtr = e
      BY <3>1, <3>2, OneField
    <3>4. Reads(ring, ring')
      BY <3>3 DEF e, Reads
    <3>5. Fifo!Put(<<b>>) /\ <<b>> \in Seq(Byte)
      BY <1>2, WriteByteIsPut
    <3> QED  BY <3>4, <3>5, PutAdds
  <2> QED  BY <2>1, <2>2
<1>3. ASSUME NEW t \in Producer, NEW q \in Chunks \cup {<<>>}, FillReads(t, q)
      PROVE  ring'.mem = ring.mem \/ Added(ring, ring')
  <2>1. CASE Len(q) > Free(ring)
    BY <1>3, <2>1 DEF FillReads
  <2>2. CASE ~(Len(q) > Free(ring))
    <3>1. q \in Seq(Byte)
      BY <1>0, EmptySeq
    <3>2. Fifo!Put(q)
      BY <1>3, <2>2, <3>1, FillIsPut
    <3>3. ring' = FillRing(ring, q)
      BY <1>3, <2>2 DEF FillReads
    <3>4. Reads(ring, ring')
      BY <1>0, <3>3, AddersRead
    <3> QED  BY <3>1, <3>2, <3>4, PutAdds
  <2> QED  BY <2>1, <2>2
<1>4. ASSUME NEW t \in Consumer,
             \/ \E size \in Sizes, copied \in BOOLEAN : Read(t, size, copied)
             \/ GetLine(t) \/ Clear(t)
      PROVE  ring'.mem = ring.mem
  <2>1. ASSUME NEW size \in Sizes, NEW copied \in BOOLEAN, Read(t, size, copied) PROVE ring'.mem = ring.mem
    BY <1>0, <2>1, ConsumeReads DEF Read
  <2>2. CASE GetLine(t)
    <3>1. CASE LineSize(ring) < 0
      BY <2>2, <3>1 DEF GetLine
    <3>2. CASE ~(LineSize(ring) < 0)
      <4>1. LineSize(ring) \in Nat
        BY <1>0, <3>2, LineSizeType
      <4> QED  BY <1>0, <2>2, <3>2, <4>1, ConsumeReads DEF GetLine
    <3> QED  BY <3>1, <3>2
  <2>3. CASE Clear(t)
    <3>1. ring' = [ring EXCEPT !.mReadPtr = 0, !.mWritePtr = 0, !.mLen = 0]
      BY <2>3 DEF Clear
    <3>2. ring' = Make(ring.mem, 0, 0, 0)
      BY <1>0, <3>1, ClearUpdate, Zenon
    <3> QED  BY <3>2, MadeReads
  <2> QED  BY <1>4, <2>1, <2>2, <2>3
<1>5. ASSUME NEW t,
             \/ \E size \in Sizes : FillFromFile(t, size) \/ Copy(t, size)
             \/ FillFails(t) \/ PeekLine(t)
             \/ \E threshold \in 1..N, msecs \in Msecs :
                  WaitFor(t, "free", threshold, msecs) \/ WaitFor(t, "data", threshold, msecs)
             \/ ByteAtReturns(t) \/ (\E i \in Sizes : ByteAt(t, i))
             \/ Awake(t) \/ TimedOut(t)
      PROVE  ring'.mem = ring.mem
  BY <1>5 DEF FillFromFile, Copy, FillFails, PeekLine, WaitFor, ByteAtReturns, ByteAt, Awake, TimedOut
<1> QED
  BY <1>1, <1>2, <1>3, <1>4, <1>5 DEF BufferNext

\* A thread that comes to byteAt's second step has the place of the byte it
\* asked for.
LEMMA StepFinds ==
    ASSUME IInv, BufferNext, NEW x \in Prober, proc[x].at # "byteAt", proc'[x].at = "byteAt"
    PROVE  ring'.mem[proc'[x].p] = proc'[x].byte
<1>0. x \in Thread /\ proc'[x].at \in Busy /\ proc'[x].at # "fill"
  BY BufferAssumption DEF Thread, Busy
<1>1. PICK t \in Thread : Shape(t)
  BY StepShape
<1>2. ~ Kept(x)
  BY <1>0 DEF Kept
<1>3. x = t
  BY <1>0, <1>1, <1>2 DEF Shape
<1>4. ring' = ring /\ ring.mem[proc'[t].p] = proc'[t].byte
  BY <1>0, <1>1, <1>2, <1>3 DEF Shape
<1> QED
  BY <1>3, <1>4

\* For every ring size and any number of threads that add, take and clear:
\* byteAt's pointer is that of the byte asked for, and what it points to is
\* not changed before the fetch while it is unread, except by write_overflow.
THEOREM ByteAtAlwaysRight == BufferSpec => ByteAtIsRight
<1> DEFINE Right ==
      \A t \in Prober :
          /\ proc[t].at # "byteAt" /\ proc'[t].at = "byteAt" => ring'.mem[proc'[t].p] = proc'[t].byte
          /\ proc[t].at = "byteAt" /\ proc[t].p \in Unread(ring) =>
                \/ ring'.mem[proc[t].p] = ring.mem[proc[t].p]
                \/ \E s \in Overwriter, q \in Chunks : WriteOverflow(s, q)
<1>1. ASSUME IInv, IInv', BufferNext PROVE Right
  <2> SUFFICES ASSUME NEW t \in Prober
               PROVE  /\ proc[t].at # "byteAt" /\ proc'[t].at = "byteAt"
                           => ring'.mem[proc'[t].p] = proc'[t].byte
                      /\ proc[t].at = "byteAt" /\ proc[t].p \in Unread(ring) =>
                           \/ ring'.mem[proc[t].p] = ring.mem[proc[t].p]
                           \/ \E s \in Overwriter, q \in Chunks : WriteOverflow(s, q)
    OBVIOUS
  <2>1. proc[t].at # "byteAt" /\ proc'[t].at = "byteAt" => ring'.mem[proc'[t].p] = proc'[t].byte
    BY <1>1, StepFinds
  <2>2. ASSUME proc[t].p \in Unread(ring), ~ \E s \in Overwriter, q \in Chunks : WriteOverflow(s, q)
        PROVE  ring'.mem[proc[t].p] = ring.mem[proc[t].p]
    <3>1. ring'.mem = ring.mem \/ Added(ring, ring')
      BY <1>1, <2>2, StepAdds
    <3>2. Good(ring) /\ Good(ring')
      BY <1>1 DEF IInv
    <3> QED  BY <2>2, <3>1, <3>2, AddedKeeps
  <2> QED  BY <2>1, <2>2
<1>2. UNCHANGED bufferVars => Right
  BY DEF bufferVars
<1>3. IInv /\ IInv' /\ [BufferNext]_bufferVars => [Right]_bufferVars
  BY <1>1, <1>2
<1> QED
  BY <1>3, AlwaysGood, PTL DEF BufferSpec, ByteAtIsRight
=============================================================================
