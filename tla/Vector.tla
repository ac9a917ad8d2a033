------------------------------- MODULE Vector -------------------------------
(***************************************************************************)
(* JetHead::vector (src/include/jh_vector.h): a buffer of bytes in which   *)
(* objects are constructed and destructed in place.  A slot is raw memory  *)
(* or holds an object; constructing over an object leaks it, destructing   *)
(* or copying raw memory is undefined.  elems records the value the vector *)
(* should have.                                                            *)
(***************************************************************************)
EXTENDS Integers, Sequences

CONSTANTS
    Value,                  \* values of the element type
    Default,                \* what T() constructs
    DEFAULT_ALLOCATION,
    MaxLen                  \* bound on the length of a vector

VARIABLES
    mAllocated, mData, mSizeV,
    elems,                  \* the value the vector should have (ghost)
    misuse                  \* an object was overwritten, or raw memory used

vecVars == <<mAllocated, mData, mSizeV, elems, misuse>>

Raw == "raw"

ASSUME VectorAssumption ==
    /\ Raw \notin Value /\ Default \in Value
    /\ DEFAULT_ALLOCATION \in Nat \ {0} /\ MaxLen \in Nat

\* The constructors: the default allocation or one that is asked for.
VectorInit ==
    /\ mAllocated \in {0, DEFAULT_ALLOCATION}
    /\ mData = [i \in 0..mAllocated - 1 |-> Raw]
    /\ mSizeV = 0 /\ elems = <<>> /\ misuse = FALSE
-----------------------------------------------------------------------------
\* sizeup( size ): a new buffer of that size (doubled for 0, the default when
\* nothing is allocated), the n objects copied into it and destructed.
SizeUp(buf, n, size) ==
    LET to == IF size # 0 THEN size ELSE IF buf.alloc # 0 THEN buf.alloc * 2 ELSE DEFAULT_ALLOCATION
    IN  [alloc |-> to,
         data |-> [i \in 0..to - 1 |-> IF i < n THEN buf.data[i] ELSE Raw],
         misuse |-> buf.misuse \/ n > to \/ \E i \in 0..n - 1 : buf.data[i] = Raw]

Buffer == [alloc |-> mAllocated, data |-> mData, misuse |-> misuse]

\* Placement new of vals at from, ..., which must be raw and inside the buffer.
Construct(buf, from, vals) ==
    [alloc |-> buf.alloc,
     data |-> [i \in DOMAIN buf.data |-> IF i \in from..from + Len(vals) - 1 THEN vals[i - from + 1] ELSE buf.data[i]],
     misuse |-> \/ buf.misuse
                \/ from + Len(vals) > buf.alloc
                \/ \E i \in (from..from + Len(vals) - 1) \cap DOMAIN buf.data : buf.data[i] # Raw
                \/ \E i \in 1..Len(vals) : vals[i] = Raw]

\* Destructors of the slots from ... to - 1.
Destruct(buf, from, to) ==
    [alloc |-> buf.alloc,
     data |-> [i \in DOMAIN buf.data |-> IF i \in from..to - 1 THEN Raw ELSE buf.data[i]],
     misuse |-> buf.misuse \/ \E i \in from..to - 1 : i \notin DOMAIN buf.data \/ buf.data[i] = Raw]

Become(buf, n, value) ==
    /\ mAllocated' = buf.alloc /\ mData' = buf.data /\ misuse' = buf.misuse
    /\ mSizeV' = n
    /\ elems' = value
-----------------------------------------------------------------------------
VectorPushBack(v) ==
    LET buf == IF mSizeV = mAllocated THEN SizeUp(Buffer, mSizeV, 0) ELSE Buffer
    IN  mSizeV < MaxLen /\ Become(Construct(buf, mSizeV, <<v>>), mSizeV + 1, Append(elems, v))

\* push_back( v[ i ] ): val is a reference into the buffer, which sizeup frees
\* before the copy is made.  Programs do not do this at the limit.
PushBackOwn(i) ==
    /\ mSizeV < mAllocated
    /\ mSizeV < MaxLen
    /\ Become(Construct(Buffer, mSizeV, <<mData[i]>>), mSizeV + 1, Append(elems, elems[i + 1]))

\* Mutant of VectorErase: the object in the last slot is not destructed.
VectorEraseKeepsLast(i) ==
    LET moved == [Buffer EXCEPT !.data = [k \in DOMAIN mData |-> IF k \in i..mSizeV - 2 THEN mData[k + 1] ELSE mData[k]]]
    IN  Become(moved, mSizeV - 1, [k \in 1..Len(elems) - 1 |-> IF k <= i THEN elems[k] ELSE elems[k + 1]])

\* erase( i ) moves the later elements down by assignment and destructs the
\* last slot; it aborts for an index outside.
VectorErase(i) ==
    LET moved == [Buffer EXCEPT !.data = [k \in DOMAIN mData |-> IF k \in i..mSizeV - 2 THEN mData[k + 1] ELSE mData[k]]]
    IN  Become(Destruct(moved, mSizeV - 1, mSizeV), mSizeV - 1,
               [k \in 1..Len(elems) - 1 |-> IF k <= i THEN elems[k] ELSE elems[k + 1]])

Reserve(n) ==
    /\ mAllocated < n
    /\ Become(SizeUp(Buffer, mSizeV, n), mSizeV, elems)

\* resize( n ): doubling or exact growth, destructors for what is cut off,
\* default objects for what is new.
Resize(n) ==
    LET grown == IF mAllocated >= n THEN Buffer
                 ELSE SizeUp(Buffer, mSizeV, IF n < mAllocated * 2 THEN 0 ELSE n)
        cut == IF n < mSizeV THEN Destruct(grown, n, mSizeV) ELSE grown
    IN  Become(IF n > mSizeV THEN Construct(cut, mSizeV, [i \in 1..n - mSizeV |-> Default]) ELSE cut, n,
               [i \in 1..n |-> IF i <= Len(elems) THEN elems[i] ELSE Default])

VectorClear == mSizeV > 0 /\ Become(Destruct(Buffer, 0, mSizeV), 0, <<>>)

\* operator=( rhs ): everything is destructed, room is made, copies are
\* constructed.  rhs is another vector: of itself, the objects would be gone.
Assign(rhs) ==
    LET none == Destruct(Buffer, 0, mSizeV)
        room == IF mAllocated < Len(rhs) THEN SizeUp(none, 0, Len(rhs)) ELSE none
    IN  Become(Construct(room, 0, rhs), Len(rhs), rhs)

VectorNext ==
    \/ \E v \in Value : VectorPushBack(v)
    \/ \E i \in 0..mSizeV - 1 : PushBackOwn(i) \/ VectorErase(i)
    \/ \E n \in 0..MaxLen : Reserve(n) \/ Resize(n)
    \/ \E n \in 0..MaxLen : \E rhs \in [1..n -> Value] : Assign(rhs)
    \/ VectorClear

VectorSpec == VectorInit /\ [][VectorNext]_vecVars
-----------------------------------------------------------------------------
\* Properties.

\* The first mSize slots hold the values the calls should have produced, every
\* slot behind them is raw, and on the way no object was overwritten without
\* its destructor, no raw memory was read or destructed, and nothing was put
\* outside the allocation.
SlotsAgree ==
    /\ ~ misuse
    /\ mSizeV <= mAllocated
    /\ mSizeV = Len(elems)
    /\ \A i \in 0..mAllocated - 1 : mData[i] = IF i < mSizeV THEN elems[i + 1] ELSE Raw
=============================================================================
