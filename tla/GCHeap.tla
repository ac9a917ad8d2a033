------------------------------- MODULE GCHeap -------------------------------
(***************************************************************************)
(* The debug heap behind new and delete (src/src/jh_memory.cpp, with       *)
(* GCHEAP_ENABLED) and the intrusive list it keeps its objects in          *)
(* (src/include/List++.h).  Threads allocate and delete at any time; list  *)
(* and counters change in the process-wide critical section, everything    *)
(* else outside it.  The default heap is made by the first allocation.     *)
(***************************************************************************)
EXTENDS Integers, Sequences, FiniteSets, FiniteSetsExt

CONSTANTS
    Thread,         \* threads that allocate and delete
    Block,          \* what malloc hands out
    SizeOf          \* the size asked for when a block is allocated

NoHeap == 0
HeadNode == "first"    \* List's sentinel mHead
TailNode == "final"    \* and mTail
Links == Block \cup {HeadNode, TailNode}

ASSUME HeapAssumption ==
    /\ IsFiniteSet(Thread) /\ IsFiniteSet(Block)
    /\ {NoHeap, HeadNode, TailNode, "null"} \cap Block = {}
    /\ SizeOf \in [Block -> Nat]

VARIABLES
    defaultHeap,    \* the heap that new uses: 0 for NULL
    heaps,          \* heaps constructed so far
    info,           \* per block: "raw", or the heap in its ObjInfo
    magic,          \* per block: "none", "alloced", "freed"
    nextB, prevB,   \* per heap: the pointers of List::Node
    mCurrentSize, mNumCurrentAllocations,   \* per heap
    doing,          \* per thread: what it is doing
    with            \* per thread: the block or heap it works on

heapVars == <<defaultHeap, heaps, info, magic, nextB, prevB, mCurrentSize,
              mNumCurrentAllocations, doing, with>>

HeapIds == 1..Cardinality(Thread)

\* List::List
HeapInit ==
    /\ defaultHeap = NoHeap /\ heaps = 0
    /\ info = [b \in Block |-> NoHeap] /\ magic = [b \in Block |-> "none"]
    /\ nextB = [h \in HeapIds |-> [p \in Links |-> IF p = HeadNode THEN TailNode ELSE "null"]]
    /\ prevB = [h \in HeapIds |-> [p \in Links |-> IF p = TailNode THEN HeadNode ELSE "null"]]
    /\ mCurrentSize = [h \in HeapIds |-> 0] /\ mNumCurrentAllocations = [h \in HeapIds |-> 0]
    /\ doing = [t \in Thread |-> "idle"] /\ with = [t \in Thread |-> NoHeap]
-----------------------------------------------------------------------------
\* InitCheck: the test, and the construction that follows it without a lock.
New(t) ==
    /\ doing[t] = "idle"
    /\ \E b \in Block : info[b] = NoHeap
    /\ doing' = [doing EXCEPT ![t] = IF defaultHeap = NoHeap THEN "init" ELSE "alloc"]
    /\ UNCHANGED <<defaultHeap, heaps, info, magic, nextB, prevB, mCurrentSize, mNumCurrentAllocations, with>>

InitCheck(t) ==
    /\ doing[t] = "init"
    /\ heaps' = heaps + 1
    /\ defaultHeap' = heaps + 1
    /\ doing' = [doing EXCEPT ![t] = "alloc"]
    /\ UNCHANGED <<info, magic, nextB, prevB, mCurrentSize, mNumCurrentAllocations, with>>

\* GCHeap::alloc up to the critical section: the ObjInfo in front of a block
\* that malloc gave out is filled in.
Malloc(t, b) ==
    /\ doing[t] = "alloc"
    /\ info[b] = NoHeap
    /\ info' = [info EXCEPT ![b] = defaultHeap]
    /\ magic' = [magic EXCEPT ![b] = "alloced"]
    /\ with' = [with EXCEPT ![t] = b]
    /\ doing' = [doing EXCEPT ![t] = "link"]
    /\ UNCHANGED <<defaultHeap, heaps, nextB, prevB, mCurrentSize, mNumCurrentAllocations>>

\* List::Node::insertAfter on mHead, which is push_front.
PushFrontB(h, b) ==
    /\ nextB' = [nextB EXCEPT ![h][b] = nextB[h][HeadNode], ![h][HeadNode] = b]
    /\ prevB' = [prevB EXCEPT ![h][b] = HeadNode, ![h][nextB[h][HeadNode]] = b]

Link(t) ==
    LET b == with[t]
        h == info[b]
    IN  /\ doing[t] = "link"
        /\ PushFrontB(h, b)
        /\ mCurrentSize' = [mCurrentSize EXCEPT ![h] = @ + SizeOf[b]]
        /\ mNumCurrentAllocations' = [mNumCurrentAllocations EXCEPT ![h] = @ + 1]
        /\ doing' = [doing EXCEPT ![t] = "idle"]
        /\ with' = [with EXCEPT ![t] = NoHeap]
        /\ UNCHANGED <<defaultHeap, heaps, info, magic>>

\* The blocks a program holds and no thread is deleting.
Held == {b \in Block : magic[b] = "alloced" /\ \A t \in Thread : with[t] # b}

\* operator delete: quick_find, the test of magic, then GCHeap::free of the
\* heap that the ObjInfo names.
Delete(t, b) ==
    /\ doing[t] = "idle"
    /\ b \in Held
    /\ with' = [with EXCEPT ![t] = b]
    /\ doing' = [doing EXCEPT ![t] = "free"]
    /\ UNCHANGED <<defaultHeap, heaps, info, magic, nextB, prevB, mCurrentSize, mNumCurrentAllocations>>

\* Mutant of Unlink: the node before it is not relinked.
UnlinkOneWay(t) ==
    LET b == with[t]
        h == info[b]
    IN  /\ doing[t] = "free"
        /\ prevB' = [prevB EXCEPT ![h][nextB[h][b]] = prevB[h][b]]
        /\ mCurrentSize' = [mCurrentSize EXCEPT ![h] = @ - SizeOf[b]]
        /\ mNumCurrentAllocations' = [mNumCurrentAllocations EXCEPT ![h] = @ - 1]
        /\ doing' = [doing EXCEPT ![t] = "release"]
        /\ UNCHANGED <<defaultHeap, heaps, info, magic, nextB, with>>

\* GCHeap::free's critical section, with List::Node::remove.
Unlink(t) ==
    LET b == with[t]
        h == info[b]
    IN  /\ doing[t] = "free"
        /\ nextB' = [nextB EXCEPT ![h][prevB[h][b]] = nextB[h][b]]
        /\ prevB' = [prevB EXCEPT ![h][nextB[h][b]] = prevB[h][b]]
        /\ mCurrentSize' = [mCurrentSize EXCEPT ![h] = @ - SizeOf[b]]
        /\ mNumCurrentAllocations' = [mNumCurrentAllocations EXCEPT ![h] = @ - 1]
        /\ doing' = [doing EXCEPT ![t] = "release"]
        /\ UNCHANGED <<defaultHeap, heaps, info, magic, with>>

\* After it: MAGIC_FREED, and ::free makes the block available again; what its
\* links were is lost with it.
Release(t) ==
    LET b == with[t]
    IN  /\ doing[t] = "release"
        /\ magic' = [magic EXCEPT ![b] = "freed"]
        /\ info' = [info EXCEPT ![b] = NoHeap]
        /\ nextB' = [nextB EXCEPT ![info[b]][b] = "null"]
        /\ prevB' = [prevB EXCEPT ![info[b]][b] = "null"]
        /\ doing' = [doing EXCEPT ![t] = "idle"]
        /\ with' = [with EXCEPT ![t] = NoHeap]
        /\ UNCHANGED <<defaultHeap, heaps, mCurrentSize, mNumCurrentAllocations>>

HeapNext ==
    \E t \in Thread :
        \/ New(t) \/ InitCheck(t) \/ Link(t) \/ Unlink(t) \/ Release(t)
        \/ \E b \in Block : Malloc(t, b) \/ Delete(t, b)

HeapSpec == HeapInit /\ [][HeapNext]_heapVars
-----------------------------------------------------------------------------
\* Properties.

\* The objects dumpList prints for h: getHead() and then next() to the end.
DumpList(h) ==
    LET walk[k \in 0..Cardinality(Block) + 1] ==
          IF k = 0 THEN HeadNode ELSE IF walk[k - 1] \in {TailNode, "null"} THEN TailNode ELSE nextB[h][walk[k - 1]]
    IN  {walk[k] : k \in 1..Cardinality(Block) + 1} \ {TailNode}

\* What a heap reports as leaked is what was allocated from it and not deleted,
\* and its counters are the number and the total size of those objects, also
\* when two first allocations made two heaps: a block goes back to the heap
\* that counted it.
LeakReportIsExact ==
    \A h \in HeapIds :
        LET linked == {b \in Block : info[b] = h /\ \A t \in Thread : with[t] = b => doing[t] = "free"}
        IN  /\ DumpList(h) = linked
            /\ mNumCurrentAllocations[h] = Cardinality(linked)
            /\ mCurrentSize[h] = MapThenSumSet(LAMBDA b : SizeOf[b], linked)
=============================================================================
