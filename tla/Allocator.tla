----------------------------- MODULE Allocator ------------------------------
(***************************************************************************)
(* Allocator (src/src/Allocator.cpp): first fit in a sorted list of free   *)
(* blocks inside one buffer.  Every block, free or handed out, starts with *)
(* a node_t that holds its size; sizes and addresses are counted in        *)
(* pointer-size units from the start of the buffer.  Neighbouring free     *)
(* blocks are joined by free() or, with mDoCoalesceOnFree off, when an     *)
(* allocation fails or the free space is asked for.                        *)
(***************************************************************************)
EXTENDS Integers, Sequences, FiniteSets, SequencesExt, FiniteSetsExt

CONSTANTS
    mSize,          \* size of the buffer
    Request,        \* sizes the program asks for, already aligned
    NODE_SIZE,      \* size of a node_t
    SMALLEST_BLOCK, \* the least payload worth a block of its own
    Width           \* uint32_t holds 0 .. Width - 1

ASSUME AllocatorAssumption ==
    /\ NODE_SIZE \in Nat \ {0} /\ SMALLEST_BLOCK \in Nat \ {0}
    /\ mSize \in Nat /\ mSize >= NODE_SIZE
    /\ Request \subseteq Nat
    /\ Width \in Nat /\ Width > mSize + NODE_SIZE /\ \A r \in Request : r + NODE_SIZE < Width

VARIABLES
    mFreeList,          \* the free blocks: [at, size] in list order
    mDoCoalesceOnFree,
    mNumFreeNodes,      \* the list's length, as the code counts it
    used                \* blocks handed out: [at, size, want]

allocVars == <<mFreeList, mDoCoalesceOnFree, mNumFreeNodes, used>>

AllocInit ==
    /\ mFreeList = <<[at |-> 0, size |-> mSize]>>
    /\ mDoCoalesceOnFree \in BOOLEAN
    /\ mNumFreeNodes = 1
    /\ used = {}
-----------------------------------------------------------------------------
Adjacent(a, b) == a.at + a.size = b.at

\* join_free_nodes: a block swallows the ones that follow it without a gap.
JoinNode(acc, n) ==
    IF acc # <<>> /\ Adjacent(Last(acc), n)
    THEN [acc EXCEPT ![Len(acc)].size = @ + n.size]
    ELSE Append(acc, n)

JoinFreeNodes(list) ==
    LET joined[k \in 0..Len(list)] ==
          IF k = 0 THEN <<>> ELSE JoinNode(joined[k - 1], list[k])
    IN  joined[Len(list)]

\* The size of the block for a request, in 32 bits.
BlockSize(want) == (want + NODE_SIZE) % Width

\* The first block of the list that is large enough, 0 if there is none.
FirstFit(list, size) ==
    LET fits == {i \in 1..Len(list) : list[i].size >= size}
    IN  IF fits = {} THEN 0 ELSE Min(fits)

\* Mutant of Take: the remainder keeps the size of the whole block.
TakeKeepsSize(i, size, want) ==
    /\ mFreeList[i].size - size >= NODE_SIZE + SMALLEST_BLOCK
    /\ used' = used \cup {[at |-> mFreeList[i].at + mFreeList[i].size - size, size |-> size, want |-> want]}
    /\ UNCHANGED <<mFreeList, mNumFreeNodes>>

\* alloc with a block found: its tail end when the rest is worth keeping, else
\* all of it, whatever was asked for.
Take(i, size, want) ==
    LET n == mFreeList[i]
    IN  IF n.size - size >= NODE_SIZE + SMALLEST_BLOCK
        THEN /\ mFreeList' = [mFreeList EXCEPT ![i].size = @ - size]
             /\ used' = used \cup {[at |-> n.at + n.size - size, size |-> size, want |-> want]}
             /\ UNCHANGED mNumFreeNodes
        ELSE /\ mFreeList' = RemoveAt(mFreeList, i)
             /\ used' = used \cup {[at |-> n.at, size |-> n.size, want |-> want]}
             /\ mNumFreeNodes' = (mNumFreeNodes - 1) % Width

Alloc(want) ==
    LET size == BlockSize(want)
        i == FirstFit(mFreeList, size)
    IN  i # 0 /\ Take(i, size, want) /\ UNCHANGED mDoCoalesceOnFree

\* No block is large enough.  The blocks are joined, but the retry goes on
\* from the end of the list and the call returns NULL.
AllocFails(want) ==
    /\ FirstFit(mFreeList, BlockSize(want)) = 0
    /\ mFreeList' = IF mDoCoalesceOnFree THEN mFreeList ELSE JoinFreeNodes(mFreeList)
    /\ mNumFreeNodes' = (mNumFreeNodes - (Len(mFreeList) - Len(mFreeList'))) % Width
    /\ UNCHANGED <<mDoCoalesceOnFree, used>>

\* free: the block goes between its neighbours in address order, or into the
\* block before it; then it may swallow the next one.  mNumFreeNodes is not
\* counted up at the head of the list.
Free(b) ==
    LET pos == Cardinality({i \in 1..Len(mFreeList) : mFreeList[i].at < b.at})
        n == [at |-> b.at, size |-> b.size]
        intoPrev == mDoCoalesceOnFree /\ pos > 0 /\ Adjacent(mFreeList[pos], n)
        list == IF intoPrev THEN [mFreeList EXCEPT ![pos].size = @ + n.size]
                ELSE InsertAt(mFreeList, pos + 1, n)
        cur == IF intoPrev THEN pos ELSE pos + 1
        intoNext == mDoCoalesceOnFree /\ cur < Len(list) /\ Adjacent(list[cur], list[cur + 1])
    IN  /\ b \in used
        /\ used' = used \ {b}
        /\ mFreeList' = IF intoNext
                        THEN RemoveAt([list EXCEPT ![cur].size = @ + list[cur + 1].size], cur + 1)
                        ELSE list
        /\ mNumFreeNodes' = (mNumFreeNodes + (IF pos > 0 /\ ~ intoPrev THEN 1 ELSE 0)
                                           - (IF intoNext THEN 1 ELSE 0)) % Width
        /\ UNCHANGED mDoCoalesceOnFree

\* getFreeSpace joins the blocks before it adds up their sizes.
GetFreeSpace ==
    /\ ~ mDoCoalesceOnFree
    /\ mFreeList' = JoinFreeNodes(mFreeList)
    /\ mNumFreeNodes' = (mNumFreeNodes - (Len(mFreeList) - Len(mFreeList'))) % Width
    /\ UNCHANGED <<mDoCoalesceOnFree, used>>

AllocNext ==
    \/ \E want \in Request : Alloc(want) \/ AllocFails(want)
    \/ \E b \in used : Free(b)
    \/ GetFreeSpace

AllocSpec == AllocInit /\ [][AllocNext]_allocVars
-----------------------------------------------------------------------------
\* Properties.

Cells(b) == b.at .. b.at + b.size - 1

FreeBlocks == {mFreeList[i] : i \in 1..Len(mFreeList)}

\* Free blocks and blocks handed out tile the buffer: sorted, no gap, no
\* overlap, each with room for its node and for what was asked for, after any
\* sequence of allocations, failures, frees and joins; and when free() joins,
\* no two free neighbours are left.
BlocksTile ==
    /\ \A i \in 1..Len(mFreeList) - 1 : mFreeList[i].at + mFreeList[i].size <= mFreeList[i + 1].at
    /\ \A b \in used : b.size >= b.want + NODE_SIZE
    /\ \A f \in FreeBlocks : f.size >= NODE_SIZE
    /\ \A a, b \in used : a # b => Cells(a) \cap Cells(b) = {}
    /\ \A a \in used, f \in FreeBlocks : Cells(a) \cap Cells(f) = {}
    /\ UNION {Cells(b) : b \in used \cup FreeBlocks} = 0 .. mSize - 1
    /\ mDoCoalesceOnFree =>
         \A i \in 1..Len(mFreeList) - 1 : ~ Adjacent(mFreeList[i], mFreeList[i + 1])
=============================================================================
