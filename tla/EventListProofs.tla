-------------------------- MODULE EventListProofs --------------------------
(***************************************************************************)
(* What Insert and Erase do to the list, for every list: the facts that    *)
(* the proofs about EventQueue rest on.                                    *)
(***************************************************************************)
EXTENDS EventList, ListFacts, SequenceTheorems, TLAPS

\* The list q is in delivery order.
Ordered(q) ==
    \A i, j \in 1..Len(q) :
        i < j => \/ Priority[q[i].ev] > Priority[q[j].ev]
                 \/ /\ Priority[q[i].ev] = Priority[q[j].ev]
                    /\ q[i].seq < q[j].seq

\* A list has finitely many nodes, at most as many as it is long.
LEMMA NodesFinite ==
    ASSUME NEW q \in Seq(Node)
    PROVE  IsFiniteSet(Nodes(q)) /\ Nodes(q) \in SUBSET Node
<1>1. Len(q) \in Nat /\ q \in [1..Len(q) -> Node]
  BY LenProperties
<1>2. q \in Surjection(1..Len(q), Nodes(q))
  BY <1>1 DEF Surjection, Nodes
<1>3. IsFiniteSet(Nodes(q))
  BY <1>1, <1>2, IntervalSize, FS_Surjection
<1> QED
  BY <1>1, <1>3 DEF Nodes

-----------------------------------------------------------------------------
(* Insert *)

\* Insert puts n at one position and moves what follows back by one; every
\* node before the position has at least the priority of n, and every node
\* after it, if n is not at the back, has a lower one when the list is ordered.
LEMMA InsertPlace ==
    ASSUME NEW q \in Seq(Node), NEW n \in Node
    PROVE  /\ Insert(q, n) \in Seq(Node)
           /\ Len(Insert(q, n)) = Len(q) + 1
           /\ \E p \in 1..(Len(q) + 1) :
                /\ \A i \in 1..(Len(q) + 1) :
                     Insert(q, n)[i] = IF i < p THEN q[i] ELSE IF i = p THEN n ELSE q[i - 1]
                /\ \A i \in 1..(p - 1) : Priority[q[i].ev] >= Priority[n.ev]
                /\ p <= Len(q) => Priority[n.ev] > Priority[q[p].ev]
<1> DEFINE stop == Lower(q, n.ev)
<1>0. /\ Len(q) \in Nat /\ n.ev \in Event
      /\ \A i \in 1..Len(q) : q[i] \in Node /\ q[i].ev \in Event
      /\ \A e \in Event : Priority[e] \in {0, 1}
  <2>1. Len(q) \in Nat
    BY LenProperties
  <2>2. \A i \in 1..Len(q) : q[i] \in Node
    BY ElementOfSeq
  <2>3. \A m \in Node : m.ev \in Event
    BY DEF Node
  <2>4. \A e \in Event : Priority[e] \in {0, 1}
    BY PriorityAssumption DEF PRIORITY_NORMAL, PRIORITY_HIGH
  <2> QED  BY <2>1, <2>2, <2>3, <2>4
<1>1. stop \in SUBSET Nat /\ stop \in SUBSET (1..Len(q))
  BY <1>0 DEF Lower
<1>2. CASE Priority[n.ev] = PRIORITY_NORMAL \/ stop = {}
  <2>1. Insert(q, n) = Append(q, n)
    BY <1>2 DEF Insert
  <2>2. \A i \in 1..Len(q) : Priority[q[i].ev] >= Priority[n.ev]
    BY <1>0, <1>2 DEF Lower, PRIORITY_NORMAL
  <2>3. /\ Append(q, n) \in Seq(Node) /\ Len(Append(q, n)) = Len(q) + 1
        /\ \A i \in 1..Len(q) : Append(q, n)[i] = q[i]
        /\ Append(q, n)[Len(q) + 1] = n
    BY AppendProperties
  <2> DEFINE p == Len(q) + 1
  <2>4. /\ p \in 1..(Len(q) + 1)
        /\ \A i \in 1..(Len(q) + 1) :
             Append(q, n)[i] = IF i < p THEN q[i] ELSE IF i = p THEN n ELSE q[i - 1]
        /\ \A i \in 1..(p - 1) : Priority[q[i].ev] >= Priority[n.ev]
        /\ ~(p <= Len(q))
    BY <2>2, <2>3, <1>0
  <2> QED
    BY <2>1, <2>3, <2>4
<1>3. CASE ~(Priority[n.ev] = PRIORITY_NORMAL \/ stop = {})
  <2> DEFINE p == CHOOSE j \in stop : \A k \in stop : j <= k
  <2>1. p \in stop /\ \A k \in stop : p <= k
    BY <1>1, <1>3, LeastNumber
  <2>2. Insert(q, n) = SubSeq(q, 1, p - 1) \o <<n>> \o SubSeq(q, p, Len(q))
    BY <1>3 DEF Insert
  <2> HIDE DEF p
  <2>3. p \in 1..Len(q)
    BY <2>1, <1>1
  <2> DEFINE r == SubSeq(q, 1, p - 1) \o <<n>> \o SubSeq(q, p, Len(q))
  <2>7. /\ r \in Seq(Node) /\ Len(r) = Len(q) + 1
        /\ \A i \in 1..(Len(q) + 1) :
             r[i] = IF i < p THEN q[i] ELSE IF i = p THEN n ELSE q[i - 1]
    <3>1. IsInserted(r, q, p, n) /\ p \in 1..(Len(q) + 1)
      BY <2>3, <1>1 DEF IsInserted
    <3> HIDE DEF r
    <3> QED  BY <3>1, InsertedAt
  <2>8. Insert(q, n) = r
    BY <2>2
  <2> HIDE DEF r
  <2>9. \A i \in 1..(p - 1) : Priority[q[i].ev] >= Priority[n.ev]
    <3> SUFFICES ASSUME NEW i \in 1..(p - 1) PROVE Priority[q[i].ev] >= Priority[n.ev]
      OBVIOUS
    <3>1. i \in 1..Len(q) /\ i \notin stop
      <4> HIDE DEF stop
      <4> QED  BY <2>1, <2>3
    <3> QED  BY <3>1, <1>0 DEF Lower
  <2>10. Priority[n.ev] > Priority[q[p].ev]
    BY <2>1 DEF Lower
  <2>11. p \in 1..(Len(q) + 1)
    BY <2>3, <1>0
  <2> QED
    BY <2>7, <2>8, <2>9, <2>10, <2>11
<1> QED
  BY <1>2, <1>3

\* Insert adds one node to the list and loses none.
LEMMA InsertNodes ==
    ASSUME NEW q \in Seq(Node), NEW n \in Node
    PROVE  Nodes(Insert(q, n)) = Nodes(q) \cup {n}
<1>0. \E p \in 1..(Len(q) + 1) :
         /\ \A i \in 1..(Len(q) + 1) :
              Insert(q, n)[i] = IF i < p THEN q[i] ELSE IF i = p THEN n ELSE q[i - 1]
         /\ \A i \in 1..(p - 1) : Priority[q[i].ev] >= Priority[n.ev]
         /\ p <= Len(q) => Priority[n.ev] > Priority[q[p].ev]
  BY InsertPlace
<1> DEFINE r == Insert(q, n)
<1>1. PICK p \in 1..(Len(q) + 1) :
        \A i \in 1..(Len(q) + 1) : r[i] = IF i < p THEN q[i] ELSE IF i = p THEN n ELSE q[i - 1]
  BY <1>0
<1>2. Len(r) = Len(q) + 1 /\ Len(q) \in Nat
  BY InsertPlace, LenProperties
<1> HIDE DEF r
<1>3. ASSUME NEW i \in 1..Len(r) PROVE r[i] \in Nodes(q) \cup {n}
  <2>1. CASE i < p
    <3>1. i \in 1..Len(q) /\ r[i] = q[i]
      BY <2>1, <1>1, <1>2
    <3> QED  BY <3>1 DEF Nodes
  <2>2. CASE i = p  BY <2>2, <1>1, <1>2
  <2>3. CASE i > p
    <3>1. i - 1 \in 1..Len(q) /\ r[i] = q[i - 1]
      BY <2>3, <1>1, <1>2
    <3> QED  BY <3>1 DEF Nodes
  <2> QED  BY <2>1, <2>2, <2>3, <1>2
<1>4. n \in Nodes(r)
  <2>1. p \in 1..Len(r) /\ r[p] = n
    BY <1>1, <1>2
  <2> QED  BY <2>1 DEF Nodes
<1>5. ASSUME NEW i \in 1..Len(q) PROVE q[i] \in Nodes(r)
  <2>1. CASE i < p
    <3>1. i \in 1..Len(r) /\ r[i] = q[i]
      BY <2>1, <1>1, <1>2
    <3> QED  BY <3>1 DEF Nodes
  <2>2. CASE i >= p
    <3>1. i + 1 \in 1..Len(r) /\ r[i + 1] = q[i]
      BY <2>2, <1>1, <1>2
    <3> QED  BY <3>1 DEF Nodes
  <2> QED  BY <2>1, <2>2, <1>2
<1> QED
  BY <1>3, <1>4, <1>5 DEF Nodes, r

\* Insert keeps the delivery order when the new node is the youngest.
LEMMA InsertOrdered ==
    ASSUME NEW q \in Seq(Node), NEW n \in Node, Ordered(q),
           \A i \in 1..Len(q) : q[i].seq < n.seq
    PROVE  Ordered(Insert(q, n))
<1> DEFINE r == Insert(q, n)
<1>0. /\ Len(q) \in Nat /\ n.ev \in Event /\ n.seq \in Nat
      /\ \A i \in 1..Len(q) : q[i].ev \in Event /\ q[i].seq \in Nat
      /\ \A e \in Event : Priority[e] \in {0, 1}
  <2>1. Len(q) \in Nat /\ \A i \in 1..Len(q) : q[i] \in Node
    BY LenProperties, ElementOfSeq
  <2>2. \A m \in Node : m.ev \in Event /\ m.seq \in Nat
    BY DEF Node
  <2>3. \A e \in Event : Priority[e] \in {0, 1}
    BY PriorityAssumption DEF PRIORITY_NORMAL, PRIORITY_HIGH
  <2> QED  BY <2>1, <2>2, <2>3
<1>1. PICK p \in 1..(Len(q) + 1) :
        /\ \A i \in 1..(Len(q) + 1) : r[i] = IF i < p THEN q[i] ELSE IF i = p THEN n ELSE q[i - 1]
        /\ \A i \in 1..(p - 1) : Priority[q[i].ev] >= Priority[n.ev]
        /\ p <= Len(q) => Priority[n.ev] > Priority[q[p].ev]
  BY InsertPlace
<1>2. Len(r) = Len(q) + 1
  BY InsertPlace
<1> HIDE DEF r
<1>3. \A j \in p..Len(q) : Priority[n.ev] > Priority[q[j].ev]
  <2> SUFFICES ASSUME NEW j \in p..Len(q) PROVE Priority[n.ev] > Priority[q[j].ev]
    OBVIOUS
  <2>1. p \in 1..Len(q) /\ j \in 1..Len(q) /\ (p < j \/ p = j)
    BY <1>0
  <2>2. p < j => Priority[q[p].ev] >= Priority[q[j].ev]
    BY <2>1, <1>0 DEF Ordered
  <2>3. Priority[n.ev] \in Int /\ Priority[q[p].ev] \in Int /\ Priority[q[j].ev] \in Int
    BY <2>1, <1>0
  <2>4. Priority[n.ev] > Priority[q[p].ev]
    BY <2>1, <1>1, <1>0
  <2> QED  BY <2>1, <2>2, <2>3, <2>4
<1>4. ASSUME NEW i \in 1..Len(r), NEW j \in 1..Len(r), i < j
      PROVE  \/ Priority[r[i].ev] > Priority[r[j].ev]
             \/ Priority[r[i].ev] = Priority[r[j].ev] /\ r[i].seq < r[j].seq
  <2>0. i \in 1..(Len(q) + 1) /\ j \in 1..(Len(q) + 1) /\ p \in Nat
    BY <1>2, <1>0
  <2>1. CASE j < p
    <3>1. r[i] = q[i] /\ r[j] = q[j] /\ i \in 1..Len(q) /\ j \in 1..Len(q)
      BY <2>0, <2>1, <1>4, <1>1, <1>0
    <3> QED  BY <3>1, <1>4 DEF Ordered
  <2>2. CASE j = p
    <3>1. r[i] = q[i] /\ r[j] = n /\ i \in 1..Len(q) /\ i \in 1..(p - 1)
      BY <2>0, <2>2, <1>4, <1>1, <1>0
    <3>2. Priority[q[i].ev] >= Priority[n.ev] /\ q[i].seq < n.seq
      BY <3>1, <1>1
    <3>3. Priority[n.ev] \in Int /\ Priority[q[i].ev] \in Int
      BY <3>1, <1>0
    <3> QED  BY <3>1, <3>2, <3>3
  <2>3. CASE j > p /\ i = p
    <3>1. r[i] = n /\ r[j] = q[j - 1] /\ j - 1 \in p..Len(q)
      BY <2>0, <2>3, <1>1, <1>0, SMTT(40)
    <3> QED  BY <3>1, <1>3
  <2>4. CASE j > p /\ i < p
    <3>1. r[i] = q[i] /\ r[j] = q[j - 1] /\ i \in 1..Len(q) /\ j - 1 \in 1..Len(q) /\ i < j - 1
      BY <2>0, <2>4, <1>1, <1>0
    <3> QED  BY <3>1 DEF Ordered
  <2>5. CASE j > p /\ i > p
    <3>1. /\ r[i] = q[i - 1] /\ r[j] = q[j - 1]
          /\ i - 1 \in 1..Len(q) /\ j - 1 \in 1..Len(q) /\ i - 1 < j - 1
      BY <2>0, <2>5, <1>4, <1>1, <1>0
    <3> QED  BY <3>1 DEF Ordered
  <2>6. j < p \/ j = p \/ (j > p /\ (i = p \/ i < p \/ i > p))
    BY <2>0
  <2> QED
    BY <2>1, <2>2, <2>3, <2>4, <2>5, <2>6
<1> QED
  BY <1>4 DEF Ordered, r

-----------------------------------------------------------------------------
(* Erase *)

\* Erase removes the nodes of D and no other.
LEMMA EraseNodesLeft ==
    ASSUME NEW q \in Seq(Node), NEW D
    PROVE  Nodes(Erase(q, D)) = Nodes(q) \ D
<1> DEFINE K == Survivors(q, D)  r == Erase(q, D)
<1>1. \A k \in 1..Len(r) : \E i \in K : r[k] = q[i]
  BY ErasePlace
<1>2. \A i \in K : \E k \in 1..Len(r) : r[k] = q[i]
  BY ErasePlace
<1>3. \A i : i \in K <=> i \in 1..Len(q) /\ q[i] \notin D
  BY DEF Survivors
<1> HIDE DEF K, r
<1>4. ASSUME NEW x \in Nodes(r) PROVE x \in Nodes(q) /\ x \notin D
  <2>1. PICK k \in 1..Len(r) : x = r[k]
    BY DEF Nodes
  <2>2. PICK i \in K : r[k] = q[i]
    BY <1>1
  <2> QED  BY <2>1, <2>2, <1>3 DEF Nodes
<1>5. ASSUME NEW x \in Nodes(q), x \notin D PROVE x \in Nodes(r)
  <2>1. PICK i \in 1..Len(q) : x = q[i]
    BY DEF Nodes
  <2>2. i \in K
    BY <2>1, <1>3, <1>5
  <2>3. PICK k \in 1..Len(r) : r[k] = q[i]
    BY <2>2, <1>2
  <2> QED  BY <2>1, <2>3 DEF Nodes
<1>6. Nodes(r) = Nodes(q) \ D
  BY <1>4, <1>5
<1> QED
  BY <1>6 DEF r

\* Erase keeps the delivery order.
LEMMA EraseOrdered ==
    ASSUME NEW q \in Seq(Node), NEW D, Ordered(q)
    PROVE  Ordered(Erase(q, D))
<1> DEFINE r == Erase(q, D)
<1>1. \A k, m \in 1..Len(r) :
        k < m => \E i, j \in 1..Len(q) : i < j /\ r[k] = q[i] /\ r[m] = q[j]
  BY EraseOrder
<1> HIDE DEF r
<1>2. Ordered(r)
  BY <1>1 DEF Ordered
<1> QED
  BY <1>2 DEF r

-----------------------------------------------------------------------------
(* Head and Tail *)

\* The head of an ordered list comes before every other node, and the tail is
\* the ordered list of the others.
LEMMA TailOrdered ==
    ASSUME NEW q \in Seq(Node), q # <<>>, Ordered(q)
    PROVE  /\ Head(q) \in Nodes(q)
           /\ Nodes(Tail(q)) = Nodes(q) \ {Head(q)}
           /\ Ordered(Tail(q))
           /\ \A n \in Nodes(Tail(q)) :
                \/ Priority[Head(q).ev] > Priority[n.ev]
                \/ Priority[Head(q).ev] = Priority[n.ev] /\ Head(q).seq < n.seq
<1> DEFINE r == Tail(q)
<1>1. Len(q) \in Nat /\ Len(q) >= 1
  BY EmptySeq
<1>2. Len(r) = Len(q) - 1 /\ \A i \in 1..Len(r) : r[i] = q[i + 1]
  BY HeadTailProperties
<1>3. Head(q) = q[1]
  OBVIOUS
<1> HIDE DEF r
<1>4. /\ Head(q) \in Nodes(q)
      /\ \A i \in 1..Len(r) : i + 1 \in 1..Len(q) /\ r[i] = q[i + 1] /\ 1 < i + 1
  <2>1. 1 \in 1..Len(q)
    BY <1>1
  <2> QED  BY <1>1, <1>2, <1>3, <2>1 DEF Nodes
<1>5. \A i \in 1..Len(r) :
        \/ Priority[q[1].ev] > Priority[r[i].ev]
        \/ Priority[q[1].ev] = Priority[r[i].ev] /\ q[1].seq < r[i].seq
  <2>1. 1 \in 1..Len(q)
    BY <1>1
  <2> QED  BY <2>1, <1>4 DEF Ordered
<1>6. \A i \in 1..Len(r) : r[i] # q[1]
  <2>1. \A i \in 1..Len(q) : q[i] \in Node
    BY ElementOfSeq
  <2>2. \A m \in Node : Priority[m.ev] \in Int /\ m.seq \in Int
    BY PriorityAssumption DEF Node, PRIORITY_NORMAL, PRIORITY_HIGH
  <2>3. q[1] \in Node
    BY <2>1, <1>1
  <2>4. Priority[q[1].ev] \in Int /\ q[1].seq \in Int
    BY <2>2, <2>3
  <2> QED  BY <2>4, <1>5
<1>7. Nodes(r) = Nodes(q) \ {q[1]}
  <2>1. ASSUME NEW x \in Nodes(r) PROVE x \in Nodes(q) /\ x # q[1]
    <3>1. PICK i \in 1..Len(r) : x = r[i]
      BY DEF Nodes
    <3> QED  BY <3>1, <1>4, <1>6 DEF Nodes
  <2>2. ASSUME NEW x \in Nodes(q), x # q[1] PROVE x \in Nodes(r)
    <3>1. PICK i \in 1..Len(q) : x = q[i]
      BY DEF Nodes
    <3>2. i # 1
      BY <2>2, <3>1
    <3>3. i - 1 \in 1..Len(r) /\ r[i - 1] = q[i]
      BY <3>2, <1>1, <1>2
    <3> QED  BY <3>1, <3>3 DEF Nodes
  <2> QED  BY <2>1, <2>2
<1>8. Ordered(r)
  <2> SUFFICES ASSUME NEW i \in 1..Len(r), NEW j \in 1..Len(r), i < j
               PROVE  \/ Priority[r[i].ev] > Priority[r[j].ev]
                      \/ Priority[r[i].ev] = Priority[r[j].ev] /\ r[i].seq < r[j].seq
    BY DEF Ordered
  <2>1. i + 1 \in 1..Len(q) /\ j + 1 \in 1..Len(q) /\ i + 1 < j + 1
    BY <1>4, <1>1, <1>2
  <2>2. r[i] = q[i + 1] /\ r[j] = q[j + 1]
    BY <1>4
  <2>3. \/ Priority[q[i + 1].ev] > Priority[q[j + 1].ev]
        \/ Priority[q[i + 1].ev] = Priority[q[j + 1].ev] /\ q[i + 1].seq < q[j + 1].seq
    BY <2>1 DEF Ordered
  <2> QED  BY <2>2, <2>3
<1>9. \A n \in Nodes(r) :
        \/ Priority[q[1].ev] > Priority[n.ev]
        \/ Priority[q[1].ev] = Priority[n.ev] /\ q[1].seq < n.seq
  BY <1>5 DEF Nodes
<1> QED
  BY <1>3, <1>4, <1>7, <1>8, <1>9 DEF r
=============================================================================
