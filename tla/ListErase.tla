----------------------------- MODULE ListErase -----------------------------
(***************************************************************************)
(* The loops that walk a JHCOM list (src/include/jh_list.h) and erase some *)
(* of its nodes on the way, as the Remove functions of EventQueue, Timer   *)
(* and Selector do, as an operator on the sequence of nodes.               *)
(***************************************************************************)
EXTENDS Integers, Sequences, FiniteSets

\* The positions that survive when the nodes in D are erased.
Survivors(q, D) == {i \in 1..Len(q) : q[i] \notin D}

\* The elements at the positions in K, in their order: the k-th one left is
\* the one at the k-th position of K.
KeepPlaces(q, K) ==
    [k \in 1..Cardinality(K) |->
        q[CHOOSE i \in K : Cardinality({j \in K : j < i}) = k - 1]]

\* Erasing the nodes in D one by one, as the Remove functions do.
Erase(q, D) == KeepPlaces(q, Survivors(q, D))
=============================================================================
