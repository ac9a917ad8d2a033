------------------------------ MODULE EventList ------------------------------
(***************************************************************************)
(* The list inside an EventQueue (src/src/EventQueue.cpp) as pure          *)
(* operators.  The queue is a sequence of nodes; a node is the event       *)
(* pointer the code stores plus the number of the SendEvent call that put  *)
(* it there.  The number is history only: no operator decides by it, the   *)
(* properties use it to tell two sends of one event apart and to say       *)
(* which send came first.                                                  *)
(***************************************************************************)
EXTENDS ListErase, Integers, Sequences, FiniteSets

CONSTANTS
    Event,      \* the event objects (addresses) that programs send
    Priority    \* the priority each event was constructed with

\* The enumeration in Event.h.
PRIORITY_NORMAL == 0
PRIORITY_HIGH   == 1

ASSUME PriorityAssumption ==
    Priority \in [Event -> {PRIORITY_NORMAL, PRIORITY_HIGH}]

Node == [ev : Event, seq : Nat]

\* The positions the scan in SendEvent would stop at: nodes whose event has a
\* lower priority than e.
Lower(q, e) == {i \in 1..Len(q) : Priority[e] > Priority[q[i].ev]}

-----------------------------------------------------------------------------
\* A wrong placement: a high event goes before its equals too, and a normal
\* one is placed by the scan.
InsertNotLower(q, n) ==
    LET stop == {i \in 1..Len(q) : Priority[n.ev] >= Priority[q[i].ev]}
    IN  IF stop = {}
        THEN Append(q, n)
        ELSE LET i == CHOOSE j \in stop : \A k \in stop : j <= k
             IN  SubSeq(q, 1, i - 1) \o <<n>> \o SubSeq(q, i, Len(q))
-----------------------------------------------------------------------------

\* SendEvent's placement: a normal event goes to the back; any other event is
\* inserted before the first node of lower priority, or goes to the back.
Insert(q, n) ==
    LET stop == Lower(q, n.ev)
    IN  IF Priority[n.ev] = PRIORITY_NORMAL \/ stop = {}
        THEN Append(q, n)
        ELSE LET i == CHOOSE j \in stop : \A k \in stop : j <= k
             IN  SubSeq(q, 1, i - 1) \o <<n>> \o SubSeq(q, i, Len(q))

\* The nodes of a list.
Nodes(q) == {q[i] : i \in 1..Len(q)}
=============================================================================
