--------------------------- MODULE PriorityChannel ---------------------------
(***************************************************************************)
(* What an EventQueue promises: pending messages, of which a taker always  *)
(* gets the oldest one of the highest priority; messages may be cancelled  *)
(* while they are pending and never after they were taken.                 *)
(***************************************************************************)
EXTENDS Integers

CONSTANTS
    Taker,      \* who takes messages
    Message,    \* messages: [ev, seq] records, a higher seq was put later
    Priority,   \* priority of each ev
    NoMessage

VARIABLES
    pending,    \* messages put and neither taken nor cancelled
    taken       \* the message each taker is working on

cvars == <<pending, taken>>

\* m is delivered before n.
Before(m, n) ==
    \/ Priority[m.ev] > Priority[n.ev]
    \/ Priority[m.ev] = Priority[n.ev] /\ m.seq < n.seq

Init == pending = {} /\ taken = [t \in Taker |-> NoMessage]

\* A put message is younger than everything pending.
Put(m) ==
    /\ \A n \in pending : n.seq < m.seq
    /\ pending' = pending \cup {m}
    /\ UNCHANGED taken

Take(t, m) ==
    /\ taken[t] = NoMessage
    /\ m \in pending
    /\ \A n \in pending \ {m} : Before(m, n)
    /\ taken' = [taken EXCEPT ![t] = m]
    /\ pending' = pending \ {m}

Finish(t) ==
    /\ taken[t] # NoMessage
    /\ taken' = [taken EXCEPT ![t] = NoMessage]
    /\ UNCHANGED pending

Cancel ==
    /\ pending' \in SUBSET pending
    /\ UNCHANGED taken

Next ==
    \/ \E m \in Message : Put(m)
    \/ \E t \in Taker, m \in Message : Take(t, m)
    \/ \E t \in Taker : Finish(t)
    \/ Cancel

Spec == Init /\ [][Next]_cvars
=============================================================================
