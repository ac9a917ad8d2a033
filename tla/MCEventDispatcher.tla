-------------------------- MODULE MCEventDispatcher --------------------------
(* Two dispatchers and two clients.  Chain: clients call d1 and d2, handlers *)
(* of d1 call d2, so calls nest but never form a circle.                     *)
EXTENDS EventDispatcher, TLC

CONSTANTS d1, d2, c1, c2, low, high

MCDispatcher == {d1, d2}
MCOne        == {d1}
MCClient     == {c1, c2}
MCEventId    == {low, high}
MCOneId      == {low}
MCIdPriority == [i \in EventId |-> IF i = high THEN 1 ELSE 0]

Chain     == c1 :> {d1} @@ c2 :> {d1, d2} @@ d1 :> {d2} @@ d2 :> {}
ToOne     == [a \in Actor |-> IF a \in Client THEN {d1} ELSE {}]

OnlyC2 == {c2}
C2AndD1 == {c2, d1}

\* d2's handlers, at the end of the chain, start nothing.
MostByC1 == c1 :> 2 @@ c2 :> 1 @@ d1 :> 1 @@ d2 :> 0
TwoEach == [a \in Actor |-> 2]
=============================================================================
