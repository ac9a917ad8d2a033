----------------------------- MODULE MCNetwork ------------------------------
(***************************************************************************)
(* What the network classes stand on, for TLC: the selector, or a buffer   *)
(* of received bytes.  They do not interact: a behaviour exercises one of  *)
(* them and leaves the other as constructed.                               *)
(***************************************************************************)
EXTENDS Selector, CircularBuffer

CONSTANTS a, b, t, u

VARIABLE which

f1 == 1
f2 == 2

\* Several listeners of either descriptor.  Those of f1 may remove themselves,
\* and all others of f1 with them, or those of f2.
MCReg == {[fd |-> f1, events |-> {"in", "out"}], [fd |-> f2, events |-> {"in"}]}
MCRemoves == [fd \in {f1, f2} |-> IF fd = f1 THEN {f1, f2} ELSE {}]

\* Listeners that remove themselves and nothing else.
MCSelfRemoves == [fd \in {f1, f2} |-> {fd}]

\* Chunks of every length up to one more than a ring of three bytes.
AllChunks == UNION {[1..n -> Byte] : n \in 0..3} \cup {<<a, b, a, b>>, <<b, a, a, b>>}
FewChunks == {<<a>>, <<a, b>>, <<b, a>>, <<b, b, a>>}
TwoBytes == <<a, b>>

NetInit ==
    /\ which \in {"selector", "buffer"}
    /\ Init /\ BufferInit
    /\ which # "buffer" => \A p \in DOMAIN ring.mem : ring.mem[p] = a

NetNext ==
    /\ UNCHANGED which
    /\ \/ which = "selector" /\ Next /\ UNCHANGED bufferVars
       \/ which = "buffer" /\ BufferNext /\ UNCHANGED vars

netVars == <<which, vars, bufferVars>>

NetSpec == NetInit /\ [][NetNext]_netVars

NetFairSpec == NetSpec /\ (which = "selector" => Fairness)
=============================================================================
