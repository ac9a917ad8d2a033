---------------------------- MODULE MCEventQueue ----------------------------
(* Three event objects, two of them normal and one of high priority, so that *)
(* every pair of priorities meets in the list; n2 and h1 are agents with      *)
(* different receivers; a looper and a thread that polls and times out.       *)
EXTENDS EventQueue, TLC

CONSTANTS t1, t2, n1, n2, h1, agent, plain, r1, r2, none

MCThread   == {t1, t2}
MCLooper   == {t1}
MCEvent    == {n1, n2, h1}
MCPriority == n1 :> PRIORITY_NORMAL @@ n2 :> PRIORITY_NORMAL @@ h1 :> PRIORITY_HIGH
MCEventId  == {plain, agent}
MCId       == n1 :> plain @@ n2 :> agent @@ h1 :> agent
MCReceiver == {r1, r2}
MCTarget   == n1 :> r1 @@ n2 :> r1 @@ h1 :> r2
=============================================================================
