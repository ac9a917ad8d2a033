------------------------------ MODULE MCTimers ------------------------------
(***************************************************************************)
(* One timer in detail, its clock thread and the clock, or the manager     *)
(* with two timers and a dispatcher, for TLC.  The detailed timer has a    *)
(* counter of 3 bits, so that mTicks wraps around within a behaviour, and  *)
(* ticks of 3 ms, so that no period but the multiples of 3 fits.           *)
(***************************************************************************)
EXTENDS Timer, TimerClock, TimedEvents, TLC

CONSTANTS e1, e2, l1, agent, plain, r1, d1

VARIABLE which

MCId     == e1 :> plain @@ e2 :> agent
MCTarget == e1 :> r1 @@ e2 :> r1

\* The clock is set back, forward by less than a jump, or by more.
MCSteps == {-3, 5, 8}

Init == which \in {"timer", "clock", "manager"} /\ TimerInit /\ ClockInit /\ ManagerInit

Next ==
    /\ UNCHANGED which
    /\ \/ which = "timer" /\ TimerNext /\ UNCHANGED <<clockVars, managerVars>>
       \/ which = "clock" /\ ClockNext /\ UNCHANGED <<timerVars, managerVars>>
       \/ which = "manager" /\ ManagerNext /\ UNCHANGED <<timerVars, clockVars>>

vars == <<which, timerVars, clockVars, managerVars>>

Spec == Init /\ [][Next]_vars
=============================================================================
