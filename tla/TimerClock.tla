----------------------------- MODULE TimerClock -----------------------------
(***************************************************************************)
(* Timer::clockHandler (src/src/Timer.cpp), the loop of a timer's thread:  *)
(* it waits for the time of a tick, reads the clock and calls handleTick   *)
(* once for each tick since startTime.  Clock and wait go by               *)
(* CLOCK_REALTIME (src/include/TimeUtils.h, src/src/Condition.cpp), which  *)
(* may be set at any time; the thread may be kept from running for any     *)
(* time, between any two of its steps.  Times are in milliseconds.         *)
(***************************************************************************)
EXTENDS Integers

CONSTANTS
    mMsPerTick,
    JumpLimit,      \* the 10 seconds of clockHandler
    ClockSteps,     \* by how much the clock may be set forward or back
    MaxTime,        \* bound on the time of a behaviour
    MaxSets         \* bound: how often the clock is set

ASSUME ClockAssumption ==
    /\ mMsPerTick \in Nat \ {0} /\ JumpLimit \in Nat /\ JumpLimit >= mMsPerTick
    /\ ClockSteps \subseteq Int /\ MaxTime \in Nat /\ MaxSets \in Nat

VARIABLES
    clock,              \* CLOCK_REALTIME
    startTime, curTime, \* start and cur of clockHandler
    deadline,           \* when the wait times out
    clockAt,            \* where the thread is
    counted,            \* calls of handleTick
    elapsed,            \* time that really passed (history)
    sets,               \* settings of the clock (history)
    resynced            \* startTime was read anew (history)

clockVars == <<clock, startTime, curTime, deadline, clockAt, counted, elapsed, sets, resynced>>

ClockInit ==
    /\ clock = 0 /\ startTime = 0 /\ curTime = 0 /\ deadline = 0
    /\ clockAt = "loop" /\ counted = 0
    /\ elapsed = 0 /\ sets = 0 /\ resynced = FALSE
-----------------------------------------------------------------------------
\* The world.

Pass ==
    /\ elapsed < MaxTime
    /\ elapsed' = elapsed + 1 /\ clock' = clock + 1
    /\ UNCHANGED <<startTime, curTime, deadline, clockAt, counted, sets, resynced>>

SetClock(by) ==
    /\ sets < MaxSets
    /\ clock' = clock + by /\ sets' = sets + 1
    /\ UNCHANGED <<startTime, curTime, deadline, clockAt, counted, elapsed, resynced>>
-----------------------------------------------------------------------------
\* clockHandler.

\* TimeUtils::getDifference.
GetDifference(t1, t2) == t1 - t2

\* Condition::Wait: the deadline is a reading of the clock.
BeginWait ==
    /\ clockAt = "loop"
    /\ deadline' = clock + mMsPerTick
    /\ clockAt' = "waiting"
    /\ UNCHANGED <<clock, startTime, curTime, counted, elapsed, sets, resynced>>

WaitTimesOut ==
    /\ clockAt = "waiting"
    /\ clock >= deadline
    /\ clockAt' = "awake"
    /\ UNCHANGED <<clock, startTime, curTime, deadline, counted, elapsed, sets, resynced>>

\* A wakeup without a timeout is only logged.
SpuriousWakeup ==
    /\ clockAt = "waiting"
    /\ clockAt' = "loop"
    /\ UNCHANGED <<clock, startTime, curTime, deadline, counted, elapsed, sets, resynced>>

\* Mutant of Jumped: a jump forward is not noticed.
JumpedBack(diff) == diff < 0

\* The clock was set back or jumped forward.
Jumped(diff) == diff < 0 \/ diff > JumpLimit

ReadClock ==
    /\ clockAt = "awake"
    /\ curTime' = clock
    /\ clockAt' = IF Jumped(GetDifference(clock, startTime)) THEN "resync" ELSE "count"
    /\ UNCHANGED <<clock, startTime, deadline, counted, elapsed, sets, resynced>>

\* The starting time is read anew and one tick is counted.
Resync ==
    /\ clockAt = "resync"
    /\ startTime' = clock
    /\ counted' = counted + 1
    /\ resynced' = TRUE
    /\ clockAt' = "loop"
    /\ UNCHANGED <<clock, curTime, deadline, elapsed, sets>>

\* Ticks are counted until startTime is less than two ticks behind.
CountTick ==
    /\ clockAt = "count"
    /\ GetDifference(curTime, startTime) > mMsPerTick
    /\ startTime' = startTime + mMsPerTick
    /\ counted' = counted + 1
    /\ UNCHANGED <<clock, curTime, deadline, clockAt, elapsed, sets, resynced>>

CaughtUp ==
    /\ clockAt = "count"
    /\ GetDifference(curTime, startTime) <= mMsPerTick
    /\ clockAt' = "loop"
    /\ UNCHANGED <<clock, startTime, curTime, deadline, counted, elapsed, sets, resynced>>

ClockNext ==
    \/ Pass \/ \E by \in ClockSteps : SetClock(by)
    \/ BeginWait \/ WaitTimesOut \/ SpuriousWakeup
    \/ ReadClock \/ Resync \/ CountTick \/ CaughtUp

ClockSpec == ClockInit /\ [][ClockNext]_clockVars
-----------------------------------------------------------------------------
\* Ticks keep up with time.  However late the thread runs and however the clock
\* is set, ticks are never ahead of the time that passed by more than
\* JumpLimit for each setting of the clock, so a timeout is never early by
\* more; and while there was neither a setting nor a jump, the ticks counted
\* when a turn of the loop ends are within one of the time it read.
TicksKeepTime ==
    /\ counted * mMsPerTick <= elapsed + sets * JumpLimit
    /\ (sets = 0 /\ ~ resynced /\ clockAt = "loop") =>
          /\ counted * mMsPerTick <= curTime
          /\ curTime <= (counted + 1) * mMsPerTick
=============================================================================
