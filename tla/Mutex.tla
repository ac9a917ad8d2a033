------------------------------- MODULE Mutex --------------------------------
(***************************************************************************)
(* Mutex and AutoLock (src/src/Mutex.cpp), with Condition::Wait            *)
(* (src/src/Condition.cpp): a pthread mutex, error-checking or recursive,  *)
(* and mLockedBy, the thread isLocked() and getOwner() go by.  The lock    *)
(* and mLockedBy change in separate steps.  Errors of pthreads are logged  *)
(* and the call goes on, as in a build without JH_VERBOSE_LOGGING.         *)
(***************************************************************************)
EXTENDS Integers, FiniteSets

CONSTANTS
    Locker,         \* threads
    Nobody,         \* NULL
    MaxDepth        \* bound: AutoLocks a thread nests

ASSUME MutexAssumption == Nobody \notin Locker /\ MaxDepth \in Nat \ {0}

VARIABLES
    mRecursive,
    holder, count,  \* the pthread mutex: its owner, and how often it is locked
    mLockedBy,
    step,           \* per thread: where it is
    scopes,         \* per thread: AutoLocks in whose scope it is
    failed,         \* history: threads that were refused a lock they hold (EDEADLK)
    traced          \* history, per thread: it locked, and has neither unlocked an inner
                    \* lock nor waited since

mutexVars == <<mRecursive, holder, count, mLockedBy, step, scopes, failed, traced>>

\* create_lock.
MutexInit ==
    /\ mRecursive \in BOOLEAN
    /\ holder = Nobody /\ count = 0 /\ mLockedBy = Nobody
    /\ step = [t \in Locker |-> "run"] /\ scopes = [t \in Locker |-> 0]
    /\ failed = {} /\ traced = [t \in Locker |-> FALSE]
-----------------------------------------------------------------------------
To(t, s) == step' = [step EXCEPT ![t] = s]

\* TraceLock blocks until the mutex is free; locking it again works if it is
\* recursive and is an error otherwise, after which the call goes on.
TraceLock(t) ==
    /\ step[t] = "run" /\ scopes[t] < MaxDepth
    /\ \/ /\ holder = Nobody \/ (holder = t /\ mRecursive)
          /\ holder' = t /\ count' = count + 1
          /\ UNCHANGED failed
       \/ /\ holder = t /\ ~mRecursive
          /\ failed' = failed \cup {t}
          /\ UNCHANGED <<holder, count>>
    /\ scopes' = [scopes EXCEPT ![t] = @ + 1]
    /\ To(t, "locked")
    /\ UNCHANGED <<mRecursive, mLockedBy, traced>>

\* mLockedBy = Thread::GetCurrent().
NoteOwner(t) ==
    /\ step[t] = "locked"
    /\ mLockedBy' = t
    /\ traced' = [traced EXCEPT ![t] = TRUE]
    /\ To(t, "run")
    /\ UNCHANGED <<mRecursive, holder, count, scopes, failed>>

\* pthread_mutex_unlock; an error when the caller does not hold the mutex.
Released(t) ==
    /\ count' = IF holder = t THEN count - 1 ELSE count
    /\ holder' = IF holder = t /\ count = 1 THEN Nobody ELSE holder

\* Mutant of TraceUnlock: the mutex is released before mLockedBy is cleared.
UnlockThenClear(t) ==
    \/ /\ step[t] = "run" /\ scopes[t] > 0
       /\ Released(t)
       /\ scopes' = [scopes EXCEPT ![t] = @ - 1]
       /\ traced' = [traced EXCEPT ![t] = FALSE]
       /\ To(t, "unlocking")
       /\ UNCHANGED <<mRecursive, mLockedBy, failed>>
    \/ /\ step[t] = "unlocking"
       /\ mLockedBy' = Nobody /\ To(t, "run")
       /\ UNCHANGED <<mRecursive, holder, count, scopes, failed, traced>>

\* TraceUnlock, when an AutoLock goes out of scope.
TraceUnlock(t) ==
    \/ /\ step[t] = "run" /\ scopes[t] > 0
       /\ mLockedBy' = Nobody
       /\ traced' = [traced EXCEPT ![t] = FALSE]
       /\ To(t, "unlocking")
       /\ UNCHANGED <<mRecursive, holder, count, scopes, failed>>
    \/ /\ step[t] = "unlocking"
       /\ Released(t)
       /\ scopes' = [scopes EXCEPT ![t] = @ - 1]
       /\ To(t, "run")
       /\ UNCHANGED <<mRecursive, mLockedBy, failed, traced>>

\* Condition::Wait releases the mutex and takes it again behind mLockedBy's
\* back.  It is called with the mutex locked once.
ConditionWait(t) ==
    /\ step[t] = "run" /\ holder = t /\ count = 1 /\ scopes[t] = 1
    /\ holder' = Nobody /\ count' = 0
    /\ traced' = [traced EXCEPT ![t] = FALSE]
    /\ To(t, "waiting")
    /\ UNCHANGED <<mRecursive, mLockedBy, scopes, failed>>

WaitReturns(t) ==
    /\ step[t] = "waiting" /\ holder = Nobody
    /\ holder' = t /\ count' = 1
    /\ To(t, "run")
    /\ UNCHANGED <<mRecursive, mLockedBy, scopes, failed, traced>>

MutexNext ==
    \E t \in Locker : TraceLock(t) \/ NoteOwner(t) \/ TraceUnlock(t) \/ ConditionWait(t) \/ WaitReturns(t)

MutexSpec == MutexInit /\ [][MutexNext]_mutexVars
-----------------------------------------------------------------------------
\* isLocked().
IsLocked(t) == mLockedBy = t

InSection(t) == scopes[t] > 0 /\ step[t] # "waiting"

\* As long as no thread has locked a mutex it holds that is not recursive, the
\* scopes of two threads' AutoLocks never overlap; isLocked() is true in a
\* thread from its lock to its next unlock or wait, and true only in a thread
\* that holds the mutex or waits with it.
OwnerIsTraced ==
    failed = {} =>
        /\ \A t, u \in Locker : InSection(t) /\ InSection(u) => t = u
        /\ \A t \in Locker : /\ traced[t] => IsLocked(t)
                             /\ IsLocked(t) => holder = t \/ step[t] = "waiting"
=============================================================================
