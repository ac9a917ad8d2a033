------------------------------ MODULE Threads -------------------------------
(***************************************************************************)
(* Thread and Runnable (src/src/Thread.cpp, src/include/Thread.h): objects *)
(* that start a pthread, join it and are destroyed, by the main thread or  *)
(* by one another; the thread key by which GetCurrent() finds the object   *)
(* of the running thread; and the objects GetCurrent() makes for threads   *)
(* that the class did not start ("system threads").                        *)
(*                                                                         *)
(* An object's k-th Start makes the pthread <<o, k>>, and mThread is the   *)
(* last one.  mThread is not initialised before the first Start, and never *)
(* in the object of a system thread.                                       *)
(***************************************************************************)
EXTENDS Integers, FiniteSets

CONSTANTS
    ThreadObject,       \* Thread objects of the program
    MaxStarts           \* bound: Start calls in one behaviour

ASSUME ThreadsAssumption == MaxStarts \in Nat \ {0}

Pthread == ThreadObject \X (1..MaxStarts)
Main == <<"main", 0>>
System == {Main, <<"foreign", 0>>}
Runner == Pthread \cup System

VARIABLES
    life,       \* per object: "none", "alive" or "gone"
    mJoined,
    starts,     \* per object: Start calls that made a pthread
    os,         \* per pthread: "none", "created", "running", "ended" or "joined"
    made,       \* system threads for which GetCurrent() has made an object
    doing,      \* per thread: the call of Join or of the destructor it is in
    refused     \* history: objects with a Join that was refused or failed

threadVars == <<life, mJoined, starts, os, made, doing, refused>>

NotInCall == [o |-> "none", deleting |-> FALSE]

\* Thread::Init: the main thread has its object.
ThreadInit ==
    /\ life = [o \in ThreadObject |-> "none"]
    /\ mJoined = [o \in ThreadObject |-> FALSE]
    /\ starts = [o \in ThreadObject |-> 0]
    /\ os = [p \in Runner |-> IF p \in System THEN "running" ELSE "none"]
    /\ made = {Main}
    /\ doing = [p \in Runner |-> NotInCall]
    /\ refused = {}
-----------------------------------------------------------------------------
\* A thread that can make a call.  The object of a running thread must be alive
\* for GetCurrent().
Acts(p) == os[p] = "running" /\ doing[p] = NotInCall

mThread(o) == <<o, starts[o]>>

\* Calls on o are made while nobody destroys it.
Usable(o) == life[o] = "alive" /\ \A p \in Runner : doing[p] # [o |-> o, deleting |-> TRUE]

Construct_(p, o) ==
    /\ Acts(p) /\ life[o] = "none"
    /\ life' = [life EXCEPT ![o] = "alive"]
    /\ UNCHANGED <<mJoined, starts, os, made, doing, refused>>

\* Start.  Nothing tests whether the object was started before; when
\* pthread_create fails nothing changes.
Start(p, o) ==
    /\ Acts(p) /\ Usable(o) /\ Cardinality({q \in Pthread : os[q] # "none"}) < MaxStarts
    /\ starts' = [starts EXCEPT ![o] = @ + 1]
    /\ os' = [os EXCEPT ![<<o, starts[o] + 1>>] = "created"]
    /\ UNCHANGED <<life, mJoined, made, doing, refused>>

\* start_thread sets the thread key and calls OnStart.
StartThread(p) ==
    /\ p \in Pthread /\ os[p] = "created"
    /\ os' = [os EXCEPT ![p] = "running"]
    /\ UNCHANGED <<life, mJoined, starts, made, doing, refused>>

\* A system thread calls GetCurrent(), which makes an object for it.
GetCurrent(p) ==
    /\ p \in System /\ os[p] = "running"
    /\ made' = made \cup {p}
    /\ UNCHANGED <<life, mJoined, starts, os, doing, refused>>

\* OnStart returns, whether or not Stop() told it to (mStop and CheckStop() only
\* matter to what it does before), or Exit(), or a cancellation; the key's
\* destructor deletes the object of a system thread and leaves the others alone.
EndThread(p) ==
    /\ Acts(p) /\ p # Main
    /\ os' = [os EXCEPT ![p] = "ended"]
    /\ made' = made \ {p}
    /\ UNCHANGED <<life, mJoined, starts, doing, refused>>

\* Join or the destructor is over.
Leave(p, o, deleting) ==
    /\ doing' = [doing EXCEPT ![p] = NotInCall]
    /\ life' = [life EXCEPT ![o] = IF deleting THEN "gone" ELSE @]

\* Whether *this == *GetCurrent() may hold: on the object's own thread, and
\* wherever an uninitialised mThread is compared.
MayBeSelf(p, o) == p \in System \/ starts[o] = 0 \/ p[1] = o
MustBeSelf(p, o) == p[1] = o

\* Mutant of EnterJoin: mJoined is set before the thread has ended.
EnterJoinMarked(p, o, deleting) ==
    /\ Acts(p) /\ Usable(o) /\ ~mJoined[o]
    /\ deleting => \A q \in Runner : doing[q].o # o
    /\ ~MustBeSelf(p, o)
    /\ doing' = [doing EXCEPT ![p] = [o |-> o, deleting |-> deleting]]
    /\ mJoined' = [mJoined EXCEPT ![o] = TRUE]
    /\ made' = IF p \in System THEN made \cup {p} ELSE made
    /\ UNCHANGED <<life, starts, os, refused>>

\* Join, called by the program or by the destructor: past the test for a join
\* of oneself it sleeps in pthread_join.
EnterJoin(p, o, deleting) ==
    /\ Acts(p) /\ Usable(o) /\ ~mJoined[o]
    /\ deleting => \A q \in Runner : doing[q].o # o
    /\ ~MustBeSelf(p, o)
    /\ doing' = [doing EXCEPT ![p] = [o |-> o, deleting |-> deleting]]
    /\ made' = IF p \in System THEN made \cup {p} ELSE made
    /\ UNCHANGED <<life, mJoined, starts, os, refused>>

\* Joined before: nothing is done.
JoinAgain(p, o, deleting) ==
    /\ Acts(p) /\ Usable(o) /\ mJoined[o]
    /\ deleting => \A q \in Runner : doing[q].o # o
    /\ Leave(p, o, deleting)
    /\ UNCHANGED <<mJoined, starts, os, made, refused>>

\* A join of oneself, or what looks like one, is refused; the destructor goes on.
JoinSelf(p, o, deleting) ==
    /\ Acts(p) /\ Usable(o) /\ ~mJoined[o] /\ MayBeSelf(p, o)
    /\ deleting => \A q \in Runner : doing[q].o # o
    /\ refused' = refused \cup {o}
    /\ made' = IF p \in System THEN made \cup {p} ELSE made
    /\ Leave(p, o, deleting)
    /\ UNCHANGED <<mJoined, starts, os>>

\* pthread_join returns: the thread has ended, or there is no such thread, or
\* somebody else joins it.
JoinReturns(p) ==
    LET o == doing[p].o
        others == \E q \in Runner \ {p} : doing[q].o = o
    IN  /\ doing[p] # NotInCall
        /\ \/ /\ starts[o] > 0 /\ os[mThread(o)] = "ended" /\ ~others
              /\ os' = [os EXCEPT ![mThread(o)] = "joined"]
              /\ mJoined' = [mJoined EXCEPT ![o] = TRUE]
              /\ UNCHANGED refused
           \/ /\ starts[o] > 0 => others \/ os[mThread(o)] = "joined"
              /\ refused' = refused \cup {o}
              /\ UNCHANGED <<os, mJoined>>
        /\ Leave(p, o, doing[p].deleting)
        /\ UNCHANGED <<starts, made>>

ThreadNext ==
    \E p \in Runner :
        \/ StartThread(p) \/ GetCurrent(p) \/ EndThread(p) \/ JoinReturns(p)
        \/ \E o \in ThreadObject :
              \/ Construct_(p, o) \/ Start(p, o)
              \/ \E d \in BOOLEAN : EnterJoin(p, o, d) \/ JoinAgain(p, o, d) \/ JoinSelf(p, o, d)

ThreadSpec == ThreadInit /\ [][ThreadNext]_threadVars
-----------------------------------------------------------------------------
\* A thread that was started and never refused a Join outlives neither its
\* object nor a Join that returned, whoever joins and destroys it and in
\* whatever order; unless it was started twice, for mJoined is not reset by
\* Start and mThread forgets the thread before.
ObjectOutlivesThread ==
    \A o \in ThreadObject :
        o \notin refused /\ starts[o] = 1 /\ (life[o] = "gone" \/ mJoined[o])
            => os[mThread(o)] = "joined"
=============================================================================
