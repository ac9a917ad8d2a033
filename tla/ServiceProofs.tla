---------------------------- MODULE ServiceProofs ---------------------------
(***************************************************************************)
(* Proofs about the services that the event system is built on and those   *)
(* built on it, for any number of threads, objects, listeners, descriptors,*)
(* libraries, files, agents and strings:                                   *)
(*   Mutex            the mutex and what is recorded of its owner;         *)
(*   Threads          objects against the threads they started;            *)
(*   EventListeners   listeners that come and go while they are called;    *)
(*   Socket           descriptors against the objects and the selector;    *)
(*   Components       use counts against clients and loaded libraries;     *)
(*   Logging          the registry of files, and the lines as they print;  *)
(*   EventAgents      parameters, references and results of calls;         *)
(*   JHString         strings that share and copy their buffers.           *)
(***************************************************************************)
EXTENDS Mutex, Threads, EventListeners, Socket, Components, Logging, EventAgents, JHString,
        ListFacts, TLAPS

-----------------------------------------------------------------------------
(* The mutex *)

MutexTypes ==
    /\ mRecursive \in BOOLEAN
    /\ holder \in Locker \cup {Nobody} /\ mLockedBy \in Locker \cup {Nobody}
    /\ count \in Int
    /\ step \in [Locker -> {"run", "locked", "unlocking", "waiting"}]
    /\ scopes \in [Locker -> Int]
    /\ traced \in [Locker -> BOOLEAN]

\* The pthread mutex counts the scopes of its owner, and nobody else is in one
\* except in Condition::Wait.
CountIsScopes ==
    /\ holder = Nobody => count = 0
    /\ holder # Nobody => count = scopes[holder] /\ count > 0 /\ step[holder] # "waiting"
    /\ \A t \in Locker : t # holder => scopes[t] = 0 \/ step[t] = "waiting"

\* Where a thread can be with respect to its scopes.
PlacesFit ==
    \A t \in Locker :
        /\ step[t] = "waiting" => scopes[t] = 1 /\ ~traced[t]
        /\ step[t] \in {"locked", "unlocking"} => scopes[t] > 0
        /\ step[t] = "unlocking" => mLockedBy # t /\ ~traced[t]

\* mLockedBy is right for a thread since its lock, and never names a thread
\* that does not have the mutex.
NoteIsRight ==
    \A t \in Locker :
        /\ traced[t] => mLockedBy = t /\ scopes[t] > 0
        /\ mLockedBy = t => holder = t \/ step[t] = "waiting"

MutexInv == MutexTypes /\ (failed = {} => CountIsScopes /\ PlacesFit /\ NoteIsRight)

LEMMA MutexStarts == MutexInit => MutexInv
  BY MutexAssumption DEF MutexInit, MutexInv, MutexTypes, CountIsScopes, PlacesFit, NoteIsRight

LEMMA MutexTypeStep == MutexTypes /\ [MutexNext]_mutexVars => MutexTypes'
<1> SUFFICES ASSUME MutexTypes, [MutexNext]_mutexVars PROVE MutexTypes'
  OBVIOUS
<1> USE MutexAssumption DEF MutexTypes, To
<1>0. (mRecursive \in BOOLEAN)' /\ (traced \in [Locker -> BOOLEAN])'
  <2>1. mRecursive' = mRecursive
    BY DEF MutexNext, mutexVars, TraceLock, NoteOwner, TraceUnlock, ConditionWait, WaitReturns
  <2>2. traced' = traced \/ \E t \in Locker, b \in BOOLEAN : traced' = [traced EXCEPT ![t] = b]
    BY DEF MutexNext, mutexVars, TraceLock, NoteOwner, TraceUnlock, ConditionWait, WaitReturns
  <2> QED  BY <2>1, <2>2, Zenon
<1>1. ASSUME NEW t \in Locker, TraceLock(t) PROVE MutexTypes'
  BY <1>0, <1>1 DEF TraceLock
<1>2. ASSUME NEW t \in Locker, NoteOwner(t) PROVE MutexTypes'
  BY <1>0, <1>2 DEF NoteOwner
<1>3. ASSUME NEW t \in Locker, TraceUnlock(t) PROVE MutexTypes'
  BY <1>0, <1>3 DEF TraceUnlock, Released
<1>4. ASSUME NEW t \in Locker, ConditionWait(t) \/ WaitReturns(t) PROVE MutexTypes'
  BY <1>0, <1>4 DEF ConditionWait, WaitReturns
<1>5. CASE UNCHANGED mutexVars
  BY <1>5 DEF mutexVars
<1> QED
  BY <1>1, <1>2, <1>3, <1>4, <1>5 DEF MutexNext

\* Each step keeps the rest, as long as no lock was refused.
LEMMA MutexStep == MutexInv /\ [MutexNext]_mutexVars => MutexInv'
<1> DEFINE Sound == CountIsScopes /\ PlacesFit /\ NoteIsRight
<1> SUFFICES ASSUME MutexTypes, MutexTypes', failed' = {}, failed = {} => Sound, [MutexNext]_mutexVars
             PROVE  Sound'
  BY MutexTypeStep DEF MutexInv
<1>0. failed = {} /\ Sound
  <2>1. failed \subseteq failed'
    BY DEF MutexNext, mutexVars, TraceLock, NoteOwner, TraceUnlock, ConditionWait, WaitReturns
  <2> QED  BY <2>1
<1> USE <1>0, MutexAssumption DEF MutexTypes, To, CountIsScopes, PlacesFit, NoteIsRight
<1>1. ASSUME NEW t \in Locker, TraceLock(t) PROVE Sound'
  BY <1>1 DEF TraceLock
<1>2. ASSUME NEW t \in Locker, NoteOwner(t) PROVE Sound'
  BY <1>2 DEF NoteOwner
<1>3. ASSUME NEW t \in Locker, TraceUnlock(t) PROVE Sound'
  BY <1>3 DEF TraceUnlock, Released
<1>4. ASSUME NEW t \in Locker, ConditionWait(t) PROVE Sound'
  BY <1>4 DEF ConditionWait
<1>5. ASSUME NEW t \in Locker, WaitReturns(t) PROVE Sound'
  BY <1>5 DEF WaitReturns
<1>6. CASE UNCHANGED mutexVars
  BY <1>6 DEF mutexVars
<1> QED
  BY <1>1, <1>2, <1>3, <1>4, <1>5, <1>6 DEF MutexNext

\* For any number of threads and any nesting: unless a thread locks a mutex it
\* holds that is not recursive, the AutoLocks of two threads never overlap,
\* isLocked() is true from a thread's lock to its next unlock or wait, and it
\* is never true in a thread that does not have the mutex.
THEOREM OwnerIsAlwaysTraced == MutexSpec => []OwnerIsTraced
<1>1. MutexInv => OwnerIsTraced
  BY MutexAssumption
  DEF MutexInv, MutexTypes, CountIsScopes, PlacesFit, NoteIsRight, OwnerIsTraced, InSection, IsLocked
<1> QED
  BY <1>1, MutexStarts, MutexStep, PTL DEF MutexSpec

-----------------------------------------------------------------------------
(* Thread objects *)

CallOf == [o : ThreadObject, deleting : BOOLEAN]

ThreadTypes ==
    /\ life \in [ThreadObject -> {"none", "alive", "gone"}]
    /\ mJoined \in [ThreadObject -> BOOLEAN]
    /\ starts \in [ThreadObject -> Nat]
    /\ os \in [Runner -> {"none", "created", "running", "ended", "joined"}]
    /\ doing \in [Runner -> {NotInCall} \cup CallOf]

\* An object that was joined, or is gone without a refused Join, was started.
JoinedWasStarted ==
    \A o \in ThreadObject :
        /\ mJoined[o] => starts[o] > 0
        /\ life[o] = "gone" /\ o \notin refused => starts[o] > 0

ThreadInv == ThreadTypes /\ JoinedWasStarted /\ ObjectOutlivesThread

\* The first pthread of an object, and the threads the class did not start.
LEMMA FirstPthread ==
    /\ \A o \in ThreadObject : <<o, 1>> \in Runner /\ <<o, 1>> \notin System
    /\ System \subseteq Runner
<1>1. 1 \in 1..MaxStarts /\ 0 \notin 1..MaxStarts
  BY ThreadsAssumption
<1> QED
  BY <1>1 DEF Runner, Pthread, System, Main

LEMMA ThreadStarts == ThreadInit => ThreadInv
  BY FirstPthread DEF ThreadInit, ThreadInv, ThreadTypes, JoinedWasStarted, ObjectOutlivesThread

LEMMA ThreadTypeStep == ThreadTypes /\ [ThreadNext]_threadVars => ThreadTypes'
<1> SUFFICES ASSUME ThreadTypes, [ThreadNext]_threadVars PROVE ThreadTypes'
  OBVIOUS
<1> USE DEF ThreadTypes
<1>1. ASSUME NEW p \in Runner, StartThread(p) \/ GetCurrent(p) \/ EndThread(p) PROVE ThreadTypes'
  BY <1>1 DEF StartThread, GetCurrent, EndThread
<1>2. ASSUME NEW p \in Runner, NEW o \in ThreadObject, Construct_(p, o) \/ Start(p, o) PROVE ThreadTypes'
  BY <1>2 DEF Construct_, Start
<1>3. ASSUME NEW p \in Runner, NEW o \in ThreadObject, NEW d \in BOOLEAN,
             EnterJoin(p, o, d) \/ JoinAgain(p, o, d) \/ JoinSelf(p, o, d)
      PROVE  ThreadTypes'
  BY <1>3 DEF EnterJoin, JoinAgain, JoinSelf, Leave, CallOf
<1>4. ASSUME NEW p \in Runner, JoinReturns(p) PROVE ThreadTypes'
  BY <1>4 DEF JoinReturns, Leave
<1>5. CASE UNCHANGED threadVars
  BY <1>5 DEF threadVars
<1> QED
  BY <1>1, <1>2, <1>3, <1>4, <1>5 DEF ThreadNext

LEMMA ThreadStep == ThreadInv /\ [ThreadNext]_threadVars => ThreadInv'
<1> SUFFICES ASSUME ThreadTypes, ThreadTypes', JoinedWasStarted, ObjectOutlivesThread, [ThreadNext]_threadVars
             PROVE  JoinedWasStarted' /\ ObjectOutlivesThread'
  BY ThreadTypeStep DEF ThreadInv
<1> USE FirstPthread DEF ThreadTypes, JoinedWasStarted, ObjectOutlivesThread, mThread
<1>1. ASSUME NEW p \in Runner, StartThread(p) \/ GetCurrent(p) \/ EndThread(p)
      PROVE  JoinedWasStarted' /\ ObjectOutlivesThread'
  BY <1>1 DEF StartThread, GetCurrent, EndThread, Acts
<1>2. ASSUME NEW p \in Runner, NEW o \in ThreadObject, Construct_(p, o) \/ Start(p, o)
      PROVE  JoinedWasStarted' /\ ObjectOutlivesThread'
  BY <1>2 DEF Construct_, Start, Usable
<1>3. ASSUME NEW p \in Runner, NEW o \in ThreadObject, NEW d \in BOOLEAN,
             EnterJoin(p, o, d) \/ JoinAgain(p, o, d) \/ JoinSelf(p, o, d)
      PROVE  JoinedWasStarted' /\ ObjectOutlivesThread'
  BY <1>3 DEF EnterJoin, JoinAgain, JoinSelf, Leave
<1>4. ASSUME NEW p \in Runner, JoinReturns(p)
      PROVE  JoinedWasStarted' /\ ObjectOutlivesThread'
  <2>1. doing[p] \in CallOf /\ doing[p].o \in ThreadObject
    BY <1>4 DEF JoinReturns, CallOf
  <2> QED  BY <1>4, <2>1 DEF JoinReturns, Leave
<1>5. CASE UNCHANGED threadVars
  BY <1>5 DEF threadVars
<1> QED
  BY <1>1, <1>2, <1>3, <1>4, <1>5 DEF ThreadNext

\* For any number of objects and threads that construct, start, join and
\* destroy them: an object started once with no Join refused is gone, or has
\* mJoined set, only after pthread_join has collected its thread.
THEOREM ObjectAlwaysOutlives == ThreadSpec => []ObjectOutlivesThread
<1>1. ThreadInv => ObjectOutlivesThread
  BY DEF ThreadInv
<1> QED
  BY <1>1, ThreadStarts, ThreadStep, PTL DEF ThreadSpec
-----------------------------------------------------------------------------
(* Listeners of a dispatcher *)

EventListenerNode == [listener : Listener \cup {NoListener}, id : RegId, nr : Nat]

ListenTypes ==
    /\ mEventList \in Seq(EventListenerNode)
    /\ owner \in {NoListener, Dispatcher}
    /\ pos \in Nat \ {0} /\ inCall \in BOOLEAN
    /\ added \in Nat /\ called \in Seq(Nat) /\ due \subseteq Nat

\* The walk is beyond a position of the list, or calls the listener there.
Past(i) == i < pos \/ (inCall /\ i = pos)

\* Nodes stand in the order of their numbers, and no number that was noted is
\* still to be given out.
NumbersGrow ==
    /\ \A i, j \in 1..Len(mEventList) : i < j => mEventList[i].nr < mEventList[j].nr
    /\ \A i \in 1..Len(mEventList) : mEventList[i].nr <= added
    /\ \A k \in 1..Len(called) : called[k] <= added
    /\ \A d \in due : d <= added
    /\ \A x \in removed : x[1] \in Nat /\ x[1] <= added

\* What was called is behind the walk, what is due and behind it was called.
WalkIsComplete ==
    /\ \A k \in 1..Len(called), i \in 1..Len(mEventList) : Past(i) \/ called[k] < mEventList[i].nr
    /\ \A k, m \in 1..Len(called) : k < m => called[k] < called[m]
    /\ \A i \in 1..Len(mEventList) : mEventList[i].nr \in due => Matches(mEventList[i], ev)
    /\ \A i \in 1..Len(mEventList) :
          Past(i) /\ Live(mEventList[i]) /\ mEventList[i].nr \in due
             => \E k \in 1..Len(called) : called[k] = mEventList[i].nr

\* The call under way is that of the node at the iterator.
CallIsCurrent ==
    /\ inCall => /\ owner = Dispatcher /\ pos <= Len(mEventList) /\ Len(called) > 0
                 /\ called[Len(called)] = mEventList[pos].nr
    /\ \A x \in removed, i \in 1..Len(mEventList) : mEventList[i].nr = x[1] => ~ Live(mEventList[i])
    /\ inCall => \A t \in Caller : <<called[Len(called)], t>> \notin removed

ListenInv ==
    /\ ListenTypes /\ NumbersGrow /\ CallIsCurrent
    /\ owner = Dispatcher => WalkIsComplete

\* The least element of a set of numbers is in it.
LEMMA LeastIsMember ==
    ASSUME NEW T \in SUBSET Nat, T # {}
    PROVE  Min(T) \in T
  BY LeastNumber DEF Min

\* The node that removeEventListener clears.
LEMMA ClearedNode ==
    ASSUME ListenTypes, NEW t, NEW l, NEW id, RemoveEventListener(t, l, id)
    PROVE  \E h \in 1..Len(mEventList) :
              /\ mEventList' = [mEventList EXCEPT ![h].listener = NoListener]
              /\ removed' = removed \cup {<<mEventList[h].nr, t>>}
<1> DEFINE I == {i \in 1..Len(mEventList) : mEventList[i].listener = l /\ mEventList[i].id = id}
<1>1. PICK h : /\ h = IF I # {} THEN Min(I) ELSE 0
               /\ h > 0
               /\ mEventList' = [mEventList EXCEPT ![h].listener = NoListener]
               /\ removed' = removed \cup {<<mEventList[h].nr, t>>}
  BY DEF RemoveEventListener, SelectInSeq
<1>2. I \in SUBSET Nat
  OBVIOUS
<1>3. I # {}
  BY <1>1
<1>4. h \in I
  <2> HIDE DEF I
  <2> QED  BY <1>1, <1>2, <1>3, LeastIsMember
<1> QED
  BY <1>1, <1>4

\* The list after it.
LEMMA ClearedList ==
    ASSUME ListenTypes, NEW h \in 1..Len(mEventList),
           mEventList' = [mEventList EXCEPT ![h].listener = NoListener]
    PROVE  /\ mEventList' \in Seq(EventListenerNode) /\ Len(mEventList') = Len(mEventList)
           /\ \A i \in 1..Len(mEventList) :
                /\ mEventList'[i].nr = mEventList[i].nr /\ mEventList'[i].id = mEventList[i].id
                /\ mEventList'[i].listener = IF i = h THEN NoListener ELSE mEventList[i].listener
<1>0. mEventList \in Seq(EventListenerNode)
  BY DEF ListenTypes
<1>1. \A i \in 1..Len(mEventList) : mEventList[i] \in EventListenerNode
  BY <1>0
<1>2. [mEventList[h] EXCEPT !.listener = NoListener] \in EventListenerNode
  BY <1>1 DEF EventListenerNode
<1>3. mEventList' = [mEventList EXCEPT ![h] = [mEventList[h] EXCEPT !.listener = NoListener]]
  OBVIOUS
<1>4. mEventList' \in Seq(EventListenerNode) /\ Len(mEventList') = Len(mEventList)
  BY <1>0, <1>2, <1>3
<1>5. \A i \in 1..Len(mEventList) : mEventList'[i] = IF i = h THEN [mEventList[h] EXCEPT !.listener = NoListener]
                                                     ELSE mEventList[i]
  BY <1>0, <1>3
<1>6. mEventList[h].nr = [mEventList[h] EXCEPT !.listener = NoListener].nr
      /\ mEventList[h].id = [mEventList[h] EXCEPT !.listener = NoListener].id
      /\ [mEventList[h] EXCEPT !.listener = NoListener].listener = NoListener
  BY <1>1 DEF EventListenerNode
<1> QED
  BY <1>4, <1>5, <1>6

\* The list without one of its nodes.
LEMMA ListWithout ==
    ASSUME NEW S, NEW q \in Seq(S), NEW p \in 1..Len(q)
    PROVE  /\ RemoveAt(q, p) \in Seq(S) /\ Len(RemoveAt(q, p)) = Len(q) - 1
           /\ \A i \in 1..(Len(q) - 1) : RemoveAt(q, p)[i] = IF i < p THEN q[i] ELSE q[i + 1]
<1> DEFINE front == SubSeq(q, 1, p - 1)  back == SubSeq(q, p + 1, Len(q))
<1>0. Len(q) \in Nat /\ p \in Nat
  OBVIOUS
<1>1. front \in Seq(S) /\ Len(front) = p - 1 /\ \A i \in 1..(p - 1) : front[i] = q[i]
  BY <1>0
<1>2. back \in Seq(S) /\ Len(back) = Len(q) - p /\ \A i \in 1..(Len(q) - p) : back[i] = q[i + p]
  BY <1>0
<1>3. RemoveAt(q, p) = front \o back
  BY DEF RemoveAt
<1> HIDE DEF front, back
<1>3a. /\ front \o back \in Seq(S) /\ Len(front \o back) = Len(front) + Len(back)
       /\ \A i \in 1..(Len(front) + Len(back)) :
            (front \o back)[i] = IF i <= Len(front) THEN front[i] ELSE back[i - Len(front)]
  BY <1>1, <1>2, ConcatProperties
<1>3b. Len(front) + Len(back) = Len(q) - 1
  BY <1>0, <1>1, <1>2
<1>4. /\ front \o back \in Seq(S) /\ Len(front \o back) = Len(q) - 1
      /\ \A i \in 1..(Len(q) - 1) : (front \o back)[i] = IF i <= p - 1 THEN front[i] ELSE back[i - (p - 1)]
  BY <1>1, <1>3a, <1>3b
<1>5. ASSUME NEW i \in 1..(Len(q) - 1) PROVE (front \o back)[i] = IF i < p THEN q[i] ELSE q[i + 1]
  <2>1. CASE i < p
    BY <1>0, <1>1, <1>4, <2>1
  <2>2. CASE ~ (i < p)
    <3>1. i - (p - 1) \in 1..(Len(q) - p) /\ (i - (p - 1)) + p = i + 1
      BY <1>0, <2>2
    <3>2. (front \o back)[i] = back[i - (p - 1)]
      BY <1>0, <1>4, <2>2
    <3> QED  BY <1>2, <2>2, <3>1, <3>2
  <2> QED  BY <2>1, <2>2
<1> QED
  BY <1>3, <1>4, <1>5

LEMMA ListenStarts == ListenInit => ListenInv
<1> SUFFICES ASSUME ListenInit PROVE ListenInv
  OBVIOUS
<1>1. /\ mEventList = <<>> /\ owner = NoListener /\ pos = 1 /\ inCall = FALSE /\ added = 0
      /\ due = {} /\ called = <<>> /\ removed = {}
  BY DEF ListenInit
<1>2. ListenTypes
  <2>1. <<>> \in Seq(EventListenerNode) /\ <<>> \in Seq(Nat)
    BY EmptySeq
  <2>2. inCall \in BOOLEAN
    BY <1>1
  <2>3. owner \in {NoListener, Dispatcher} /\ pos \in Nat \ {0} /\ added \in Nat /\ due \subseteq Nat
    BY <1>1
  <2>4. mEventList \in Seq(EventListenerNode) /\ called \in Seq(Nat)
    BY <1>1, <2>1
  <2> QED  BY <2>2, <2>3, <2>4 DEF ListenTypes
<1>3. NumbersGrow
  BY <1>1 DEF NumbersGrow
<1>4. CallIsCurrent
  BY <1>1 DEF CallIsCurrent
<1>5. owner # Dispatcher
  BY <1>1, ListenersAssumption
<1> QED
  BY <1>2, <1>3, <1>4, <1>5 DEF ListenInv

\* What the numbers in the list are.
LEMMA NumbersAreNumbers ==
    ASSUME NEW q \in Seq(EventListenerNode)
    PROVE  Len(q) \in Nat /\ \A i \in 1..Len(q) : q[i].nr \in Nat
<1>1. \A n \in EventListenerNode : n.nr \in Nat
  BY DEF EventListenerNode
<1>2. \A i \in 1..Len(q) : q[i] \in EventListenerNode
  OBVIOUS
<1> QED
  BY <1>1, <1>2

LEMMA AddStep ==
    ASSUME ListenInv, NEW t \in AnyThread, NEW l \in Listener, NEW id \in RegId, AddEventListener(t, l, id)
    PROVE  ListenInv'
<1>0. ListenTypes /\ mEventList \in Seq(EventListenerNode) /\ added \in Nat /\ pos \in Nat
      /\ called \in Seq(Nat) /\ due \subseteq Nat /\ Len(called) \in Nat
      /\ \A k \in 1..Len(called) : called[k] \in Nat
  BY DEF ListenInv, ListenTypes
<1>1. /\ added' = added + 1 /\ UNCHANGED <<owner, ev, pos, inCall, due, called, removed>>
      /\ owner = NoListener \/ inCall
  BY DEF AddEventListener, Enter
<1>2. PICK n : n = [listener |-> l, id |-> id, nr |-> added + 1] /\ mEventList' = Append(mEventList, n)
  BY DEF AddEventListener
<1>3. n \in EventListenerNode /\ n.nr = added + 1 /\ n.listener = l
  BY <1>0, <1>2 DEF EventListenerNode
<1>4. PICK len \in Nat : len = Len(mEventList) /\ \A i \in 1..len : mEventList[i].nr \in Nat
  BY <1>0, NumbersAreNumbers
<1>5. /\ mEventList' \in Seq(EventListenerNode) /\ Len(mEventList') = len + 1
      /\ \A i \in 1..len : mEventList'[i] = mEventList[i]
      /\ mEventList'[len + 1] = n
  BY <1>0, <1>2, <1>3, <1>4
<1>6. \A i \in 1..(len + 1) : i \in 1..len \/ i = len + 1
  OBVIOUS
<1>7. ListenTypes'
  BY <1>0, <1>1, <1>5 DEF ListenTypes
<1>8. NumbersGrow'
  <2>1. NumbersGrow
    BY DEF ListenInv
  <2>1a. /\ \A i \in 1..len : mEventList'[i].nr \in Nat /\ mEventList'[i].nr <= added
         /\ \A i, j \in 1..len : i < j => mEventList'[i].nr < mEventList'[j].nr
         /\ mEventList'[len + 1].nr = added + 1
    BY <1>3, <1>4, <1>5, <2>1 DEF NumbersGrow
  <2>2. \A i, j \in 1..(len + 1) : i < j => mEventList'[i].nr < mEventList'[j].nr
    <3> SUFFICES ASSUME NEW i \in 1..(len + 1), NEW j \in 1..(len + 1), i < j
                 PROVE  mEventList'[i].nr < mEventList'[j].nr
      OBVIOUS
    <3>1. i \in 1..len
      OBVIOUS
    <3>2. CASE j \in 1..len
      BY <2>1a, <3>1, <3>2
    <3>3. CASE j = len + 1
      BY <1>0, <2>1a, <3>1, <3>3
    <3> QED  BY <1>6, <3>2, <3>3
  <2>3. \A i \in 1..(len + 1) : mEventList'[i].nr <= added + 1
    BY <1>0, <1>6, <2>1a
  <2>4. \A k \in 1..Len(called) : called[k] <= added + 1
    BY <1>0, <2>1 DEF NumbersGrow
  <2>5. \A d \in due : d <= added + 1
    BY <1>0, <2>1 DEF NumbersGrow
  <2>6. \A x \in removed : x[1] \in Nat /\ x[1] <= added + 1
    BY <1>0, <2>1 DEF NumbersGrow
  <2> QED  BY <1>1, <1>5, <2>2, <2>3, <2>4, <2>5, <2>6 DEF NumbersGrow
<1>9. CallIsCurrent'
  <2>1. CallIsCurrent /\ \A x \in removed : x[1] # added + 1
    BY <1>0 DEF ListenInv, NumbersGrow
  <2>2. inCall => pos \in 1..len /\ mEventList'[pos] = mEventList[pos]
    BY <1>4, <1>5, <2>1 DEF ListenInv, CallIsCurrent, ListenTypes
  <2>3. \A x \in removed, i \in 1..(len + 1) : mEventList'[i].nr = x[1] => ~ Live(mEventList'[i])
    BY <1>3, <1>4, <1>5, <1>6, <2>1 DEF CallIsCurrent
  <2> QED  BY <1>1, <1>4, <1>5, <2>1, <2>2, <2>3 DEF CallIsCurrent
<1>10. ASSUME owner = Dispatcher PROVE WalkIsComplete'
  <2>1. WalkIsComplete /\ NumbersGrow /\ inCall /\ pos <= len
    BY <1>1, <1>4, <1>10, ListenersAssumption DEF ListenInv, CallIsCurrent
  <2>2. \A i : Past(i)' <=> Past(i)
    BY <1>1 DEF Past
  <2>3. ~ Past(len + 1)
    BY <1>0, <2>1 DEF Past
  <2>4. \A k \in 1..Len(called) : called[k] < added + 1
    BY <1>0, <2>1 DEF NumbersGrow
  <2>5. added + 1 \notin due
    BY <1>0, <2>1 DEF NumbersGrow
  <2>6. \A k \in 1..Len(called), i \in 1..(len + 1) : Past(i) \/ called[k] < mEventList'[i].nr
    BY <1>3, <1>4, <1>5, <1>6, <2>1, <2>4 DEF WalkIsComplete
  <2>7. \A i \in 1..(len + 1) : mEventList'[i].nr \in due => Matches(mEventList'[i], ev)
    BY <1>3, <1>4, <1>5, <1>6, <2>1, <2>5 DEF WalkIsComplete
  <2>8. \A i \in 1..(len + 1) :
          Past(i) /\ Live(mEventList'[i]) /\ mEventList'[i].nr \in due
             => \E k \in 1..Len(called) : called[k] = mEventList'[i].nr
    BY <1>4, <1>5, <1>6, <2>1, <2>3 DEF WalkIsComplete
  <2> QED  BY <1>1, <1>5, <2>1, <2>2, <2>6, <2>7, <2>8 DEF WalkIsComplete
<1> QED
  BY <1>1, <1>7, <1>8, <1>9, <1>10 DEF ListenInv

LEMMA RemoveStep ==
    ASSUME ListenInv, NEW t \in AnyThread, NEW l, NEW id, RemoveEventListener(t, l, id)
    PROVE  ListenInv'
<1>0. ListenTypes /\ mEventList \in Seq(EventListenerNode) /\ added \in Nat /\ pos \in Nat
  BY DEF ListenInv, ListenTypes
<1>1. UNCHANGED <<owner, ev, pos, inCall, added, due, called>> /\ (owner = NoListener \/ (owner = t /\ inCall))
  BY DEF RemoveEventListener, Enter
<1>2. PICK h \in 1..Len(mEventList) :
         /\ mEventList' = [mEventList EXCEPT ![h].listener = NoListener]
         /\ removed' = removed \cup {<<mEventList[h].nr, t>>}
  BY <1>0, ClearedNode
<1>3. PICK len \in Nat : len = Len(mEventList) /\ \A i \in 1..len : mEventList[i].nr \in Nat
  BY <1>0, NumbersAreNumbers
<1>4. /\ mEventList' \in Seq(EventListenerNode) /\ Len(mEventList') = len
      /\ \A i \in 1..len :
           /\ mEventList'[i].nr = mEventList[i].nr /\ mEventList'[i].id = mEventList[i].id
           /\ mEventList'[i].listener = IF i = h THEN NoListener ELSE mEventList[i].listener
  BY <1>0, <1>2, <1>3, ClearedList
<1>5. ListenTypes'
  BY <1>0, <1>1, <1>4 DEF ListenTypes
<1>6. NumbersGrow'
  <2>1. NumbersGrow
    BY DEF ListenInv
  <2>2. \A x \in removed' : x[1] \in Nat /\ x[1] <= added
    BY <1>2, <1>3, <2>1 DEF NumbersGrow
  <2>3. /\ \A i, j \in 1..len : i < j => mEventList'[i].nr < mEventList'[j].nr
        /\ \A i \in 1..len : mEventList'[i].nr <= added
    BY <1>3, <1>4, <2>1 DEF NumbersGrow
  <2> QED  BY <1>1, <1>4, <2>1, <2>2, <2>3 DEF NumbersGrow
<1>7. CallIsCurrent'
  <2>1. CallIsCurrent /\ NumbersGrow
    BY DEF ListenInv
  <2>2. \A x \in removed', i \in 1..len : mEventList'[i].nr = x[1] => ~ Live(mEventList'[i])
    <3> SUFFICES ASSUME NEW x \in removed', NEW i \in 1..len, mEventList'[i].nr = x[1]
                 PROVE  mEventList'[i].listener = NoListener
      BY DEF Live
    <3>1. CASE x \in removed
      BY <1>3, <1>4, <2>1, <3>1 DEF CallIsCurrent, Live
    <3>2. CASE x = <<mEventList[h].nr, t>>
      <4>1. mEventList[i].nr = mEventList[h].nr
        BY <1>4, <3>2
      <4>2. i = h
        BY <1>3, <2>1, <4>1 DEF NumbersGrow
      <4> QED  BY <1>4, <4>2
    <3> QED  BY <1>2, <3>1, <3>2
  <2>3. inCall => pos \in 1..len
    BY <1>3, <2>1 DEF CallIsCurrent, ListenInv, ListenTypes
  <2>4. inCall => \A c \in Caller : <<called[Len(called)], c>> \notin removed'
    <3> SUFFICES ASSUME inCall, NEW c \in Caller, <<called[Len(called)], c>> \in removed' PROVE FALSE
      OBVIOUS
    <3>1. owner = Dispatcher
      BY <2>1 DEF CallIsCurrent
    <3>2. t = Dispatcher /\ c # t
      BY <1>1, <3>1, ListenersAssumption
    <3>3. <<called[Len(called)], c>> \in removed
      BY <1>2, <3>2
    <3> QED  BY <2>1, <3>3 DEF CallIsCurrent
  <2> QED  BY <1>1, <1>3, <1>4, <2>1, <2>2, <2>3, <2>4 DEF CallIsCurrent
<1>8. ASSUME owner = Dispatcher PROVE WalkIsComplete'
  <2>1. WalkIsComplete
    BY <1>8 DEF ListenInv
  <2>2. \A i : Past(i)' <=> Past(i)
    BY <1>1 DEF Past
  <2>3. \A k \in 1..Len(called), i \in 1..len : Past(i) \/ called[k] < mEventList'[i].nr
    BY <1>3, <1>4, <2>1 DEF WalkIsComplete
  <2>4. \A i \in 1..len : mEventList'[i].nr \in due => Matches(mEventList'[i], ev)
    BY <1>3, <1>4, <2>1 DEF WalkIsComplete, Matches
  <2>5. \A i \in 1..len :
          Past(i) /\ Live(mEventList'[i]) /\ mEventList'[i].nr \in due
             => \E k \in 1..Len(called) : called[k] = mEventList'[i].nr
    BY <1>3, <1>4, <2>1 DEF WalkIsComplete, Live
  <2> QED  BY <1>1, <1>4, <2>1, <2>2, <2>3, <2>4, <2>5 DEF WalkIsComplete
<1> QED
  BY <1>1, <1>5, <1>6, <1>7, <1>8 DEF ListenInv

\* Steps that leave the list alone.
LEMMA DispatchStep ==
    ASSUME ListenInv, NEW id \in EventId, DispatchEvent(id)
    PROVE  ListenInv'
<1>0. ListenTypes /\ mEventList \in Seq(EventListenerNode) /\ NumbersGrow /\ CallIsCurrent
  BY DEF ListenInv, ListenTypes
<1>1. /\ owner = NoListener /\ owner' = Dispatcher /\ ev' = id /\ pos' = 1 /\ called' = <<>>
      /\ UNCHANGED <<mEventList, inCall, added, removed>>
      /\ due' = {n.nr : n \in {m \in ToSet(mEventList) : Live(m) /\ Matches(m, id)}}
  BY DEF DispatchEvent
<1>2. PICK len \in Nat : len = Len(mEventList) /\ \A i \in 1..len : mEventList[i].nr \in Nat
  BY <1>0, NumbersAreNumbers
<1>3. ~ inCall
  BY <1>0, <1>1, ListenersAssumption DEF CallIsCurrent
<1>4. \A d \in due' : \E i \in 1..len : d = mEventList[i].nr /\ Matches(mEventList[i], id)
  BY <1>1, <1>2 DEF ToSet
<1>5. ListenTypes'
  <2>1. due' \subseteq Nat
    BY <1>2, <1>4
  <2>2. <<>> \in Seq(Nat)
    BY EmptySeq
  <2> QED  BY <1>0, <1>1, <2>1, <2>2 DEF ListenTypes
<1>6. NumbersGrow'
  <2>1. \A d \in due' : d <= added
    BY <1>0, <1>2, <1>4 DEF NumbersGrow
  <2>2. Len(called') = 0
    BY <1>1
  <2> QED  BY <1>0, <1>1, <2>1, <2>2 DEF NumbersGrow
<1>7. CallIsCurrent'
  BY <1>0, <1>1, <1>3 DEF CallIsCurrent
<1>8. WalkIsComplete'
  <2>1. \A i \in 1..len : mEventList[i].nr \in due' => Matches(mEventList[i], id)
    <3> SUFFICES ASSUME NEW i \in 1..len, mEventList[i].nr \in due' PROVE Matches(mEventList[i], id)
      OBVIOUS
    <3>1. PICK j \in 1..len : mEventList[i].nr = mEventList[j].nr /\ Matches(mEventList[j], id)
      BY <1>4
    <3>2. i = j
      BY <1>0, <1>2, <3>1 DEF NumbersGrow
    <3> QED  BY <3>1, <3>2
  <2>2. \A i \in 1..len : ~ Past(i)'
    BY <1>1, <1>3 DEF Past
  <2> QED  BY <1>1, <1>2, <2>1, <2>2 DEF WalkIsComplete
<1> QED
  BY <1>5, <1>6, <1>7, <1>8 DEF ListenInv

LEMMA PruneStep ==
    ASSUME ListenInv, Prune
    PROVE  ListenInv'
<1>0. /\ ListenTypes /\ NumbersGrow /\ CallIsCurrent
      /\ mEventList \in Seq(EventListenerNode) /\ pos \in Nat \ {0}
  BY DEF ListenInv, ListenTypes
<1>1. /\ owner = Dispatcher /\ ~ inCall /\ pos \in DOMAIN mEventList
      /\ mEventList' = RemoveAt(mEventList, pos)
      /\ UNCHANGED <<owner, ev, pos, inCall, added, due, called, removed>>
  BY DEF Prune
<1>2. PICK len \in Nat : len = Len(mEventList) /\ \A i \in 1..len : mEventList[i].nr \in Nat
  BY <1>0, NumbersAreNumbers
<1>3. pos \in 1..len /\ len >= 1
  BY <1>0, <1>1, <1>2
<1>4. /\ mEventList' \in Seq(EventListenerNode) /\ Len(mEventList') = len - 1
      /\ \A i \in 1..(len - 1) : mEventList'[i] = IF i < pos THEN mEventList[i] ELSE mEventList[i + 1]
  BY <1>0, <1>1, <1>2, <1>3, ListWithout
<1>5. \A i \in 1..(len - 1) : i \in 1..len /\ i + 1 \in 1..len
  BY <1>3
<1>6. ListenTypes'
  BY <1>0, <1>1, <1>4 DEF ListenTypes
<1>7. NumbersGrow'
  <2>1. \A i, j \in 1..(len - 1) : i < j => mEventList'[i].nr < mEventList'[j].nr
    <3> SUFFICES ASSUME NEW i \in 1..(len - 1), NEW j \in 1..(len - 1), i < j
                 PROVE  mEventList'[i].nr < mEventList'[j].nr
      OBVIOUS
    <3>1. PICK a \in 1..len : mEventList'[i] = mEventList[a] /\ a = IF i < pos THEN i ELSE i + 1
      BY <1>4, <1>5
    <3>2. PICK b \in 1..len : mEventList'[j] = mEventList[b] /\ b = IF j < pos THEN j ELSE j + 1
      BY <1>4, <1>5
    <3>3. a < b
      BY <1>0, <3>1, <3>2
    <3> QED  BY <1>0, <1>2, <3>1, <3>2, <3>3 DEF NumbersGrow
  <2>2. \A i \in 1..(len - 1) : mEventList'[i].nr <= added
    BY <1>0, <1>2, <1>4, <1>5 DEF NumbersGrow
  <2> QED  BY <1>0, <1>1, <1>4, <2>1, <2>2 DEF NumbersGrow
<1>8. CallIsCurrent'
  <2>1. \A x \in removed, i \in 1..(len - 1) : mEventList'[i].nr = x[1] => ~ Live(mEventList'[i])
    BY <1>0, <1>2, <1>4, <1>5 DEF CallIsCurrent
  <2> QED  BY <1>0, <1>1, <1>4, <2>1 DEF CallIsCurrent
<1>9. WalkIsComplete'
  <2>1. WalkIsComplete
    BY <1>1 DEF ListenInv
  <2>2. ASSUME NEW i \in 1..(len - 1)
        PROVE  \E a \in 1..len : mEventList'[i] = mEventList[a] /\ (Past(i)' <=> Past(a))
    <3>1. CASE i < pos
      BY <1>1, <1>4, <1>5, <3>1 DEF Past
    <3>2. CASE ~ (i < pos)
      <4>1. ~ Past(i)' /\ ~ Past(i + 1)
        BY <1>0, <1>1, <3>2 DEF Past
      <4> QED  BY <1>4, <1>5, <3>2, <4>1
    <3> QED  BY <3>1, <3>2
  <2>3. \A k \in 1..Len(called), i \in 1..(len - 1) : Past(i)' \/ called[k] < mEventList'[i].nr
    BY <1>2, <2>1, <2>2 DEF WalkIsComplete
  <2>4. \A i \in 1..(len - 1) : mEventList'[i].nr \in due => Matches(mEventList'[i], ev)
    BY <1>2, <2>1, <2>2 DEF WalkIsComplete
  <2>5. \A i \in 1..(len - 1) :
          Past(i)' /\ Live(mEventList'[i]) /\ mEventList'[i].nr \in due
             => \E k \in 1..Len(called) : called[k] = mEventList'[i].nr
    BY <1>2, <2>1, <2>2 DEF WalkIsComplete
  <2> QED  BY <1>1, <1>4, <2>1, <2>3, <2>4, <2>5 DEF WalkIsComplete
<1> QED
  BY <1>1, <1>6, <1>7, <1>8, <1>9 DEF ListenInv

LEMMA CallStep ==
    ASSUME ListenInv, Call
    PROVE  ListenInv'
<1>0. /\ ListenTypes /\ NumbersGrow /\ CallIsCurrent
      /\ mEventList \in Seq(EventListenerNode) /\ pos \in Nat \ {0} /\ called \in Seq(Nat) /\ added \in Nat
  BY DEF ListenInv, ListenTypes
<1>1. /\ owner = Dispatcher /\ ~ inCall /\ pos \in DOMAIN mEventList /\ Live(mEventList[pos])
      /\ inCall' = TRUE /\ called' = Append(called, mEventList[pos].nr)
      /\ UNCHANGED <<mEventList, owner, ev, pos, added, due, removed>>
  BY DEF Call
<1>2. PICK len \in Nat : len = Len(mEventList) /\ \A i \in 1..len : mEventList[i].nr \in Nat
  BY <1>0, NumbersAreNumbers
<1>3. pos \in 1..len
  BY <1>0, <1>1, <1>2
<1>4. PICK c \in Nat : c = Len(called) /\ \A k \in 1..c : called[k] \in Nat
  BY <1>0
<1>5. /\ called' \in Seq(Nat) /\ Len(called') = c + 1
      /\ \A k \in 1..c : called'[k] = called[k]
      /\ called'[c + 1] = mEventList[pos].nr
  BY <1>0, <1>1, <1>2, <1>3, <1>4
<1>6. \A k \in 1..(c + 1) : k \in 1..c \/ k = c + 1
  OBVIOUS
<1>7. WalkIsComplete
  BY <1>1 DEF ListenInv
<1>8. ListenTypes'
  <2>1. inCall' \in BOOLEAN
    BY <1>1
  <2>2. /\ mEventList' \in Seq(EventListenerNode) /\ owner' \in {NoListener, Dispatcher}
        /\ pos' \in Nat \ {0} /\ added' \in Nat /\ called' \in Seq(Nat) /\ due' \subseteq Nat
    BY <1>0, <1>1, <1>5 DEF ListenTypes
  <2> QED  BY <2>1, <2>2 DEF ListenTypes
<1>9. NumbersGrow'
  <2>1. \A k \in 1..(c + 1) : called'[k] <= added
    BY <1>0, <1>2, <1>3, <1>4, <1>5, <1>6 DEF NumbersGrow
  <2> QED  BY <1>0, <1>1, <1>5, <2>1 DEF NumbersGrow
<1>10. CallIsCurrent'
  <2>1. \A t \in Caller : <<mEventList[pos].nr, t>> \notin removed
    BY <1>0, <1>1, <1>2, <1>3 DEF CallIsCurrent
  <2>2. pos' <= Len(mEventList') /\ Len(called') > 0 /\ called'[Len(called')] = mEventList'[pos'].nr
    BY <1>1, <1>2, <1>3, <1>5
  <2>3. \A t \in Caller : <<called'[Len(called')], t>> \notin removed'
    BY <1>1, <1>5, <2>1
  <2> QED  BY <1>0, <1>1, <2>2, <2>3 DEF CallIsCurrent
<1>11. WalkIsComplete'
  <2>1. \A i \in 1..len : Past(i)' <=> i <= pos
    BY <1>0, <1>1 DEF Past
  <2>2. \A i \in 1..len : Past(i) <=> i < pos
    BY <1>0, <1>1 DEF Past
  <2>3. \A k \in 1..c : called[k] < mEventList[pos].nr
    BY <1>0, <1>2, <1>3, <1>4, <1>7, <2>2 DEF WalkIsComplete
  <2>4. \A k \in 1..(c + 1), i \in 1..len : Past(i)' \/ called'[k] < mEventList[i].nr
    <3> SUFFICES ASSUME NEW k \in 1..(c + 1), NEW i \in 1..len, i > pos PROVE called'[k] < mEventList[i].nr
      BY <1>0, <2>1
    <3>1. mEventList[pos].nr < mEventList[i].nr
      BY <1>0, <1>2, <1>3 DEF NumbersGrow
    <3>2. CASE k \in 1..c
      <4>1. called'[k] = called[k] /\ called[k] < mEventList[pos].nr
        BY <1>5, <2>3, <3>2
      <4>2. PICK x \in Nat, y \in Nat, z \in Nat : x = called[k] /\ y = mEventList[pos].nr /\ z = mEventList[i].nr
        BY <1>2, <1>3, <1>4, <3>2
      <4>3. x < y /\ y < z
        BY <3>1, <4>1, <4>2
      <4>4. x < z
        BY <4>3
      <4> QED  BY <4>1, <4>2, <4>4
    <3>3. CASE k \notin 1..c
      <4>1. k = c + 1
        BY <1>4, <1>6, <3>3
      <4> QED  BY <4>1, <1>5, <3>1
    <3> QED  BY <3>2, <3>3
  <2>5. \A k, m \in 1..(c + 1) : k < m => called'[k] < called'[m]
    <3> SUFFICES ASSUME NEW k \in 1..(c + 1), NEW m \in 1..(c + 1), k < m PROVE called'[k] < called'[m]
      OBVIOUS
    <3>1. k \in 1..c
      OBVIOUS
    <3>2. CASE m \in 1..c
      BY <1>4, <1>5, <1>7, <3>1, <3>2 DEF WalkIsComplete
    <3>3. CASE m = c + 1
      BY <1>5, <2>3, <3>1, <3>3
    <3> QED  BY <1>6, <3>2, <3>3
  <2>6. \A i \in 1..len :
          Past(i)' /\ Live(mEventList[i]) /\ mEventList[i].nr \in due
             => \E k \in 1..(c + 1) : called'[k] = mEventList[i].nr
    <3> SUFFICES ASSUME NEW i \in 1..len, i <= pos, Live(mEventList[i]), mEventList[i].nr \in due
                 PROVE  \E k \in 1..(c + 1) : called'[k] = mEventList[i].nr
      BY <2>1
    <3>1. CASE i = pos
      BY <1>5, <3>1
    <3>2. CASE i < pos
      <4>1. PICK k \in 1..c : called[k] = mEventList[i].nr
        BY <1>2, <1>4, <1>7, <2>2, <3>2 DEF WalkIsComplete
      <4> QED  BY <1>5, <4>1
    <3> QED  BY <1>0, <3>1, <3>2
  <2>7. \A i \in 1..len : mEventList[i].nr \in due => Matches(mEventList[i], ev)
    BY <1>2, <1>7 DEF WalkIsComplete
  <2> QED  BY <1>1, <1>2, <1>5, <2>4, <2>5, <2>6, <2>7 DEF WalkIsComplete
<1> QED
  BY <1>1, <1>8, <1>9, <1>10, <1>11 DEF ListenInv

LEMMA PassStep ==
    ASSUME ListenInv, Pass \/ CallReturns
    PROVE  ListenInv'
<1>0. ListenTypes /\ NumbersGrow /\ CallIsCurrent /\ pos \in Nat \ {0} /\ inCall \in BOOLEAN
  BY DEF ListenInv, ListenTypes
<1>1. pos' = pos + 1 /\ ~ inCall' /\ UNCHANGED <<mEventList, owner, ev, added, due, called, removed>>
  BY DEF Pass, CallReturns
<1>2. owner = Dispatcher
  BY <1>0 DEF Pass, CallReturns, CallIsCurrent
<1>3. WalkIsComplete
  BY <1>2 DEF ListenInv
<1>4. ListenTypes'
  <2>1. inCall' \in BOOLEAN
    BY <1>0 DEF Pass, CallReturns
  <2>2. pos' \in Nat \ {0}
    BY <1>0, <1>1
  <2> QED  BY <1>0, <1>1, <2>1, <2>2 DEF ListenTypes
<1>5. NumbersGrow' /\ CallIsCurrent'
  BY <1>0, <1>1 DEF NumbersGrow, CallIsCurrent
<1>6. \A i \in 1..Len(mEventList) : Past(i)' <=> Past(i) \/ i = pos
  BY <1>0, <1>1 DEF Past
<1>7. \A i \in 1..Len(mEventList) :
        Past(i)' /\ Live(mEventList[i]) /\ mEventList[i].nr \in due
           => \E k \in 1..Len(called) : called[k] = mEventList[i].nr
  <2> SUFFICES ASSUME NEW i \in 1..Len(mEventList), i = pos, ~ Past(i),
                      Live(mEventList[i]), mEventList[i].nr \in due
               PROVE  FALSE
    BY <1>3, <1>6 DEF WalkIsComplete
  <2>1. Pass
    BY DEF CallReturns, Past
  <2>2. ~ Matches(mEventList[i], ev)
    BY <2>1 DEF Pass
  <2> QED  BY <1>3, <2>2 DEF WalkIsComplete
<1>8. WalkIsComplete'
  BY <1>1, <1>3, <1>6, <1>7 DEF WalkIsComplete
<1> QED
  BY <1>4, <1>5, <1>8 DEF ListenInv

LEMMA ListenStep == ListenInv /\ [ListenNext]_listenVars => ListenInv'
<1> SUFFICES ASSUME ListenInv, [ListenNext]_listenVars PROVE ListenInv'
  OBVIOUS
<1>1. CASE EndDispatch
  <2>1. /\ owner' = NoListener /\ pos' = 1 /\ ~ inCall
        /\ UNCHANGED <<mEventList, ev, inCall, added, due, called, removed>>
    BY <1>1 DEF EndDispatch
  <2>2. ListenTypes' /\ NumbersGrow' /\ CallIsCurrent'
    BY <2>1 DEF ListenInv, ListenTypes, NumbersGrow, CallIsCurrent
  <2>3. owner' # Dispatcher
    BY <2>1, ListenersAssumption
  <2> QED  BY <2>2, <2>3 DEF ListenInv
<1>2. CASE UNCHANGED listenVars
  BY <1>2 DEF listenVars, ListenInv, ListenTypes, NumbersGrow, CallIsCurrent, WalkIsComplete, Past
<1> QED
  BY <1>1, <1>2, AddStep, RemoveStep, DispatchStep, PruneStep, CallStep, PassStep DEF ListenNext

\* For any number of listeners, registrations and threads: once
\* removeEventListener has returned to another thread, the listener is neither
\* running nor called again through the registration that was removed.
THEOREM NeverCalledAfterRemove == ListenSpec => []NoCallAfterRemove
<1>1. ListenInv => NoCallAfterRemove
  BY DEF ListenInv, CallIsCurrent, NoCallAfterRemove, Last
<1> QED
  BY <1>1, ListenStarts, ListenStep, PTL DEF ListenSpec

\* For any number of listeners and registrations, and whatever listeners add
\* and remove while they are called: one dispatch reaches every listener that is
\* registered for the event from its begin to its end, once and in order.
THEOREM EveryListenerIsCalledOnce == ListenSpec => EveryListenerOnce
<1>1. ASSUME ListenInv, [ListenNext]_listenVars, owner = Dispatcher, owner' = NoListener
      PROVE  /\ due \cap Numbers(Live) \subseteq ToSet(called)
             /\ \A i, j \in DOMAIN called : i < j => called[i] < called[j]
  <2>1. EndDispatch
    <3>1. Dispatcher # NoListener
      BY ListenersAssumption
    <3> QED
      BY <1>1, <3>1 DEF ListenNext, listenVars, AddEventListener, RemoveEventListener, DispatchEvent,
                       Prune, Call, Pass, CallReturns
  <2>2. /\ WalkIsComplete /\ mEventList \in Seq(EventListenerNode) /\ called \in Seq(Nat) /\ pos \in Nat \ {0}
    BY <1>1 DEF ListenInv, ListenTypes
  <2>3. \A i \in 1..Len(mEventList) : Past(i)
    BY <2>1, <2>2 DEF EndDispatch, Past
  <2>4. ASSUME NEW d \in due, d \in Numbers(Live) PROVE d \in ToSet(called)
    <3>1. PICK i \in 1..Len(mEventList) : d = mEventList[i].nr /\ Live(mEventList[i])
      BY <2>2, <2>4 DEF Numbers, ToSet
    <3>2. PICK k \in 1..Len(called) : called[k] = d
      BY <2>2, <2>3, <3>1 DEF WalkIsComplete
    <3> QED  BY <2>2, <3>2 DEF ToSet
  <2>5. \A i, j \in DOMAIN called : i < j => called[i] < called[j]
    BY <2>2 DEF WalkIsComplete
  <2> QED  BY <2>4, <2>5
<1>2. ListenInv /\ [ListenNext]_listenVars
        => [owner = Dispatcher /\ owner' = NoListener =>
              /\ due \cap Numbers(Live) \subseteq ToSet(called)
              /\ \A i, j \in DOMAIN called : i < j => called[i] < called[j]]_listenVars
  BY <1>1
<1> QED
  BY <1>2, ListenStarts, ListenStep, PTL DEF ListenSpec, EveryListenerOnce

-----------------------------------------------------------------------------
(* Sockets and their descriptors *)

Flag == BOOLEAN
SocketMembers == [kind : {"none", "client", "server", "datagram", "reader"}, mFd : SockFd \cup {NoFd},
                  mConnected : Flag, mConnectedAsync : Flag,
                  mListener : Flag, mSelector : Flag, mInGroup : Flag]
ConnectionState == {"free", "new", "connecting", "up", "half", "down", "failed", "listening", "bound"}
Connection == [state : ConnectionState, data : Flag]

SocketTypes ==
    /\ sock \in [Sock -> SocketMembers]
    /\ kernel \in [SockFd -> Connection]
    /\ calling = NoCall \/ calling.sock \in Sock

Registered(r) == r.mConnected /\ r.mSelector /\ r.mListener

\* The objects: only one with a descriptor is connected, and no two have the same.
MembersAgree ==
    /\ \A s \in Sock : sock[s].mConnected => sock[s].mFd # NoFd
    /\ \A s \in Sock : sock[s].kind = "none" => sock[s].mFd = NoFd
    /\ \A s, t \in Sock : sock[s].mFd = sock[t].mFd /\ sock[s].mFd # NoFd => s = t

\* The kernel: what is open is owned.
OpenIsOwned ==
    \A f \in SockFd : kernel[f].state # "free" <=> \E s \in Sock : sock[s].mFd = f

\* The selector: the nodes are those of the registered objects.
WatchIsRegistered ==
    /\ \A n \in watch : n.sock \in Sock /\ n.fd = sock[n.sock].mFd /\ Registered(sock[n.sock])
    /\ \A s \in Sock : Registered(sock[s]) => \E n \in watch : n.sock = s
    /\ \A n, m \in watch : n.sock = m.sock => n = m

SocketInv == SocketTypes /\ MembersAgree /\ OpenIsOwned /\ WatchIsRegistered

LEMMA Flags == TRUE \in Flag /\ FALSE \in Flag
  BY DEF Flag

\* The selector's nodes when s has members r: one for it, or none, and for
\* the others as before.
WatchFits(w, s, r) ==
    /\ \A n : n.sock # s => (n \in w <=> n \in watch)
    /\ \A n \in w : n.sock = s => n.fd = r.mFd /\ Registered(r)
    /\ Registered(r) => \E n \in w : n.sock = s
    /\ \A n, m \in w : n.sock = s /\ m.sock = s => n = m

\* A step that changes one object, s, to have members r: it keeps or gives up its
\* descriptor or takes a free one.
OneChanges(s, r) ==
    /\ sock' = [sock EXCEPT ![s] = r] /\ r \in SocketMembers
    /\ r.mConnected => r.mFd # NoFd
    /\ r.kind = "none" => r.mFd = NoFd
    /\ r.mFd \in {NoFd, sock[s].mFd} \/ kernel[r.mFd].state = "free"
    /\ \A f \in SockFd : kernel'[f].state # "free" <=> f = r.mFd \/ (kernel[f].state # "free" /\ f # sock[s].mFd)
    /\ WatchFits(watch', s, r)

LEMMA OneStep ==
    ASSUME SocketInv, NEW s \in Sock, NEW r, OneChanges(s, r), SocketTypes'
    PROVE  SocketInv'
<1>1. \A t \in Sock : sock'[t] = IF t = s THEN r ELSE sock[t]
  BY DEF OneChanges, SocketInv, SocketTypes
<1>2. \A t \in Sock : sock[t].mFd \in SockFd \cup {NoFd}
  <2>1. \A x \in SocketMembers : x.mFd \in SockFd \cup {NoFd}
    BY DEF SocketMembers
  <2> QED  BY <2>1 DEF SocketInv, SocketTypes
<1>3. r.mFd \in SockFd \cup {NoFd}
  BY DEF OneChanges, SocketMembers
<1>4. \A t \in Sock : t # s /\ sock[t].mFd # NoFd => sock[t].mFd # r.mFd
  BY <1>2, <1>3 DEF OneChanges, SocketInv, MembersAgree, OpenIsOwned
<1>5. MembersAgree'
  <2>1. /\ \A t \in Sock : sock'[t].mConnected => sock'[t].mFd # NoFd
        /\ \A t \in Sock : sock'[t].kind = "none" => sock'[t].mFd = NoFd
    BY <1>1 DEF OneChanges, SocketInv, MembersAgree
  <2>2. \A t, u \in Sock : sock'[t].mFd = sock'[u].mFd /\ sock'[t].mFd # NoFd => t = u
    BY <1>1, <1>4 DEF SocketInv, MembersAgree
  <2> QED  BY <2>1, <2>2 DEF MembersAgree
<1>6. OpenIsOwned'
  <2> SUFFICES ASSUME NEW f \in SockFd
               PROVE  kernel'[f].state # "free" <=> \E t \in Sock : sock'[t].mFd = f
    BY DEF OpenIsOwned
  <2>0. f # NoFd
    BY SocketAssumption DEF SockFd, NoFd
  <2>1. kernel'[f].state # "free" <=> f = r.mFd \/ (kernel[f].state # "free" /\ f # sock[s].mFd)
    BY DEF OneChanges
  <2>2. kernel[f].state # "free" <=> \E t \in Sock : sock[t].mFd = f
    BY DEF SocketInv, OpenIsOwned
  <2>3. \A t \in Sock : t # s /\ sock[t].mFd = f => f # sock[s].mFd
    BY <2>0 DEF SocketInv, MembersAgree
  <2> QED  BY <1>1, <2>1, <2>2, <2>3
<1>7. WatchIsRegistered'
  <2>1. WatchIsRegistered
    BY DEF SocketInv
  <2>2. \A n \in watch' : n.sock \in Sock /\ n.fd = sock'[n.sock].mFd /\ Registered(sock'[n.sock])
    BY <1>1, <2>1 DEF OneChanges, WatchFits, WatchIsRegistered
  <2>3. \A t \in Sock : Registered(sock'[t]) => \E n \in watch' : n.sock = t
    BY <1>1, <2>1 DEF OneChanges, WatchFits, WatchIsRegistered
  <2>4. \A n, m \in watch' : n.sock = m.sock => n = m
    BY <2>1 DEF OneChanges, WatchFits, WatchIsRegistered
  <2> QED  BY <2>2, <2>3, <2>4 DEF WatchIsRegistered
<1> QED
  BY <1>5, <1>6, <1>7 DEF SocketInv

\* The selector's nodes after the three ways to change them.
LEMMA WatchKept ==
    ASSUME SocketInv, NEW s \in Sock, NEW r, r.mFd = sock[s].mFd, Registered(r) <=> Registered(sock[s])
    PROVE  WatchFits(watch, s, r)
  BY DEF SocketInv, WatchIsRegistered, WatchFits

LEMMA WatchRemoved ==
    ASSUME NEW s \in Sock, NEW r, ~ Registered(r)
    PROVE  WatchFits({n \in watch : n.sock # s}, s, r)
  BY DEF WatchFits

LEMMA WatchAdded ==
    ASSUME NEW s \in Sock, NEW r, Registered(r), NEW e
    PROVE  WatchFits({n \in watch : n.sock # s} \cup {[fd |-> r.mFd, sock |-> s, events |-> e]}, s, r)
<1>1. PICK x : x = [fd |-> r.mFd, sock |-> s, events |-> e]
  OBVIOUS
<1>2. x.fd = r.mFd /\ x.sock = s
  BY <1>1
<1>3. WatchFits({n \in watch : n.sock # s} \cup {x}, s, r)
  BY <1>2 DEF WatchFits
<1> QED
  BY <1>1, <1>3

\* removeListener goes by the descriptor and meets its owner's node only.
LEMMA RemovedByFd ==
    ASSUME SocketInv, NEW s \in Sock, sock[s].mFd # NoFd
    PROVE  RemoveListener(watch, sock[s].mFd) = {n \in watch : n.sock # s}
<1>1. \A n \in watch : n.fd = sock[s].mFd <=> n.sock = s
  BY DEF SocketInv, WatchIsRegistered, MembersAgree, Registered
<1> QED
  BY <1>1 DEF RemoveListener

\* An object that is not registered has no node.
LEMMA NoNode ==
    ASSUME SocketInv, NEW s \in Sock, ~ Registered(sock[s])
    PROVE  watch = {n \in watch : n.sock # s}
  BY DEF SocketInv, WatchIsRegistered

LEMMA WatchClosed ==
    ASSUME SocketInv, NEW s \in Sock
    PROVE  (IF sock[s].mFd = NoFd THEN watch ELSE SetConnected(watch, s, sock[s], FALSE, {}))
              = {n \in watch : n.sock # s}
<1>0. sock[s].mConnected \in BOOLEAN
  <2>1. \A x \in SocketMembers : x.mConnected \in Flag
    BY DEF SocketMembers
  <2> QED  BY <2>1 DEF Flag, SocketInv, SocketTypes
<1>1. CASE Registered(sock[s])
  <2>1. sock[s].mFd # NoFd
    BY <1>1 DEF SocketInv, MembersAgree, Registered
  <2>2. SetConnected(watch, s, sock[s], FALSE, {}) = RemoveListener(watch, sock[s].mFd)
    BY <1>1 DEF SetConnected, Registered
  <2> QED  BY <2>1, <2>2, RemovedByFd
<1>2. CASE ~ Registered(sock[s])
  <2>1. SetConnected(watch, s, sock[s], FALSE, {}) = watch
    BY <1>0, <1>2 DEF SetConnected, Registered
  <2> QED  BY <1>2, <2>1, NoNode
<1> QED
  BY <1>1, <1>2

LEMMA WatchConnected ==
    ASSUME SocketInv, NEW s \in Sock, NEW e, NEW r,
           r.mFd = sock[s].mFd, r.mConnected = TRUE,
           r.mSelector = sock[s].mSelector, r.mListener = sock[s].mListener
    PROVE  WatchFits(SetConnected(watch, s, sock[s], TRUE, e), s, r)
<1>0. sock[s].mConnected \in BOOLEAN
  <2>1. \A x \in SocketMembers : x.mConnected \in Flag
    BY DEF SocketMembers
  <2> QED  BY <2>1 DEF Flag, SocketInv, SocketTypes
<1>1. CASE ~ sock[s].mConnected /\ sock[s].mSelector /\ sock[s].mListener
  <2>1. SetConnected(watch, s, sock[s], TRUE, e) = watch \cup {[fd |-> r.mFd, sock |-> s, events |-> e]}
    BY <1>0, <1>1 DEF SetConnected, AddListener
  <2>2. watch = {n \in watch : n.sock # s}
    BY <1>1, NoNode DEF Registered
  <2>3. Registered(r)
    BY <1>1 DEF Registered
  <2> QED  BY <2>1, <2>2, <2>3, WatchAdded
<1>2. CASE sock[s].mConnected \/ ~ (sock[s].mSelector /\ sock[s].mListener)
  <2>1. SetConnected(watch, s, sock[s], TRUE, e) = watch
    BY <1>0, <1>2 DEF SetConnected
  <2>2. Registered(r) <=> Registered(sock[s])
    BY <1>2 DEF Registered
  <2> QED  BY <2>1, <2>2, WatchKept
<1> QED
  BY <1>1, <1>2

\* The kernel's table after a change of one entry.
LEMMA KernelSet ==
    ASSUME kernel \in [SockFd -> Connection], NEW f \in SockFd, NEW st \in ConnectionState,
           kernel' = [kernel EXCEPT ![f].state = st]
    PROVE  /\ kernel' \in [SockFd -> Connection]
           /\ \A g \in SockFd : kernel'[g].state = IF g = f THEN st ELSE kernel[g].state
<1>1. kernel[f] \in Connection
  OBVIOUS
<1>2. PICK x : x = [kernel[f] EXCEPT !.state = st]
  OBVIOUS
<1>3. x \in Connection /\ x.state = st
  BY <1>1, <1>2 DEF Connection
<1>4. kernel' = [kernel EXCEPT ![f] = x]
  BY <1>2
<1> QED
  BY <1>3, <1>4

LEMMA KernelData ==
    ASSUME kernel \in [SockFd -> Connection], NEW f \in SockFd, NEW b \in Flag,
           kernel' = [kernel EXCEPT ![f].data = b]
    PROVE  /\ kernel' \in [SockFd -> Connection]
           /\ \A g \in SockFd : kernel'[g].state = kernel[g].state
<1>1. kernel[f] \in Connection
  OBVIOUS
<1>2. PICK x : x = [kernel[f] EXCEPT !.data = b]
  OBVIOUS
<1>3. x \in Connection /\ x.state = kernel[f].state
  BY <1>1, <1>2 DEF Connection
<1>4. kernel' = [kernel EXCEPT ![f] = x]
  BY <1>2
<1> QED
  BY <1>3, <1>4

LEMMA KernelClosed ==
    ASSUME kernel \in [SockFd -> Connection], NEW d,
           kernel' = [f \in SockFd |-> IF f = d THEN Closed ELSE kernel[f]]
    PROVE  /\ kernel' \in [SockFd -> Connection]
           /\ \A g \in SockFd : kernel'[g].state = IF g = d THEN "free" ELSE kernel[g].state
<1>1. Closed.state = "free"
  BY DEF Closed
<1>2. Closed \in Connection
  BY Flags DEF Closed, Connection, ConnectionState
<1> QED
  BY <1>1, <1>2

\* Steps that change no object, open or close no descriptor and register nothing.
LEMMA NoneChanges ==
    ASSUME SocketInv, UNCHANGED <<sock, watch>>, SocketTypes',
           \A f \in SockFd : kernel'[f].state # "free" <=> kernel[f].state # "free"
    PROVE  SocketInv'
<1>1. MembersAgree' /\ WatchIsRegistered'
  BY DEF SocketInv, MembersAgree, WatchIsRegistered
<1>2. OpenIsOwned'
  BY DEF SocketInv, OpenIsOwned
<1> QED
  BY <1>1, <1>2 DEF SocketInv

LEMMA KernelSteps ==
    ASSUME SocketInv, KernelStep
    PROVE  SocketInv'
<1>0. kernel \in [SockFd -> Connection] /\ UNCHANGED <<sock, watch, calling>>
  BY DEF SocketInv, SocketTypes, KernelStep
<1>1. PICK f \in SockFd :
        \/ /\ kernel[f].state = "connecting"
           /\ \E st \in {"up", "failed"} : kernel' = [kernel EXCEPT ![f].state = st]
        \/ /\ kernel[f].state \in {"up", "listening", "bound"}
           /\ kernel' = [kernel EXCEPT ![f].data = TRUE]
        \/ /\ kernel[f].state = "up"
           /\ kernel' = [kernel EXCEPT ![f].state = "half"]
  BY DEF KernelStep
<1>2. ASSUME NEW st \in {"up", "failed", "half"}, kernel' = [kernel EXCEPT ![f].state = st],
             kernel[f].state # "free"
      PROVE  SocketInv'
  <2>1. st \in ConnectionState /\ st # "free"
    BY DEF ConnectionState
  <2>2. /\ kernel' \in [SockFd -> Connection]
        /\ \A g \in SockFd : kernel'[g].state = IF g = f THEN st ELSE kernel[g].state
    BY <1>0, <1>2, <2>1, KernelSet
  <2>3. SocketTypes'
    BY <1>0, <2>2 DEF SocketInv, SocketTypes
  <2> QED  BY <1>0, <1>2, <2>1, <2>2, <2>3, NoneChanges
<1>3. ASSUME kernel' = [kernel EXCEPT ![f].data = TRUE] PROVE SocketInv'
  BY <1>0, <1>3, KernelData, NoneChanges, Flags DEF SocketInv, SocketTypes
<1> QED
  BY <1>1, <1>2, <1>3

\* The members after the updates that the operations make.
LEMMA MemberTypes ==
    ASSUME NEW x \in SocketMembers
    PROVE  /\ x.mFd \in SockFd \cup {NoFd}
           /\ x.mConnected \in Flag /\ x.mListener \in Flag /\ x.mSelector \in Flag
  BY DEF SocketMembers

LEMMA ClosedMembers ==
    ASSUME NEW x \in SocketMembers
    PROVE  LET r == [WithConnected(x, FALSE) EXCEPT !.mFd = NoFd]
           IN  r \in SocketMembers /\ r.mFd = NoFd /\ r.mConnected = FALSE
  BY Flags DEF SocketMembers, WithConnected

LEMMA GoneMembers ==
    /\ Gone \in SocketMembers /\ Gone.mFd = NoFd /\ Gone.mConnected = FALSE /\ Gone.mSelector = FALSE
  BY Flags DEF SocketMembers, Gone

LEMMA ConnectedMembers ==
    ASSUME NEW x \in SocketMembers
    PROVE  LET r == WithConnected(x, TRUE)
           IN  /\ r \in SocketMembers /\ r.mFd = x.mFd /\ r.mConnected = TRUE /\ r.kind = x.kind
               /\ r.mSelector = x.mSelector /\ r.mListener = x.mListener
  BY Flags DEF SocketMembers, WithConnected

LEMMA AsyncMembers ==
    ASSUME NEW x \in SocketMembers, NEW b \in Flag
    PROVE  LET r == [x EXCEPT !.mConnectedAsync = b]
           IN  /\ r \in SocketMembers /\ r.mFd = x.mFd /\ r.mConnected = x.mConnected /\ r.kind = x.kind
               /\ r.mSelector = x.mSelector /\ r.mListener = x.mListener
  BY DEF SocketMembers

LEMMA GroupMembers ==
    ASSUME NEW x \in SocketMembers, NEW b \in Flag
    PROVE  LET r == [x EXCEPT !.mInGroup = b]
           IN  /\ r \in SocketMembers /\ r.mFd = x.mFd /\ r.mConnected = x.mConnected /\ r.kind = x.kind
               /\ r.mSelector = x.mSelector /\ r.mListener = x.mListener
  BY DEF SocketMembers

LEMMA ReaderMembers ==
    ASSUME NEW x \in SocketMembers, NEW c \in Flag
    PROVE  LET r == [x EXCEPT !.mSelector = c, !.mListener = TRUE, !.mConnected = TRUE]
           IN  /\ r \in SocketMembers /\ r.mFd = x.mFd /\ r.mConnected = TRUE /\ r.kind = x.kind
               /\ r.mSelector = c /\ r.mListener = TRUE
  BY Flags DEF SocketMembers

LEMMA AcceptedMembers ==
    ASSUME NEW f \in SockFd
    PROVE  LET r == [Gone EXCEPT !.kind = "client", !.mFd = f, !.mConnected = TRUE]
           IN  r \in SocketMembers /\ r.mFd = f /\ r.mConnected = TRUE /\ r.kind = "client" /\ r.mSelector = FALSE
  BY Flags DEF SocketMembers, Gone

\* An object gives up its descriptor.
LEMMA Closes ==
    ASSUME SocketInv, NEW s \in Sock, NEW r \in SocketMembers, r.mFd = NoFd, r.mConnected = FALSE,
           sock' = [sock EXCEPT ![s] = r], watch' = {n \in watch : n.sock # s},
           kernel' = [f \in SockFd |-> IF f = sock[s].mFd THEN Closed ELSE kernel[f]],
           calling' = calling \/ calling' = NoCall
    PROVE  SocketInv'
<1>0. sock \in [Sock -> SocketMembers] /\ kernel \in [SockFd -> Connection]
  BY DEF SocketInv, SocketTypes
<1>1. /\ kernel' \in [SockFd -> Connection]
      /\ \A g \in SockFd : kernel'[g].state = IF g = sock[s].mFd THEN "free" ELSE kernel[g].state
  BY <1>0, KernelClosed
<1>2. SocketTypes'
  BY <1>0, <1>1 DEF SocketInv, SocketTypes
<1>3. WatchFits(watch', s, r)
  BY WatchRemoved DEF Registered
<1>4. \A f \in SockFd : f # NoFd
  BY SocketAssumption DEF SockFd, NoFd
<1>5. OneChanges(s, r)
  BY <1>1, <1>3, <1>4 DEF OneChanges
<1> QED
  BY <1>2, <1>5, OneStep

\* An object keeps its descriptor.
LEMMA Keeps ==
    ASSUME SocketInv, NEW s \in Sock, NEW r \in SocketMembers,
           r.mFd = sock[s].mFd, r.kind = sock[s].kind, r.mConnected => r.mFd # NoFd,
           sock' = [sock EXCEPT ![s] = r], WatchFits(watch', s, r),
           kernel' \in [SockFd -> Connection], UNCHANGED calling,
           \A f \in SockFd : kernel'[f].state # "free" <=> kernel[f].state # "free"
    PROVE  SocketInv'
<1>0. sock \in [Sock -> SocketMembers]
  BY DEF SocketInv, SocketTypes
<1>1. SocketTypes'
  BY <1>0 DEF SocketInv, SocketTypes
<1>2. \A f \in SockFd : f = sock[s].mFd => kernel[f].state # "free"
  BY DEF SocketInv, OpenIsOwned
<1>3. r.kind = "none" => r.mFd = NoFd
  BY DEF SocketInv, MembersAgree
<1>4. OneChanges(s, r)
  BY <1>2, <1>3 DEF OneChanges
<1> QED
  BY <1>1, <1>4, OneStep

\* The kernel gives out a descriptor that is free.
LEMMA FreeFdIsFree ==
    FreeFd = NoFd \/ (FreeFd \in SockFd /\ kernel[FreeFd].state = "free")
<1> DEFINE T == {f \in SockFd : kernel[f].state = "free"}
<1>1. CASE T = {}
  BY <1>1 DEF FreeFd
<1>2. CASE T # {}
  <2>1. T \in SUBSET Nat
    BY SocketAssumption DEF SockFd
  <2>2. PICK f \in T : \A g \in T : f <= g
    <3> HIDE DEF T
    <3> QED  BY <1>2, <2>1, LeastNumber
  <2>3. f \in SockFd /\ kernel[f].state = "free" /\ \A g \in 1..(f - 1) : g \in SockFd /\ g < f
    BY SocketAssumption DEF SockFd
  <2>4. \A g \in 1..(f - 1) : kernel[g].state # "free"
    <3> SUFFICES ASSUME NEW g \in 1..(f - 1), kernel[g].state = "free" PROVE FALSE
      OBVIOUS
    <3>1. g \in T
      BY <2>3
    <3>2. f <= g /\ g < f /\ f \in Nat /\ g \in Nat
      BY <2>1, <2>2, <2>3, <3>1
    <3> QED  BY <3>2
  <2>5. \E h \in SockFd : kernel[h].state = "free" /\ \A g \in 1..h - 1 : kernel[g].state # "free"
    BY <2>3, <2>4
  <2> QED  BY <2>3, <2>5 DEF FreeFd
<1> QED
  BY <1>1, <1>2

\* An object that had no descriptor is given one, or none when none is left.
LEMMA Opens ==
    ASSUME SocketInv, NEW s \in Sock, sock[s].kind = "none", NEW r \in SocketMembers,
           r.mFd = NoFd \/ kernel[r.mFd].state = "free", r.kind # "none",
           ~ Registered(r), r.mConnected => r.mFd # NoFd,
           sock' = [sock EXCEPT ![s] = r], UNCHANGED watch, kernel' \in [SockFd -> Connection],
           \A f \in SockFd : kernel'[f].state # "free" <=> kernel[f].state # "free" \/ f = r.mFd,
           calling' = calling \/ calling'.sock \in Sock
    PROVE  SocketInv'
<1>0. sock \in [Sock -> SocketMembers]
  BY DEF SocketInv, SocketTypes
<1>1. SocketTypes'
  BY <1>0 DEF SocketInv, SocketTypes
<1>2. sock[s].mFd = NoFd /\ ~ Registered(sock[s]) /\ \A f \in SockFd : f # NoFd
  BY SocketAssumption DEF SocketInv, MembersAgree, SockFd, NoFd, Registered
<1>3. WatchFits(watch', s, r)
  <2>1. watch' = {n \in watch : n.sock # s}
    BY <1>2, NoNode
  <2> QED  BY <2>1, WatchRemoved
<1>4. OneChanges(s, r)
  BY <1>2, <1>3 DEF OneChanges
<1> QED
  BY <1>1, <1>4, OneStep

LEMMA NewStep ==
    ASSUME SocketInv, NEW s \in Sock, NewSocket(s)
    PROVE  SocketInv'
<1>0. kernel \in [SockFd -> Connection]
  BY DEF SocketInv, SocketTypes
<1>1. PICK f : f = FreeFd
  OBVIOUS
<1>2. f = NoFd \/ (f \in SockFd /\ kernel[f].state = "free")
  BY <1>1, FreeFdIsFree
<1>3. PICK k \in {"client", "server", "datagram", "reader"} :
         sock' = [sock EXCEPT ![s] = [Gone EXCEPT !.kind = k, !.mFd = f]]
  BY <1>1 DEF NewSocket
<1>4. PICK r : r = [Gone EXCEPT !.kind = k, !.mFd = f]
  OBVIOUS
<1>5. r \in SocketMembers /\ r.mFd = f /\ r.mConnected = FALSE /\ r.kind = k
  <2>1. f \in SockFd \cup {NoFd}
    BY <1>2
  <2> QED  BY <1>4, <2>1, Flags DEF SocketMembers, Gone
<1>6. /\ sock[s].kind = "none" /\ UNCHANGED <<watch, calling>>
      /\ kernel' = IF f = NoFd THEN kernel ELSE [kernel EXCEPT ![f].state = "new"]
  BY <1>1 DEF NewSocket
<1>7. "new" \in ConnectionState /\ \A g \in SockFd : g # NoFd
  BY SocketAssumption DEF ConnectionState, SockFd, NoFd
<1>8. /\ kernel' \in [SockFd -> Connection]
      /\ \A g \in SockFd : kernel'[g].state = IF g = f THEN "new" ELSE kernel[g].state
  <2>1. CASE f = NoFd
    BY <1>0, <1>6, <1>7, <2>1
  <2>2. CASE f # NoFd
    <3>1. f \in SockFd /\ kernel' = [kernel EXCEPT ![f].state = "new"]
      BY <1>2, <1>6, <2>2
    <3> QED  BY <1>0, <1>7, <3>1, KernelSet
  <2> QED  BY <2>1, <2>2
<1>9. ~ Registered(r) /\ (r.mConnected => r.mFd # NoFd) /\ r.kind # "none"
  BY <1>5 DEF Registered
<1>10. /\ r.mFd = NoFd \/ kernel[r.mFd].state = "free"
       /\ sock' = [sock EXCEPT ![s] = r] /\ UNCHANGED watch /\ (calling' = calling \/ calling'.sock \in Sock)
       /\ \A g \in SockFd : kernel'[g].state # "free" <=> kernel[g].state # "free" \/ g = r.mFd
  BY <1>2, <1>3, <1>4, <1>5, <1>6, <1>8
<1> QED
  BY <1>5, <1>6, <1>8, <1>9, <1>10, Opens

LEMMA AcceptStep ==
    ASSUME SocketInv, NEW n \in watch, NEW s \in Sock, ProcessAccept(n, s)
    PROVE  SocketInv'
<1>0. kernel \in [SockFd -> Connection]
  BY DEF SocketInv, SocketTypes
<1>1. PICK f \in SockFd : f = FreeFd /\ kernel[f].state = "free"
  BY FreeFdIsFree DEF ProcessAccept
<1>2. PICK r : r = [Gone EXCEPT !.kind = "client", !.mFd = f, !.mConnected = TRUE]
  OBVIOUS
<1>3. r \in SocketMembers /\ r.mFd = f /\ r.kind = "client" /\ r.mSelector = FALSE
  BY <1>2, AcceptedMembers
<1>4. /\ sock[s].kind = "none" /\ sock' = [sock EXCEPT ![s] = r] /\ UNCHANGED watch
      /\ kernel' = [kernel EXCEPT ![n.fd].data = FALSE, ![f].state = "up"]
      /\ calling' = [what |-> "handleAccept", sock |-> s, server |-> n.sock]
  BY <1>1, <1>2 DEF ProcessAccept
<1>5. n.fd \in SockFd
  <2>1. n.sock \in Sock /\ n.fd = sock[n.sock].mFd /\ n.fd # NoFd
    BY DEF SocketInv, WatchIsRegistered, MembersAgree, Registered
  <2> QED  BY <2>1, MemberTypes DEF SocketInv, SocketTypes
<1>6. /\ kernel' \in [SockFd -> Connection]
      /\ \A g \in SockFd : kernel'[g].state = IF g = f THEN "up" ELSE kernel[g].state
  <2>1. PICK k : k = [kernel EXCEPT ![n.fd].data = FALSE]
    OBVIOUS
  <2>2. k \in [SockFd -> Connection] /\ \A g \in SockFd : k[g].state = kernel[g].state
    <3>1. PICK x : x = [kernel[n.fd] EXCEPT !.data = FALSE]
      OBVIOUS
    <3>2. x \in Connection /\ x.state = kernel[n.fd].state
      BY <1>0, <1>5, <3>1, Flags DEF Connection
    <3>3. k = [kernel EXCEPT ![n.fd] = x]
      BY <2>1, <3>1
    <3> QED  BY <1>0, <1>5, <3>2, <3>3
  <2>3. kernel' = [k EXCEPT ![f].state = "up"]
    BY <1>4, <2>1
  <2>4. PICK y : y = [k[f] EXCEPT !.state = "up"]
    OBVIOUS
  <2>5. y \in Connection /\ y.state = "up"
    BY <2>2, <2>4 DEF Connection, ConnectionState
  <2>6. kernel' = [k EXCEPT ![f] = y]
    BY <2>3, <2>4
  <2> QED  BY <2>2, <2>5, <2>6
<1>7. ~ Registered(r) /\ f # NoFd
  BY <1>3, SocketAssumption DEF Registered, SockFd, NoFd
<1>8. calling'.sock \in Sock
  BY <1>4
<1>9. /\ r.mFd = NoFd \/ kernel[r.mFd].state = "free"
      /\ r.mConnected => r.mFd # NoFd
      /\ r.kind # "none"
      /\ \A g \in SockFd : kernel'[g].state # "free" <=> kernel[g].state # "free" \/ g = r.mFd
  BY <1>1, <1>3, <1>6, <1>7
<1>10. calling' = calling \/ calling'.sock \in Sock
  BY <1>8
<1> QED
  BY <1>3, <1>4, <1>6, <1>7, <1>9, <1>10, Opens

LEMMA CloseSteps ==
    ASSUME SocketInv, NEW s \in Sock, CloseSocket(s), calling' = calling \/ calling' = NoCall
    PROVE  SocketInv'
<1>0. sock[s] \in SocketMembers
  BY DEF SocketInv, SocketTypes
<1>1. PICK r : r = [WithConnected(sock[s], FALSE) EXCEPT !.mFd = NoFd]
  OBVIOUS
<1>2. r \in SocketMembers /\ r.mFd = NoFd /\ r.mConnected = FALSE
  BY <1>0, <1>1, ClosedMembers
<1>3. /\ sock' = [sock EXCEPT ![s] = r]
      /\ watch' = IF sock[s].mFd = NoFd THEN watch ELSE SetConnected(watch, s, sock[s], FALSE, {})
      /\ kernel' = [f \in SockFd |-> IF f = sock[s].mFd THEN Closed ELSE kernel[f]]
  BY <1>1 DEF CloseSocket
<1> QED
  BY <1>2, <1>3, WatchClosed, Closes

LEMMA DeleteSteps ==
    ASSUME SocketInv, NEW s \in Sock, sock' = [sock EXCEPT ![s] = Gone],
           watch' = IF sock[s].mFd = NoFd THEN watch ELSE SetConnected(watch, s, sock[s], FALSE, {}),
           kernel' = [f \in SockFd |-> IF f = sock[s].mFd THEN Closed ELSE kernel[f]],
           calling' = calling \/ calling' = NoCall
    PROVE  SocketInv'
  BY WatchClosed, GoneMembers, Closes

LEMMA ReaderCloseStep ==
    ASSUME SocketInv, NEW s \in Sock, ReaderClose(s)
    PROVE  SocketInv'
<1>1. /\ ~ sock[s].mSelector /\ sock' = [sock EXCEPT ![s] = Gone] /\ UNCHANGED <<watch, calling>>
      /\ kernel' = [f \in SockFd |-> IF f = sock[s].mFd THEN Closed ELSE kernel[f]]
  BY DEF ReaderClose
<1>2. watch' = {n \in watch : n.sock # s}
  BY <1>1, NoNode DEF Registered
<1> QED
  BY <1>1, <1>2, GoneMembers, Closes

\* A socket that was new counts as connected.
LEMMA Connects ==
    ASSUME SocketInv, NEW s \in Sock, NEW r \in SocketMembers, NEW e, NEW st \in ConnectionState, st # "free",
           r.mFd = sock[s].mFd, r.mConnected = TRUE, r.kind = sock[s].kind,
           r.mSelector = sock[s].mSelector, r.mListener = sock[s].mListener, sock[s].mFd # NoFd,
           sock' = [sock EXCEPT ![s] = r], watch' = SetConnected(watch, s, sock[s], TRUE, e),
           kernel' = [kernel EXCEPT ![sock[s].mFd].state = st], UNCHANGED calling
    PROVE  SocketInv'
<1>0. kernel \in [SockFd -> Connection] /\ sock[s].mFd \in SockFd
  BY MemberTypes DEF SocketInv, SocketTypes
<1>1. PICK d \in SockFd : d = sock[s].mFd
  BY <1>0
<1>2. /\ kernel' \in [SockFd -> Connection]
      /\ \A g \in SockFd : kernel'[g].state = IF g = d THEN st ELSE kernel[g].state
  <2>1. kernel' = [kernel EXCEPT ![d].state = st]
    BY <1>1
  <2> QED  BY <1>0, <2>1, KernelSet
<1>3. kernel[d].state # "free"
  BY <1>1 DEF SocketInv, OpenIsOwned
<1>4. \A f \in SockFd : kernel'[f].state # "free" <=> kernel[f].state # "free"
  BY <1>2, <1>3
<1>5. WatchFits(watch', s, r)
  BY WatchConnected
<1> QED
  BY <1>2, <1>4, <1>5, Keeps

LEMMA ConnectSteps ==
    ASSUME SocketInv, NEW s \in Sock, ConnectSocket(s) \/ BindSocket(s) \/ ListenSocket(s)
    PROVE  SocketInv'
<1>1. PICK r : r = WithConnected(sock[s], TRUE)
  OBVIOUS
<1>2. /\ r \in SocketMembers /\ r.mFd = sock[s].mFd /\ r.mConnected = TRUE /\ r.kind = sock[s].kind
      /\ r.mSelector = sock[s].mSelector /\ r.mListener = sock[s].mListener
  <2>1. sock[s] \in SocketMembers
    BY DEF SocketInv, SocketTypes
  <2> QED  BY <1>1, <2>1, ConnectedMembers
<1>3. /\ sock[s].mFd # NoFd /\ sock' = [sock EXCEPT ![s] = r] /\ UNCHANGED calling
      /\ watch' = SetConnected(watch, s, sock[s], TRUE, {"in"})
  BY <1>1 DEF ConnectSocket, BindSocket, ListenSocket
<1>4. PICK st \in {"up", "bound", "listening"} : kernel' = [kernel EXCEPT ![sock[s].mFd].state = st]
  BY DEF ConnectSocket, BindSocket, ListenSocket
<1>5. st \in ConnectionState /\ st # "free"
  BY DEF ConnectionState
<1> QED
  BY <1>2, <1>3, <1>4, <1>5, Connects

LEMMA AsyncStep ==
    ASSUME SocketInv, NEW s \in Sock, ConnectAsync(s)
    PROVE  SocketInv'
<1>0. sock[s] \in SocketMembers
  BY DEF SocketInv, SocketTypes
<1>1. PICK q : q = WithConnected(sock[s], TRUE)
  OBVIOUS
<1>2. /\ q \in SocketMembers /\ q.mFd = sock[s].mFd /\ q.mConnected = TRUE /\ q.kind = sock[s].kind
      /\ q.mSelector = sock[s].mSelector /\ q.mListener = sock[s].mListener
  BY <1>0, <1>1, ConnectedMembers
<1>3. PICK r : r = [q EXCEPT !.mConnectedAsync = TRUE]
  OBVIOUS
<1>4. /\ r \in SocketMembers /\ r.mFd = q.mFd /\ r.mConnected = q.mConnected /\ r.kind = q.kind
      /\ r.mSelector = q.mSelector /\ r.mListener = q.mListener
  BY <1>2, <1>3, Flags, AsyncMembers
<1>5. /\ sock[s].mFd # NoFd /\ sock' = [sock EXCEPT ![s] = r] /\ UNCHANGED calling
      /\ watch' = SetConnected(watch, s, sock[s], TRUE, {"in", "out"})
  BY <1>1, <1>3 DEF ConnectAsync
<1>6. PICK st \in {"connecting", "up"} : kernel' = [kernel EXCEPT ![sock[s].mFd].state = st]
  BY DEF ConnectAsync
<1>7. st \in ConnectionState /\ st # "free"
  BY DEF ConnectionState
<1>8. r.mConnected = TRUE /\ r.mFd = sock[s].mFd /\ r.kind = sock[s].kind
      /\ r.mSelector = sock[s].mSelector /\ r.mListener = sock[s].mListener
  BY <1>2, <1>4
<1> QED
  BY <1>4, <1>5, <1>6, <1>7, <1>8, Connects

LEMMA TransferSteps ==
    ASSUME SocketInv, NEW s \in Sock, ConnectTimesOut(s) \/ ShutdownSocket(s) \/ ReadSocket(s)
    PROVE  SocketInv'
<1>0. kernel \in [SockFd -> Connection] /\ sock[s].mFd # NoFd /\ UNCHANGED <<sock, watch, calling>>
  BY DEF SocketInv, SocketTypes, ConnectTimesOut, ShutdownSocket, ReadSocket
<1>1. PICK d \in SockFd : d = sock[s].mFd
  BY <1>0, MemberTypes DEF SocketInv, SocketTypes
<1>2. kernel[d].state # "free"
  BY <1>1 DEF SocketInv, OpenIsOwned
<1>3. ASSUME NEW st \in {"connecting", "down"}, kernel' = [kernel EXCEPT ![d].state = st] PROVE SocketInv'
  <2>1. st \in ConnectionState /\ st # "free"
    BY DEF ConnectionState
  <2>2. /\ kernel' \in [SockFd -> Connection]
        /\ \A g \in SockFd : kernel'[g].state = IF g = d THEN st ELSE kernel[g].state
    BY <1>0, <1>3, <2>1, KernelSet
  <2>3. SocketTypes'
    BY <1>0, <2>2 DEF SocketInv, SocketTypes
  <2> QED  BY <1>0, <1>2, <2>1, <2>2, <2>3, NoneChanges
<1>4. ASSUME kernel' = [kernel EXCEPT ![d].data = FALSE] PROVE SocketInv'
  BY <1>0, <1>4, KernelData, NoneChanges, Flags DEF SocketInv, SocketTypes
<1> QED
  BY <1>1, <1>3, <1>4 DEF ConnectTimesOut, ShutdownSocket, ReadSocket

LEMMA GroupSteps ==
    ASSUME SocketInv, NEW s \in Sock, JoinGroup(s) \/ LeaveGroup(s)
    PROVE  SocketInv'
<1>0. sock[s] \in SocketMembers /\ kernel \in [SockFd -> Connection] /\ sock[s].mInGroup \in Flag
  BY DEF SocketInv, SocketTypes, SocketMembers
<1>1. UNCHANGED <<kernel, watch, calling>>
  BY DEF JoinGroup, LeaveGroup
<1>2. PICK b \in Flag : sock' = [sock EXCEPT ![s].mInGroup = b]
  <2>1. CASE JoinGroup(s)
    BY <2>1, Flags DEF JoinGroup
  <2>2. CASE LeaveGroup(s)
    <3>1. sock' = [sock EXCEPT ![s].mInGroup = IF "any" \notin group[sock[s].mFd] THEN @ ELSE FALSE]
      BY <2>2 DEF LeaveGroup
    <3>2. CASE "any" \notin group[sock[s].mFd]
      <4>1. sock' = [sock EXCEPT ![s].mInGroup = sock[s].mInGroup]
        BY <3>1, <3>2
      <4> QED  BY <1>0, <4>1
    <3>3. CASE "any" \in group[sock[s].mFd]
      <4>1. sock' = [sock EXCEPT ![s].mInGroup = FALSE]
        BY <3>1, <3>3
      <4> QED  BY Flags, <4>1
    <3> QED  BY <3>2, <3>3
  <2> QED  BY <2>1, <2>2
<1>3. PICK r : r = [sock[s] EXCEPT !.mInGroup = b]
  OBVIOUS
<1>4. /\ r \in SocketMembers /\ r.mFd = sock[s].mFd /\ r.mConnected = sock[s].mConnected /\ r.kind = sock[s].kind
      /\ r.mSelector = sock[s].mSelector /\ r.mListener = sock[s].mListener
  BY <1>0, <1>3, GroupMembers
<1>5. sock' = [sock EXCEPT ![s] = r]
  BY <1>2, <1>3
<1>6. WatchFits(watch', s, r)
  BY <1>1, <1>4, WatchKept DEF Registered
<1>7. r.mConnected => r.mFd # NoFd
  BY <1>4 DEF SocketInv, MembersAgree
<1> QED
  BY <1>0, <1>1, <1>4, <1>5, <1>6, <1>7, Keeps

\* The registration moves: the old node goes, a new one is made when there is
\* a selector and a listener.
LEMMA Moves ==
    ASSUME SocketInv, NEW s \in Sock, NEW r \in SocketMembers, NEW e,
           sock[s].mFd # NoFd, sock[s].mSelector \/ ~ Registered(sock[s]),
           r.mFd = sock[s].mFd, r.kind = sock[s].kind, r.mConnected = TRUE,
           sock' = [sock EXCEPT ![s] = r], UNCHANGED <<kernel, calling>>,
           watch' = LET w == IF sock[s].mSelector THEN RemoveListener(watch, sock[s].mFd) ELSE watch
                    IN  IF r.mSelector /\ r.mListener THEN AddListener(w, sock[s].mFd, e, s) ELSE w
    PROVE  SocketInv'
<1>1. PICK w : w = IF sock[s].mSelector THEN RemoveListener(watch, sock[s].mFd) ELSE watch
  OBVIOUS
<1>2. w = {n \in watch : n.sock # s}
  <2>1. CASE sock[s].mSelector
    BY <1>1, <2>1, RemovedByFd
  <2>2. CASE ~ sock[s].mSelector
    BY <1>1, <2>2, NoNode
  <2> QED  BY <2>1, <2>2
<1>3. watch' = IF r.mSelector /\ r.mListener THEN AddListener(w, sock[s].mFd, e, s) ELSE w
  BY <1>1
<1>4. WatchFits(watch', s, r)
  <2>1. CASE r.mSelector /\ r.mListener
    <3>1. watch' = {n \in watch : n.sock # s} \cup {[fd |-> r.mFd, sock |-> s, events |-> e]}
      BY <1>2, <1>3, <2>1 DEF AddListener
    <3>2. Registered(r)
      BY <2>1 DEF Registered
    <3> QED  BY <3>1, <3>2, WatchAdded
  <2>2. CASE ~ (r.mSelector /\ r.mListener)
    <3>1. watch' = {n \in watch : n.sock # s}
      BY <1>2, <1>3, <2>2
    <3>2. ~ Registered(r)
      BY <2>2 DEF Registered
    <3> QED  BY <3>1, <3>2, WatchRemoved
  <2> QED  BY <2>1, <2>2
<1>5. kernel' \in [SockFd -> Connection]
  BY DEF SocketInv, SocketTypes
<1>6. \A f \in SockFd : kernel'[f].state # "free" <=> kernel[f].state # "free"
  OBVIOUS
<1>7. UNCHANGED calling /\ (r.mConnected => r.mFd # NoFd)
  OBVIOUS
<1> QED
  BY <1>4, <1>5, <1>6, <1>7, Keeps

LEMMA SelectorStep ==
    ASSUME SocketInv, NEW s \in Sock, NEW listener \in BOOLEAN, NEW selector \in BOOLEAN,
           SetSelector(s, listener, selector)
    PROVE  SocketInv'
<1>0. sock[s] \in SocketMembers /\ kernel \in [SockFd -> Connection]
  BY DEF SocketInv, SocketTypes
<1>1. PICK r : r = [sock[s] EXCEPT !.mListener = listener, !.mSelector = selector]
  OBVIOUS
<1>2. /\ r \in SocketMembers /\ r.mFd = sock[s].mFd /\ r.mConnected = sock[s].mConnected /\ r.kind = sock[s].kind
      /\ r.mSelector = selector /\ r.mListener = listener
  <2>1. PICK l \in Flag : l = listener
    BY DEF Flag
  <2>2. PICK c \in Flag : c = selector
    BY DEF Flag
  <2>3. r = [sock[s] EXCEPT !.mListener = l, !.mSelector = c]
    BY <1>1, <2>1, <2>2, Zenon
  <2>4. /\ r \in SocketMembers /\ r.mFd = sock[s].mFd /\ r.mConnected = sock[s].mConnected /\ r.kind = sock[s].kind
        /\ r.mSelector = c /\ r.mListener = l
    BY <1>0, <2>3 DEF SocketMembers
  <2> QED  BY <2>1, <2>2, <2>4, Zenon
<1>3. sock' = [sock EXCEPT ![s] = r] /\ UNCHANGED <<kernel, calling>>
  BY <1>1 DEF SetSelector
<1>4. CASE sock[s].mConnected
  <2>1. sock[s].mConnected = TRUE
    <3>1. sock[s].mConnected \in BOOLEAN
      BY <1>0, MemberTypes DEF Flag
    <3> QED  BY <1>4, <3>1
  <2>2. sock[s].mFd # NoFd /\ (sock[s].mSelector \/ ~ Registered(sock[s]))
    BY <1>4 DEF SocketInv, MembersAgree, Registered
  <2>3. watch' = LET w == IF sock[s].mSelector THEN RemoveListener(watch, sock[s].mFd) ELSE watch
                 IN  IF r.mSelector /\ r.mListener THEN AddListener(w, sock[s].mFd, {"in"}, s) ELSE w
    BY <1>2, <1>4 DEF SetSelector
  <2> QED  BY <1>2, <1>3, <2>1, <2>2, <2>3, Moves
<1>5. CASE ~ sock[s].mConnected
  <2>1. watch' = watch
    BY <1>5 DEF SetSelector
  <2>2. WatchFits(watch', s, r)
    BY <1>2, <1>5, <2>1, WatchKept DEF Registered
  <2>3. r.mConnected => r.mFd # NoFd
    BY <1>2, <1>5
  <2> QED  BY <1>0, <1>2, <1>3, <2>2, <2>3, Keeps
<1> QED
  BY <1>4, <1>5

LEMMA ReaderSelectorStep ==
    ASSUME SocketInv, NEW s \in Sock, NEW selector \in BOOLEAN, ReaderSetSelector(s, selector)
    PROVE  SocketInv'
<1>0. sock[s] \in SocketMembers
  BY DEF SocketInv, SocketTypes
<1>1. PICK r : r = [sock[s] EXCEPT !.mSelector = selector, !.mListener = TRUE, !.mConnected = TRUE]
  OBVIOUS
<1>2. /\ r \in SocketMembers /\ r.mFd = sock[s].mFd /\ r.mConnected = TRUE /\ r.kind = sock[s].kind
      /\ r.mSelector = selector /\ r.mListener = TRUE
  <2>1. selector \in Flag
    BY DEF Flag
  <2> QED  BY <1>0, <1>1, <2>1, ReaderMembers
<1>3. sock' = [sock EXCEPT ![s] = r] /\ UNCHANGED <<kernel, calling>> /\ sock[s].mFd # NoFd
  BY <1>1 DEF ReaderSetSelector
<1>4. sock[s].mSelector \/ ~ Registered(sock[s])
  BY DEF Registered
<1>5. watch' = LET w == IF sock[s].mSelector THEN RemoveListener(watch, sock[s].mFd) ELSE watch
               IN  IF r.mSelector /\ r.mListener THEN AddListener(w, sock[s].mFd, {"in"}, s) ELSE w
  BY <1>2 DEF ReaderSetSelector
<1> QED
  BY <1>2, <1>3, <1>4, <1>5, Moves

LEMMA ConnectedStep ==
    ASSUME SocketInv, NEW n \in watch, ProcessConnected(n)
    PROVE  SocketInv'
<1>0. PICK s \in Sock : s = n.sock /\ n.fd = sock[s].mFd /\ Registered(sock[s])
  BY DEF SocketInv, WatchIsRegistered
<1>1. sock[s] \in SocketMembers /\ sock[s].mFd # NoFd /\ kernel \in [SockFd -> Connection]
  BY <1>0 DEF SocketInv, SocketTypes, MembersAgree, Registered
<1>2. PICK r : r = [sock[s] EXCEPT !.mConnectedAsync = FALSE]
  OBVIOUS
<1>3. /\ r \in SocketMembers /\ r.mFd = sock[s].mFd /\ r.mConnected = sock[s].mConnected /\ r.kind = sock[s].kind
      /\ r.mSelector = sock[s].mSelector /\ r.mListener = sock[s].mListener
  BY <1>1, <1>2, Flags, AsyncMembers
<1>4. /\ sock' = [sock EXCEPT ![s] = r] /\ UNCHANGED <<kernel, calling>>
      /\ watch' = AddListener(RemoveListener(watch, sock[s].mFd), sock[s].mFd, {"in"}, s)
  BY <1>0, <1>2 DEF ProcessConnected
<1>5. watch' = {m \in watch : m.sock # s} \cup {[fd |-> r.mFd, sock |-> s, events |-> {"in"}]}
  BY <1>1, <1>3, <1>4, RemovedByFd DEF AddListener
<1>6. Registered(r)
  BY <1>0, <1>3 DEF Registered
<1>7. WatchFits(watch', s, r)
  BY <1>5, <1>6, WatchAdded
<1>8. r.mConnected => r.mFd # NoFd
  BY <1>1, <1>3
<1> QED
  BY <1>1, <1>3, <1>4, <1>7, <1>8, Keeps

\* Only what the listener is asked changes.
LEMMA OnlyAsks ==
    ASSUME SocketInv, UNCHANGED <<sock, kernel, watch>>, calling' = NoCall \/ calling'.sock \in Sock
    PROVE  SocketInv'
<1>1. SocketTypes'
  BY DEF SocketInv, SocketTypes
<1> QED
  BY <1>1, NoneChanges

LEMMA AskClose ==
    ASSUME SocketInv, NEW n \in watch, ProcessClose(n)
    PROVE  SocketInv'
<1>1. n.sock \in Sock
  BY DEF SocketInv, WatchIsRegistered
<1>2. UNCHANGED <<sock, kernel, watch>> /\ calling' = [what |-> "handleClose", sock |-> n.sock, server |-> n.sock]
  BY DEF ProcessClose
<1>3. calling'.sock \in Sock
  BY <1>1, <1>2
<1> QED
  BY <1>2, <1>3, OnlyAsks

LEMMA ListenerReturns ==
    ASSUME SocketInv, HandleCloseReturns \/ HandleAcceptReturns
    PROVE  SocketInv'
<1>1. calling.what # NoCall.what /\ calling' = NoCall
  BY DEF HandleCloseReturns, HandleAcceptReturns, NoCall
<1>2. PICK s \in Sock : s = calling.sock
  BY <1>1 DEF SocketInv, SocketTypes
<1>3. CASE UNCHANGED <<sock, kernel, watch>>
  BY <1>1, <1>3, OnlyAsks
<1>4. CASE CloseSocket(s)
  BY <1>1, <1>4, CloseSteps
<1>5. CASE /\ sock' = [sock EXCEPT ![s] = Gone]
           /\ watch' = IF sock[s].mFd = NoFd THEN watch ELSE SetConnected(watch, s, sock[s], FALSE, {})
           /\ kernel' = [f \in SockFd |-> IF f = sock[s].mFd THEN Closed ELSE kernel[f]]
  BY <1>1, <1>5, DeleteSteps
<1>6. CASE HandleCloseReturns
  BY <1>2, <1>3, <1>4, <1>6 DEF HandleCloseReturns
<1>7. CASE HandleAcceptReturns
  BY <1>2, <1>3, <1>5, <1>7 DEF HandleAcceptReturns
<1> QED
  BY <1>6, <1>7

LEMMA SocketStarts == SocketInit => SocketInv
<1> SUFFICES ASSUME SocketInit PROVE SocketInv
  OBVIOUS
<1>1. /\ sock = [s \in Sock |-> Gone] /\ kernel = [f \in SockFd |-> Closed]
      /\ watch = {} /\ calling = NoCall
  BY DEF SocketInit
<1>2. Closed \in Connection /\ Closed.state = "free"
  BY Flags DEF Closed, Connection, ConnectionState
<1>3. SocketTypes
  BY <1>1, <1>2, GoneMembers DEF SocketTypes
<1>4. \A s \in Sock : sock[s] = Gone
  BY <1>1
<1>5. MembersAgree
  BY <1>4, GoneMembers DEF MembersAgree
<1>6. \A f \in SockFd : f # NoFd
  BY SocketAssumption DEF SockFd, NoFd
<1>7. OpenIsOwned
  BY <1>1, <1>2, <1>4, <1>6, GoneMembers DEF OpenIsOwned
<1>8. WatchIsRegistered
  BY <1>1, <1>4, GoneMembers DEF WatchIsRegistered, Registered
<1> QED
  BY <1>3, <1>5, <1>7, <1>8 DEF SocketInv

LEMMA SocketStep == SocketInv /\ [SocketNext]_sockVars => SocketInv'
<1> SUFFICES ASSUME SocketInv, [SocketNext]_sockVars PROVE SocketInv'
  OBVIOUS
<1>1. CASE UNCHANGED sockVars
  <2>1. UNCHANGED <<sock, kernel, watch, calling>>
    BY <1>1 DEF sockVars
  <2> QED  BY <2>1, NoneChanges DEF SocketInv, SocketTypes
<1>2. ASSUME NEW s \in Sock, DeleteSocket(s) PROVE SocketInv'
  <2>1. /\ sock' = [sock EXCEPT ![s] = Gone]
        /\ watch' = IF sock[s].mFd = NoFd THEN watch ELSE SetConnected(watch, s, sock[s], FALSE, {})
        /\ kernel' = [f \in SockFd |-> IF f = sock[s].mFd THEN Closed ELSE kernel[f]]
        /\ UNCHANGED calling
    BY <1>2 DEF DeleteSocket
  <2> QED  BY <2>1, DeleteSteps
<1>3. ASSUME NEW s \in Sock, CloseCall(s) PROVE SocketInv'
  BY <1>3, CloseSteps DEF CloseCall
<1> QED
  BY <1>1, <1>2, <1>3, KernelSteps, NewStep, ConnectSteps, TransferSteps, AsyncStep, SelectorStep,
     GroupSteps, ReaderSelectorStep, ReaderCloseStep, ConnectedStep, AskClose, AcceptStep, ListenerReturns
  DEF SocketNext

\* The property follows.
LEMMA OwnedFollows == SocketInv => DescriptorsAreOwned
<1> SUFFICES ASSUME SocketInv PROVE DescriptorsAreOwned
  OBVIOUS
<1>1. {n.sock : n \in watch} = {s \in Sock : sock[s].mConnected /\ sock[s].mSelector /\ sock[s].mListener}
  BY DEF SocketInv, WatchIsRegistered, Registered
<1>2. /\ \A n \in watch : n.fd = sock[n.sock].mFd
      /\ \A n, m \in watch : n.sock = m.sock => n = m
  BY DEF SocketInv, WatchIsRegistered
<1>3. ASSUME NEW f \in SockFd
      PROVE  kernel[f].state # "free" <=> Cardinality({s \in Sock : sock[s].mFd = f}) = 1
  <2> DEFINE O == {s \in Sock : sock[s].mFd = f}
  <2>0. f # NoFd
    BY SocketAssumption DEF SockFd, NoFd
  <2>1. CASE kernel[f].state # "free"
    <3>1. PICK s \in Sock : sock[s].mFd = f
      BY <2>1 DEF SocketInv, OpenIsOwned
    <3>2. O = {s}
      BY <2>0, <3>1 DEF SocketInv, MembersAgree
    <3> HIDE DEF O
    <3>3. Cardinality(O) = 1
      BY <3>2, FS_Singleton
    <3> QED  BY <2>1, <3>3 DEF O
  <2>2. CASE kernel[f].state = "free"
    <3>1. O = {}
      BY <2>2 DEF SocketInv, OpenIsOwned
    <3> HIDE DEF O
    <3>2. Cardinality(O) = 0
      BY <3>1, FS_EmptySet
    <3> QED  BY <2>2, <3>2 DEF O
  <2> QED  BY <2>1, <2>2
<1> QED
  BY <1>1, <1>2, <1>3 DEF DescriptorsAreOwned

\* Descriptors are always owned: whatever the objects, the listeners and the
\* kernel do, in whatever order, a descriptor is in the selector exactly while
\* the connected object that has it, a selector and a listener is alive, once
\* and under that object, and no open descriptor is leaked or shared
\* (Socket.cpp close, setConnected and setSelector).
THEOREM DescriptorsAlwaysOwned == SocketSpec => []DescriptorsAreOwned
<1>1. SocketInit => SocketInv
  BY SocketStarts
<1>2. SocketInv /\ [SocketNext]_sockVars => SocketInv'
  BY SocketStep
<1>3. SocketInv => DescriptorsAreOwned
  BY OwnedFollows
<1> QED
  BY <1>1, <1>2, <1>3, PTL DEF SocketSpec

-----------------------------------------------------------------------------
(* Libraries and their services *)

ClassEntry == [mCid : Cid, mClass : Service]
EntriesOf(s) == {e \in ClassEntry : e.mClass = s}
ModuleEntry == [mName : Library, mModule : 0..MaxLoads]
EntriesOfLibrary(l) == {e \in ModuleEntry : e.mName = l}
Modules(l) == CountAt(mModules, 1..Len(mModules), EntriesOfLibrary(l))
Registrations(s) == CountAt(mClasses, 1..Len(mClasses), EntriesOf(s))
Clients(s) == CountAt(held, 1..Len(held), {s})

ComTypes ==
    /\ loads \in Seq(Library) /\ Len(loads) <= MaxLoads
    /\ mapped \in [Library -> Int]
    /\ mClasses \in Seq(ClassEntry)
    /\ held \in Seq(Service)
    /\ refCnt \in [Service -> Int]
    /\ mModules \in Seq(ModuleEntry)

\* A service is registered under the class id it was made for.
FiledByCid == \A i \in 1..Len(mClasses) : mClasses[i].mClass[2] = mClasses[i].mCid

CountsAgree == \A s \in Service : refCnt[s] = Registrations(s) + Clients(s)

\* A service that somebody refers to is of a load that was made, of a library
\* that is still open.
LiveIsMapped == \A s \in Service : refCnt[s] > 0 => s[1] <= Len(loads) /\ CodeMapped(s)

\* A library is open at least once for each entry of mModules.
EntriesAreOpen == \A l \in Library : mapped[l] >= Modules(l)

NoTrouble == trouble \cap Service = {}

ComInv == ComTypes /\ FiledByCid /\ CountsAgree /\ LiveIsMapped /\ EntriesAreOpen /\ NoTrouble

LEMMA ServiceParts ==
    ASSUME NEW s \in Service
    PROVE  s[1] \in 0..MaxLoads /\ s[2] \in Cid /\ s = <<s[1], s[2]>>
  BY DEF Service

\* A registered service is referred to, and so is one that a client holds.
LEMMA RegisteredIsLive ==
    ASSUME ComInv, NEW i \in 1..Len(mClasses)
    PROVE  mClasses[i].mClass \in Service /\ refCnt[mClasses[i].mClass] > 0 /\ CodeMapped(mClasses[i].mClass)
<1> USE DEF ComInv, ComTypes
<1>1. mClasses[i] \in ClassEntry
  BY ElementOfSeq
<1> PICK s : s = mClasses[i].mClass
  OBVIOUS
<1>2. s \in Service /\ mClasses[i] \in EntriesOf(s)
  BY <1>1 DEF ClassEntry, EntriesOf
<1>3. Registrations(s) \in Nat /\ Registrations(s) > 0
  BY <1>2, CountType, CountSome DEF Registrations
<1>4. Clients(s) \in Nat
  BY CountType DEF Clients
<1>5. refCnt[s] > 0
  BY <1>2, <1>3, <1>4 DEF CountsAgree
<1> QED
  BY <1>2, <1>5 DEF LiveIsMapped

LEMMA HeldIsLive ==
    ASSUME ComInv, NEW i \in 1..Len(held)
    PROVE  held[i] \in Service /\ refCnt[held[i]] > 0 /\ CodeMapped(held[i])
<1> USE DEF ComInv, ComTypes
<1>1. held[i] \in Service
  BY ElementOfSeq
<1> PICK s : s = held[i]
  OBVIOUS
<1>2. s \in Service /\ held[i] \in {s}
  BY <1>1
<1>3. Clients(s) \in Nat /\ Clients(s) > 0
  BY <1>2, CountType, CountSome DEF Clients
<1>4. Registrations(s) \in Nat
  BY CountType DEF Registrations
<1>5. refCnt[s] > 0
  BY <1>2, <1>3, <1>4 DEF CountsAgree
<1> QED
  BY <1>2, <1>5 DEF LiveIsMapped

\* The loop over mClasses finds an entry of the class id, if there is one.
LEMMA FoundByCid ==
    ASSUME ComTypes, NEW c
    PROVE  \/ ClassAt(c) = 0 /\ \A i \in 1..Len(mClasses) : mClasses[i].mCid # c
           \/ ClassAt(c) \in 1..Len(mClasses) /\ mClasses[ClassAt(c)].mCid = c
<1> DEFINE I == {i \in 1..Len(mClasses) : mClasses[i].mCid = c}
<1>1. ClassAt(c) = IF I # {} THEN Min(I) ELSE 0
  BY DEF ClassAt, SelectInSeq
<1>2. I \in SUBSET Nat
  BY LenProperties DEF ComTypes
<1>3. I # {} => Min(I) \in I
  <2> HIDE DEF I
  <2> QED  BY <1>2, LeastIsMember
<1> QED
  BY <1>1, <1>3

LEMMA ComStarts == ComInit => ComInv
<1> SUFFICES ASSUME ComInit PROVE ComInv
  OBVIOUS
<1>1. /\ mClasses \in Seq(ClassEntry) /\ held \in Seq(Service) /\ loads \in Seq(Library)
      /\ mModules \in Seq(ModuleEntry)
  BY EmptySeq DEF ComInit
<1>2. Len(mClasses) = 0 /\ Len(held) = 0 /\ Len(loads) = 0 /\ Len(mModules) = 0
  BY EmptySeq DEF ComInit
<1>3. \A s : Registrations(s) = 0 /\ Clients(s) = 0
  BY CountEmpty DEF Registrations, Clients, ComInit
<1>4. \A l \in Library : Modules(l) = 0
  BY CountEmpty DEF Modules, ComInit
<1>5. ComTypes
  BY <1>1, <1>2, ComponentsAssumption DEF ComInit, ComTypes
<1> QED
  BY <1>2, <1>3, <1>4, <1>5 DEF ComInit, ComInv, FiledByCid, CountsAgree, LiveIsMapped, EntriesAreOpen, NoTrouble

\* Calls of services that are referred to and whose library is open do no harm.
LEMMA HarmlessCalls ==
    ASSUME NEW D, \A s \in D : CodeMapped(s) /\ refCnt[s] # 0, Calls(D)
    PROVE  trouble' = trouble
<1>1. {s \in D : ~CodeMapped(s) \/ refCnt[s] = 0} = {}
  OBVIOUS
<1> QED
  BY <1>1 DEF Calls

\* AddService of different class ids, by the program or by one load.
LEMMA ServicesAdded ==
    ASSUME ComTypes, FiledByCid, NEW n \in 0..MaxLoads, NEW cids \in Seq(Cid),
           \A i, k \in 1..Len(cids) : cids[i] = cids[k] => i = k,
           AddServices(n, cids)
    PROVE  /\ mClasses' \in Seq(ClassEntry) /\ FiledByCid'
           /\ refCnt' \in [Service -> Int]
           /\ \A s \in Service : refCnt'[s] - refCnt[s] = Registrations(s)' - Registrations(s)
           /\ \A s \in Service : s[1] # n => refCnt'[s] = refCnt[s]
<1> DEFINE t == [i \in 1..Len(cids) |-> [mCid |-> cids[i], mClass |-> <<n, cids[i]>>]]
<1>0. DOMAIN cids = 1..Len(cids) /\ Len(cids) \in Nat /\ (\A i \in 1..Len(cids) : cids[i] \in Cid)
      /\ Len(mClasses) \in Nat
  BY LenProperties, ElementOfSeq DEF ComTypes
<1>1. mClasses' = mClasses \o t
  BY <1>0 DEF AddServices
<1>2. refCnt' = [s \in Service |-> IF s[1] = n /\ s[2] \in ToSet(cids) THEN refCnt[s] + 1 ELSE refCnt[s]]
  BY DEF AddServices
<1>3. t \in Seq(ClassEntry) /\ Len(t) = Len(cids)
  BY <1>0 DEF ClassEntry, Service
<1>4. \A i \in 1..Len(t) : t[i] = [mCid |-> cids[i], mClass |-> <<n, cids[i]>>]
  BY <1>3
<1> HIDE DEF t
<1>4a. ASSUME NEW i \in 1..Len(t) PROVE t[i].mClass = <<n, cids[i]>>
  <2> PICK s : s = <<n, cids[i]>>
    OBVIOUS
  <2>1. t[i] = [mCid |-> cids[i], mClass |-> s]
    BY <1>4
  <2>2. t[i].mClass = s
    BY <2>1
  <2> QED  BY <2>2
<1>5. mClasses \in Seq(ClassEntry)
  BY DEF ComTypes
<1>6. /\ mClasses' \in Seq(ClassEntry) /\ Len(mClasses') = Len(mClasses) + Len(t)
      /\ \A i \in 1..Len(mClasses) : mClasses'[i] = mClasses[i]
      /\ \A i \in 1..Len(t) : mClasses'[Len(mClasses) + i] = t[i]
  <2>1. PICK q \in Seq(ClassEntry) : q = mClasses
    BY <1>5
  <2>2. PICK u \in Seq(ClassEntry) : u = t
    BY <1>3
  <2>3. q \o u \in Seq(ClassEntry) /\ Len(q \o u) = Len(q) + Len(u)
    BY ConcatPlaces
  <2>4. \A i \in 1..Len(q) : (q \o u)[i] = q[i]
    BY ConcatPlaces
  <2>5. \A i \in 1..Len(u) : (q \o u)[Len(q) + i] = u[i]
    BY ConcatPlaces
  <2>6. mClasses' = q \o u
    BY <1>1, <2>1, <2>2
  <2> HIDE <2>1, <2>2
  <2> QED  BY <2>1, <2>2, <2>3, <2>4, <2>5, <2>6
<1>7. FiledByCid'
  <2> SUFFICES ASSUME NEW i \in 1..Len(mClasses') PROVE mClasses'[i].mClass[2] = mClasses'[i].mCid
    BY DEF FiledByCid
  <2>1. CASE i \in 1..Len(mClasses)
    BY <1>6, <2>1 DEF FiledByCid
  <2>2. CASE i \notin 1..Len(mClasses)
    <3>1. i - Len(mClasses) \in 1..Len(t) /\ Len(mClasses) + (i - Len(mClasses)) = i
      BY <1>0, <1>3, <1>6, <2>2
    <3> PICK k \in 1..Len(t) : Len(mClasses) + k = i
      BY <3>1
    <3>2. mClasses'[i] = [mCid |-> cids[k], mClass |-> <<n, cids[k]>>]
      BY <1>4, <1>6
    <3> QED  BY <3>2
  <2> QED  BY <2>1, <2>2
<1>8. ASSUME NEW s \in Service PROVE refCnt'[s] - refCnt[s] = Registrations(s)' - Registrations(s)
  <2>0. Registrations(s) \in Nat /\ Registrations(s)' = CountAt(mClasses \o t, 1..Len(mClasses \o t), EntriesOf(s))
    BY <1>1, <1>5, CountType DEF Registrations
  <2>1. CASE s[1] = n /\ s[2] \in ToSet(cids)
    <3>1. PICK i \in 1..Len(t) : cids[i] = s[2]
      BY <1>0, <1>3, <2>1 DEF ToSet
    <3>2. t[i] \in EntriesOf(s)
      <4>1. t[i] \in ClassEntry
        BY <1>3, ElementOfSeq
      <4>2. t[i].mClass = s
        <5>1. t[i].mClass = <<n, cids[i]>>
          BY <1>4a
        <5> QED  BY <5>1, <2>1, <3>1, ServiceParts
      <4> QED  BY <4>1, <4>2 DEF EntriesOf
    <3>3. ASSUME NEW k \in 1..Len(t), t[k] \in EntriesOf(s) PROVE k = i
      <4>1. <<n, cids[k]>> = s
        <5>1. t[k].mClass = <<n, cids[k]>>
          BY <1>4a
        <5>2. t[k].mClass = s
          BY <3>3 DEF EntriesOf
        <5> QED  BY <5>1, <5>2
      <4>2. cids[k] = s[2]
        BY <4>1
      <4> QED  BY <4>2, <3>1, <1>3
    <3>4. Registrations(s)' = Registrations(s) + 1
      BY <1>3, <1>5, <2>0, <3>2, <3>3, CountConcatOne DEF Registrations
    <3> QED  BY <1>2, <2>0, <2>1, <3>4 DEF ComTypes
  <2>2. CASE ~(s[1] = n /\ s[2] \in ToSet(cids))
    <3>1. ASSUME NEW k \in 1..Len(t) PROVE t[k] \notin EntriesOf(s)
      <4>1. SUFFICES ASSUME t[k] \in EntriesOf(s) PROVE FALSE
        OBVIOUS
      <4>2. <<n, cids[k]>> = s
        <5>1. t[k].mClass = <<n, cids[k]>>
          BY <1>4a
        <5>2. t[k].mClass = s
          BY <4>1 DEF EntriesOf
        <5> QED  BY <5>1, <5>2
      <4>3. cids[k] = s[2] /\ n = s[1]
        BY <4>2
      <4> QED  BY <4>3, <2>2, <1>0, <1>3 DEF ToSet
    <3>2. Registrations(s)' = Registrations(s)
      BY <1>3, <1>5, <2>0, <3>1, CountConcatNone DEF Registrations
    <3> QED  BY <1>2, <2>0, <2>2, <3>2 DEF ComTypes
  <2> QED  BY <2>1, <2>2
<1>9. refCnt' \in [Service -> Int] /\ \A s \in Service : s[1] # n => refCnt'[s] = refCnt[s]
  BY <1>2 DEF ComTypes
<1> QED
  BY <1>6, <1>7, <1>8, <1>9

\* RemoveService of each class id in a set.
LEMMA ServicesRemoved ==
    ASSUME ComInv, NEW cids, RemoveServices(cids)
    PROVE  /\ mClasses' \in Seq(ClassEntry) /\ FiledByCid'
           /\ refCnt' \in [Service -> Int]
           /\ \A s \in Service : refCnt'[s] - refCnt[s] = Registrations(s)' - Registrations(s)
           /\ \A s \in Service : refCnt'[s] <= refCnt[s]
           /\ trouble' = trouble
<1> DEFINE gone == {ClassAt(c) : c \in {d \in cids : ClassAt(d) # 0}}
           dead == {mClasses[i].mClass : i \in gone}
           K == (1..Len(mClasses)) \ gone
<1>0. mClasses \in Seq(ClassEntry) /\ DOMAIN mClasses = 1..Len(mClasses) /\ ComTypes
      /\ refCnt \in [Service -> Int] /\ FiledByCid
  BY LenProperties DEF ComInv, ComTypes
<1>1. mClasses' = KeepPlaces(mClasses, K)
  BY <1>0 DEF RemoveServices
<1>2. refCnt' = [s \in Service |-> IF s \in dead THEN refCnt[s] - 1 ELSE refCnt[s]]
  BY DEF RemoveServices
<1>3. Calls(dead)
  BY DEF RemoveServices
<1>4. \A i \in gone : i \in 1..Len(mClasses) /\ i = ClassAt(mClasses[i].mCid)
  BY <1>0, FoundByCid
<1> HIDE DEF gone
<1>5. trouble' = trouble
  <2>1. \A s \in dead : CodeMapped(s) /\ refCnt[s] # 0
    BY <1>0, <1>4, RegisteredIsLive
  <2> HIDE DEF dead
  <2> QED  BY <1>3, <2>1, HarmlessCalls
<1>6. K \in SUBSET (1..Len(mClasses))
  OBVIOUS
<1> HIDE DEF K
<1>7. /\ mClasses' \in Seq(ClassEntry)
      /\ \A k \in 1..Len(mClasses') : \E i \in K : mClasses'[k] = mClasses[i]
  <2>1. mClasses' \in Seq(ClassEntry)
    BY <1>0, <1>1, <1>6, KeptPlaces
  <2>2. \A k \in 1..Len(mClasses') : \E i \in K : mClasses'[k] = mClasses[i]
    BY <1>0, <1>1, <1>6, KeptElements
  <2> QED  BY <2>1, <2>2
<1>8. FiledByCid'
  BY <1>6, <1>7, <1>0 DEF FiledByCid
<1>9. ASSUME NEW s \in Service PROVE refCnt'[s] - refCnt[s] = Registrations(s)' - Registrations(s)
  <2> DEFINE A == {i \in 1..Len(mClasses) : mClasses[i] \in EntriesOf(s)}
             B == {i \in K : mClasses[i] \in EntriesOf(s)}
             g == ClassAt(s[2])
  <2>1. Registrations(s)' = Cardinality(B)
    <3>1. CountAt(mClasses', 1..Len(mClasses'), EntriesOf(s)) = CountAt(mClasses, K, EntriesOf(s))
      BY <1>0, <1>1, <1>6, CountOfKept
    <3> QED  BY <3>1 DEF Registrations, CountAt
  <2>2. Registrations(s) = Cardinality(A)
    BY DEF Registrations, CountAt
  <2>3. IsFiniteSet(A) /\ Cardinality(A) \in Nat
    <3>1. IsFiniteSet(1..Len(mClasses))
      BY <1>0, LenProperties, IntervalSize
    <3>2. IsFiniteSet(A)
      BY <3>1, FS_Subset
    <3> HIDE DEF A
    <3> QED  BY <3>2, FS_CardinalityType
  <2>4. \A i \in 1..Len(mClasses) : mClasses[i] \in EntriesOf(s) <=> mClasses[i].mClass = s
    BY <1>0, ElementOfSeq DEF EntriesOf
  <2>5. ASSUME NEW i \in gone, mClasses[i].mClass = s PROVE i = g
    BY <1>0, <1>4, <2>5 DEF FiledByCid
  <2>6. B = A \ gone
    BY DEF K
  <2>7. CASE s \in dead
    <3>1. g \in gone /\ mClasses[g].mClass = s
      BY <2>5, <2>7
    <3>2. g \in A
      BY <3>1, <2>4, <1>4
    <3>3. B = A \ {g}
      BY <2>4, <2>5, <2>6, <3>1
    <3> HIDE DEF A, B, g
    <3>4. Cardinality(B) = Cardinality(A) - 1
      BY <2>3, <3>2, <3>3, FS_RemoveElement
    <3> QED  BY <1>0, <1>2, <2>1, <2>2, <2>3, <2>7, <3>4
  <2>8. CASE s \notin dead
    <3>1. B = A
      BY <2>4, <2>6, <2>8
    <3> HIDE DEF A, B
    <3> QED  BY <1>0, <1>2, <2>1, <2>2, <2>3, <2>8, <3>1
  <2> QED  BY <2>7, <2>8
<1>10. refCnt' \in [Service -> Int] /\ \A s \in Service : refCnt'[s] <= refCnt[s]
  BY <1>0, <1>2
<1> QED
  BY <1>5, <1>7, <1>8, <1>9, <1>10

\* SetToSeq enumerates a finite set without repetition.
LEMMA Enumerated ==
    ASSUME NEW S, IsFiniteSet(S)
    PROVE  /\ SetToSeq(S) \in Seq(S)
           /\ \A i, k \in 1..Len(SetToSeq(S)) : SetToSeq(S)[i] = SetToSeq(S)[k] => i = k
<1> DEFINE n == Cardinality(S)  f == SetToSeq(S)
<1>1. n \in Nat /\ ExistsBijection(1..n, S)
  BY FS_CardinalityType
<1>2. \E g \in [1..n -> S] : IsInjective(g)
  BY <1>1 DEF ExistsBijection, Bijection, Injection, IsInjective
<1>3. f \in [1..n -> S] /\ IsInjective(f)
  BY <1>2 DEF SetToSeq
<1> HIDE DEF n, f
<1>4. f \in Seq(S) /\ Len(f) = n
  BY <1>1, <1>3
<1>5. \A i, k \in 1..Len(f) : f[i] = f[k] => i = k
  BY <1>3, <1>4 DEF IsInjective
<1> QED
  BY <1>4, <1>5 DEF f

\* Where the counts of the services and of the registrations change alike, and
\* the clients' references not, they agree as before.
LEMMA AgreeAlike ==
    ASSUME ComInv, held' = held,
           \A s \in Service : refCnt'[s] - refCnt[s] = Registrations(s)' - Registrations(s),
           mClasses' \in Seq(ClassEntry), refCnt' \in [Service -> Int]
    PROVE  CountsAgree'
<1> SUFFICES ASSUME NEW s \in Service PROVE refCnt'[s] = Registrations(s)' + Clients(s)'
  BY DEF CountsAgree
<1>1. Registrations(s) \in Nat /\ Clients(s) \in Nat
  BY CountType DEF ComInv, ComTypes, Registrations, Clients
<1>2. Registrations(s)' \in Nat
  BY CountType DEF Registrations
<1>3. Clients(s)' = Clients(s)
  BY DEF Clients
<1>4. refCnt[s] \in Int /\ refCnt'[s] \in Int /\ refCnt[s] = Registrations(s) + Clients(s)
  BY DEF ComInv, ComTypes, CountsAgree
<1>5. refCnt'[s] - refCnt[s] = Registrations(s)' - Registrations(s)
  OBVIOUS
<1> QED
  BY <1>1, <1>2, <1>3, <1>4, <1>5

\* Fewer references: what is live was live.
LEMMA StillMapped ==
    ASSUME ComInv, UNCHANGED <<loads, mapped>>,
           \A s \in Service : refCnt'[s] <= refCnt[s], refCnt' \in [Service -> Int]
    PROVE  LiveIsMapped'
<1> SUFFICES ASSUME NEW s \in Service, refCnt'[s] > 0 PROVE (s[1] <= Len(loads) /\ CodeMapped(s))'
  BY DEF LiveIsMapped
<1>1. refCnt[s] > 0
  <2>1. refCnt[s] \in Int /\ refCnt'[s] \in Int /\ refCnt'[s] <= refCnt[s]
    BY DEF ComInv, ComTypes
  <2> QED  BY <2>1
<1> QED
  BY <1>1 DEF ComInv, LiveIsMapped, CodeMapped

LEMMA ModuleCounts ==
    ASSUME ComTypes, NEW l
    PROVE  Modules(l) \in Nat
  BY CountType DEF ComTypes, Modules

\* LoadLibrary.
LEMMA LoadStep ==
    ASSUME ComInv, NEW l \in Library, LoadLibrary(l)
    PROVE  ComInv'
<1> USE DEF ComInv
<1> PICK n : n = Len(loads) + 1
  OBVIOUS
<1>1. Len(loads) \in Nat /\ n \in 0..MaxLoads /\ n \in Nat /\ loads' = Append(loads, l)
  BY LenProperties, ComponentsAssumption DEF LoadLibrary, ComTypes
<1>2. /\ loads' \in Seq(Library) /\ Len(loads') = n /\ Len(loads') <= MaxLoads /\ loads'[n] = l
      /\ \A k \in 1..Len(loads) : loads'[k] = loads[k]
  BY <1>1, AppendProperties DEF ComTypes
<1>3. mapped' \in [Library -> Int] /\ mapped'[l] = mapped[l] + 1 /\ \A k \in Library \ {l} : mapped'[k] = mapped[k]
  BY DEF LoadLibrary, ComTypes
<1>4. held' = held /\ trouble' = trouble
  BY DEF LoadLibrary
<1>5. mapped \in [Library -> Int] /\ mapped[l] >= 0
  BY ModuleCounts DEF ComTypes, EntriesAreOpen
<1>6. \/ AddServices(n, SetToSeq(Provides[l])) /\ mModules' = Append(mModules, [mName |-> l, mModule |-> n])
      \/ UNCHANGED <<mClasses, refCnt, mModules>>
  BY DEF LoadLibrary
<1>7. /\ mClasses' \in Seq(ClassEntry) /\ FiledByCid'
      /\ refCnt' \in [Service -> Int]
      /\ \A s \in Service : refCnt'[s] - refCnt[s] = Registrations(s)' - Registrations(s)
      /\ \A s \in Service : s[1] # n => refCnt'[s] = refCnt[s]
  <2>1. CASE AddServices(n, SetToSeq(Provides[l]))
    <3>1. Provides[l] \in SUBSET Cid /\ IsFiniteSet(Cid)
      BY ComponentsAssumption
    <3>2. IsFiniteSet(Provides[l])
      BY <3>1, FS_Subset
    <3> PICK c : c = SetToSeq(Provides[l])
      OBVIOUS
    <3>3. c \in Seq(Cid)
      <4>1. c \in Seq(Provides[l])
        BY <3>2, Enumerated
      <4> QED  BY <3>1, <4>1
    <3>4. \A i, k \in 1..Len(c) : c[i] = c[k] => i = k
      BY <3>2, Enumerated
    <3> QED  BY <1>1, <2>1, <3>3, <3>4, ServicesAdded
  <2>2. CASE UNCHANGED <<mClasses, refCnt, mModules>>
    <3>1. \A s \in Service : refCnt[s] \in Int /\ Registrations(s) \in Nat
      BY CountType DEF ComTypes, Registrations
    <3>2. \A s \in Service : Registrations(s)' = Registrations(s)
      BY <2>2 DEF Registrations
    <3> QED  BY <2>2, <3>1, <3>2 DEF ComTypes, FiledByCid
  <2> QED  BY <1>6, <2>1, <2>2
<1>8. ASSUME NEW s \in Service, refCnt'[s] > 0 PROVE (s[1] <= Len(loads) /\ CodeMapped(s))'
  <2>0. s[1] \in Nat
    BY ServiceParts, ComponentsAssumption
  <2>1. CASE s[1] = n
    BY <1>1, <1>2, <1>3, <1>5, <2>1 DEF CodeMapped
  <2>2. CASE s[1] # n
    <3>1. s[1] <= Len(loads) /\ CodeMapped(s)
      BY <1>7, <1>8, <2>2 DEF LiveIsMapped
    <3>2. s[1] <= Len(loads')
      BY <1>1, <1>2, <2>0, <3>1
    <3>3. CASE s[1] = 0
      BY <3>2, <3>3 DEF CodeMapped
    <3>4. CASE s[1] # 0
      <4>1. s[1] \in 1..Len(loads)
        BY <1>1, <2>0, <3>1, <3>4
      <4>2. loads'[s[1]] = loads[s[1]] /\ loads[s[1]] \in Library
        BY <1>2, <4>1, ElementOfSeq DEF ComTypes
      <4>3. mapped[loads[s[1]]] > 0
        BY <3>1, <3>4 DEF CodeMapped
      <4> PICK k \in Library : k = loads[s[1]]
        BY <4>2
      <4>4. mapped'[k] > 0
        BY <1>3, <1>5, <4>3
      <4> QED  BY <3>2, <4>2, <4>4 DEF CodeMapped
    <3> QED  BY <3>3, <3>4
  <2> QED  BY <2>1, <2>2
<1>9. mModules' \in Seq(ModuleEntry) /\ \A k \in Library : Modules(k)' <= Modules(k) + (IF k = l THEN 1 ELSE 0)
  <2>1. CASE mModules' = Append(mModules, [mName |-> l, mModule |-> n])
    <3> PICK e : e = [mName |-> l, mModule |-> n]
      OBVIOUS
    <3>1. e \in ModuleEntry /\ e.mName = l
      BY <1>1 DEF ModuleEntry
    <3>2. mModules' \in Seq(ModuleEntry)
      BY <2>1, <3>1, AppendProperties DEF ComTypes
    <3>3. ASSUME NEW k \in Library PROVE Modules(k)' = Modules(k) + (IF k = l THEN 1 ELSE 0)
      <4>1. e \in EntriesOfLibrary(k) <=> k = l
        BY <3>1 DEF EntriesOfLibrary
      <4>2. Modules(k)' = Modules(k) + (IF e \in EntriesOfLibrary(k) THEN 1 ELSE 0)
        BY <2>1, <3>1, CountAppended DEF ComTypes, Modules
      <4> QED  BY <4>1, <4>2
    <3>4. \A k \in Library : Modules(k) \in Nat
      BY ModuleCounts
    <3> QED  BY <3>2, <3>3, <3>4
  <2>2. CASE UNCHANGED <<mClasses, refCnt, mModules>>
    <3>1. \A k \in Library : Modules(k)' = Modules(k) /\ Modules(k) \in Nat
      BY <2>2, ModuleCounts DEF Modules
    <3> QED  BY <2>2, <3>1 DEF ComTypes
  <2> QED  BY <1>6, <2>1, <2>2
<1>10. ComTypes'
  BY <1>2, <1>3, <1>4, <1>7, <1>9 DEF ComTypes
<1>11. EntriesAreOpen'
  <2> SUFFICES ASSUME NEW k \in Library PROVE mapped'[k] >= Modules(k)'
    BY DEF EntriesAreOpen
  <2>1. Modules(k) \in Nat /\ Modules(k)' \in Nat /\ mapped[k] >= Modules(k)
    <3>1. Modules(k)' \in Nat
      BY <1>9, CountType DEF Modules
    <3> QED  BY <3>1, ModuleCounts DEF EntriesAreOpen
  <2> QED  BY <1>3, <1>5, <1>9, <2>1
<1>12. CountsAgree'
  BY <1>4, <1>7, AgreeAlike
<1> QED
  BY <1>4, <1>7, <1>8, <1>10, <1>11, <1>12 DEF LiveIsMapped, NoTrouble

\* RemoveModule.
LEMMA RemoveModuleStep ==
    ASSUME ComInv, NEW l \in Library, RemoveModule(l)
    PROVE  ComInv'
<1> USE DEF ComInv
<1> DEFINE I == {i \in 1..Len(mModules) : mModules[i].mName = l}
<1>1. PICK i : /\ i = IF I # {} THEN Min(I) ELSE 0
               /\ i # 0
               /\ RemoveServices(Provides[l])
               /\ mModules' = [mModules EXCEPT ![i].mModule = 0]
               /\ UNCHANGED <<loads, mapped, held, manager>>
  BY DEF RemoveModule, SelectInSeq
<1>2. i \in 1..Len(mModules)
  <2>1. I \in SUBSET Nat
    BY LenProperties DEF ComTypes
  <2>2. i \in I
    <3> HIDE DEF I
    <3> QED  BY <1>1, <2>1, LeastIsMember
  <2> QED  BY <2>2
<1>3. /\ mClasses' \in Seq(ClassEntry) /\ FiledByCid' /\ trouble' = trouble
      /\ refCnt' \in [Service -> Int]
      /\ \A s \in Service : refCnt'[s] - refCnt[s] = Registrations(s)' - Registrations(s)
      /\ \A s \in Service : refCnt'[s] <= refCnt[s]
  BY <1>1, ServicesRemoved
<1>4. mModules \in Seq(ModuleEntry) /\ mModules[i] \in ModuleEntry
  BY <1>2, ElementOfSeq DEF ComTypes
<1> PICK e : e = [mModules[i] EXCEPT !.mModule = 0]
  OBVIOUS
<1>5. e \in ModuleEntry /\ e.mName = mModules[i].mName
  BY <1>4, ComponentsAssumption DEF ModuleEntry
<1>6. mModules' = [mModules EXCEPT ![i] = e]
  BY <1>1
<1>7. mModules' \in Seq(ModuleEntry) /\ Len(mModules') = Len(mModules)
      /\ \A k \in 1..Len(mModules) : mModules'[k] = IF k = i THEN e ELSE mModules[k]
  BY <1>2, <1>4, <1>5, <1>6
<1>8. ASSUME NEW k \in Library PROVE Modules(k)' = Modules(k)
  <2>1. \A j \in 1..Len(mModules) : mModules'[j] \in EntriesOfLibrary(k) <=> mModules[j] \in EntriesOfLibrary(k)
    BY <1>4, <1>5, <1>7, ElementOfSeq DEF EntriesOfLibrary
  <2>2. {j \in 1..Len(mModules') : mModules'[j] \in EntriesOfLibrary(k)}
          = {j \in 1..Len(mModules) : mModules[j] \in EntriesOfLibrary(k)}
    BY <1>7, <2>1
  <2> QED  BY <2>2 DEF Modules, CountAt
<1>9. CountsAgree'
  BY <1>1, <1>3, AgreeAlike
<1>10. LiveIsMapped'
  BY <1>1, <1>3, StillMapped
<1>11. ComTypes'
  BY <1>1, <1>3, <1>7 DEF ComTypes
<1>12. EntriesAreOpen'
  BY <1>1, <1>8 DEF EntriesAreOpen
<1> QED
  BY <1>3, <1>9, <1>10, <1>11, <1>12 DEF NoTrouble

\* UnloadLibrary.
LEMMA UnloadStep ==
    ASSUME ComInv, NEW l \in Library, UnloadLibrary(l)
    PROVE  ComInv'
<1> USE DEF ComInv
<1> DEFINE I == {i \in 1..Len(mModules) : mModules[i].mModule # 0 /\ mModules[i].mName = l}
<1>1. PICK i : /\ i = IF I # {} THEN Min(I) ELSE 0
               /\ i # 0
               /\ mModules' = RemoveAt(mModules, i)
  BY DEF UnloadLibrary, SelectInSeq
<1>2. /\ mapped[l] = 1 => \A s \in Service : refCnt[s] > 0 => ~IsOf(s, l)
      /\ mapped' = [mapped EXCEPT ![l] = @ - 1]
      /\ UNCHANGED <<mClasses, loads, refCnt, held, manager, trouble>>
  BY DEF UnloadLibrary
<1>3. i \in 1..Len(mModules) /\ mModules[i].mName = l
  <2>1. I \in SUBSET Nat
    BY LenProperties DEF ComTypes
  <2>2. i \in I
    <3> HIDE DEF I
    <3> QED  BY <1>1, <2>1, LeastIsMember
  <2> QED  BY <2>2
<1>4. mModules \in Seq(ModuleEntry) /\ mModules[i] \in ModuleEntry
  BY <1>3, ElementOfSeq DEF ComTypes
<1> PICK q \in Seq(ModuleEntry) : q = mModules
  BY <1>4
<1>5. IsRemoved(mModules', q, i) /\ i \in 1..Len(q) /\ q[i] \in ModuleEntry
  BY <1>1, <1>3, <1>4 DEF RemoveAt, IsRemoved
<1>6. mModules' \in Seq(ModuleEntry)
  BY <1>5, RemovedList
<1>7. ASSUME NEW k \in Library PROVE Modules(k)' = Modules(k) - (IF k = l THEN 1 ELSE 0)
  <2>1. q[i] \in EntriesOfLibrary(k) <=> k = l
    BY <1>3, <1>5 DEF EntriesOfLibrary
  <2>2. CountAt(mModules', 1..Len(mModules'), EntriesOfLibrary(k))
          = CountAt(q, 1..Len(q), EntriesOfLibrary(k)) - (IF q[i] \in EntriesOfLibrary(k) THEN 1 ELSE 0)
    BY <1>5, CountRemoved
  <2> QED  BY <2>1, <2>2 DEF Modules
<1>8. mapped \in [Library -> Int] /\ mapped' \in [Library -> Int] /\ mapped'[l] = mapped[l] - 1
      /\ \A k \in Library \ {l} : mapped'[k] = mapped[k]
  BY <1>2 DEF ComTypes
<1>9. EntriesAreOpen'
  <2> SUFFICES ASSUME NEW k \in Library PROVE mapped'[k] >= Modules(k)'
    BY DEF EntriesAreOpen
  <2>1. Modules(k) \in Nat /\ mapped[k] >= Modules(k)
    BY ModuleCounts DEF EntriesAreOpen
  <2> QED  BY <1>7, <1>8, <2>1
<1>10. ASSUME NEW s \in Service, refCnt'[s] > 0 PROVE (s[1] <= Len(loads) /\ CodeMapped(s))'
  <2>1. refCnt[s] > 0 /\ s[1] <= Len(loads) /\ CodeMapped(s)
    BY <1>2, <1>10 DEF LiveIsMapped
  <2>2. CASE s[1] = 0
    BY <1>2, <2>1, <2>2 DEF CodeMapped
  <2>3. CASE s[1] # 0
    <3>0. s[1] \in Nat /\ Len(loads) \in Nat
      BY ServiceParts, ComponentsAssumption, LenProperties DEF ComTypes
    <3>1. s[1] \in 1..Len(loads)
      BY <3>0, <2>1, <2>3
    <3>2. PICK k \in Library : k = loads[s[1]]
      BY <3>1, ElementOfSeq DEF ComTypes
    <3>3. mapped[k] > 0
      BY <2>1, <2>3, <3>2 DEF CodeMapped
    <3>4. k = l => mapped[k] # 1
      BY <1>2, <2>1, <2>3, <3>2 DEF IsOf
    <3>5. mapped'[k] > 0
      BY <1>8, <3>3, <3>4
    <3> QED  BY <1>2, <2>1, <3>2, <3>5 DEF CodeMapped
  <2> QED  BY <2>2, <2>3
<1>11. ComTypes'
  BY <1>2, <1>6, <1>8 DEF ComTypes
<1>12. CountsAgree' /\ FiledByCid' /\ NoTrouble'
  BY <1>2 DEF CountsAgree, FiledByCid, NoTrouble, Registrations, Clients
<1> QED
  BY <1>9, <1>10, <1>11, <1>12 DEF LiveIsMapped

\* What the libraries' state is, when it does not change.
LEMMA SameModules ==
    ASSUME ComInv, UNCHANGED <<mModules, loads, mapped>>,
           mClasses' \in Seq(ClassEntry), held' \in Seq(Service), refCnt' \in [Service -> Int]
    PROVE  ComTypes' /\ EntriesAreOpen'
  BY DEF ComInv, ComTypes, EntriesAreOpen, Modules

\* AddService and RemoveService of the program.
LEMMA AddServiceStep ==
    ASSUME ComInv, NEW c \in Cid, AddService(c)
    PROVE  ComInv'
<1> USE DEF ComInv
<1> PICK t : t = <<c>>
  OBVIOUS
<1> PICK n : n = 0
  OBVIOUS
<1>1. AddServices(n, t) /\ UNCHANGED <<mModules, loads, mapped, held, manager, trouble>>
  BY DEF AddService
<1>2. t \in Seq(Cid) /\ Len(t) = 1 /\ n \in 0..MaxLoads
  BY ComponentsAssumption
<1>2a. \A i, k \in 1..Len(t) : t[i] = t[k] => i = k
  BY <1>2
<1>3. /\ mClasses' \in Seq(ClassEntry) /\ FiledByCid'
      /\ refCnt' \in [Service -> Int]
      /\ \A s \in Service : refCnt'[s] - refCnt[s] = Registrations(s)' - Registrations(s)
      /\ \A s \in Service : s[1] # n => refCnt'[s] = refCnt[s]
  <2> HIDE DEF ComInv
  <2>1. ComTypes /\ FiledByCid
    BY DEF ComInv
  <2> QED  BY <1>1, <1>2, <1>2a, <2>1, ServicesAdded
<1>4. CountsAgree'
  BY <1>1, <1>3, AgreeAlike
<1>5. ASSUME NEW s \in Service, refCnt'[s] > 0 PROVE (s[1] <= Len(loads) /\ CodeMapped(s))'
  <2>1. CASE s[1] = 0
    <3>1. Len(loads) \in Nat
      BY LenProperties DEF ComTypes
    <3> QED  BY <1>1, <2>1, <3>1 DEF CodeMapped
  <2>2. CASE s[1] # 0
    BY <1>1, <1>3, <1>5, <2>2 DEF CodeMapped, LiveIsMapped
  <2> QED  BY <2>1, <2>2
<1>6. held \in Seq(Service)
  BY DEF ComTypes
<1>7. ComTypes' /\ EntriesAreOpen'
  BY <1>1, <1>3, <1>6, SameModules
<1> QED
  BY <1>1, <1>3, <1>4, <1>5, <1>7 DEF LiveIsMapped, NoTrouble

LEMMA RemoveServiceStep ==
    ASSUME ComInv, NEW c, RemoveService(c)
    PROVE  ComInv'
<1> USE DEF ComInv
<1>1. RemoveServices({c}) /\ UNCHANGED <<mModules, loads, mapped, held, manager>>
  BY DEF RemoveService
<1>2. /\ mClasses' \in Seq(ClassEntry) /\ FiledByCid' /\ trouble' = trouble
      /\ refCnt' \in [Service -> Int]
      /\ \A s \in Service : refCnt'[s] - refCnt[s] = Registrations(s)' - Registrations(s)
      /\ \A s \in Service : refCnt'[s] <= refCnt[s]
  BY <1>1, ServicesRemoved
<1>3. CountsAgree'
  BY <1>1, <1>2, AgreeAlike
<1>4. LiveIsMapped'
  BY <1>1, <1>2, StillMapped
<1>5. held \in Seq(Service)
  BY DEF ComTypes
<1>6. ComTypes' /\ EntriesAreOpen'
  BY <1>1, <1>2, <1>5, SameModules
<1> QED
  BY <1>2, <1>3, <1>4, <1>6 DEF NoTrouble

\* GetService: one more reference, for the client.
LEMMA GetServiceStep ==
    ASSUME ComInv, NEW c, GetService(c)
    PROVE  ComInv'
<1> USE DEF ComInv
<1>0. ClassAt(c) \in 1..Len(mClasses)
  BY FoundByCid DEF GetService
<1> PICK s : s = mClasses[ClassAt(c)].mClass
  OBVIOUS
<1>1. s \in Service /\ refCnt[s] > 0 /\ CodeMapped(s)
  BY <1>0, RegisteredIsLive
<1>2. /\ Calls({s}) /\ refCnt' = [refCnt EXCEPT ![s] = @ + 1] /\ held' = Append(held, s)
      /\ UNCHANGED <<mClasses, mModules, loads, mapped, manager>>
  BY DEF GetService
<1>3. trouble' = trouble
  <2>1. \A x \in {s} : CodeMapped(x) /\ refCnt[x] # 0
    BY <1>1
  <2> QED  BY <1>2, <2>1, HarmlessCalls
<1>4. refCnt \in [Service -> Int] /\ held \in Seq(Service) /\ mClasses \in Seq(ClassEntry)
  BY DEF ComTypes
<1>5. refCnt' \in [Service -> Int] /\ refCnt'[s] = refCnt[s] + 1 /\ \A x \in Service \ {s} : refCnt'[x] = refCnt[x]
  BY <1>1, <1>2, <1>4
<1>6. held' \in Seq(Service)
  BY <1>1, <1>2, <1>4, AppendProperties
<1>7. ASSUME NEW x \in Service PROVE refCnt'[x] = Registrations(x)' + Clients(x)'
  <2>1. Clients(x)' = Clients(x) + (IF s \in {x} THEN 1 ELSE 0)
    BY <1>1, <1>2, <1>4, CountAppended DEF Clients
  <2>2. Clients(x) \in Nat /\ Registrations(x) \in Nat /\ Registrations(x)' = Registrations(x)
    BY <1>2, <1>4, CountType DEF Clients, Registrations
  <2>3. refCnt[x] = Registrations(x) + Clients(x)
    BY DEF CountsAgree
  <2> QED  BY <1>5, <2>1, <2>2, <2>3
<1>8. LiveIsMapped'
  <2> SUFFICES ASSUME NEW x \in Service, refCnt'[x] > 0 PROVE (x[1] <= Len(loads) /\ CodeMapped(x))'
    BY DEF LiveIsMapped
  <2>1. refCnt[x] > 0
    BY <1>1, <1>5
  <2> QED  BY <1>2, <2>1 DEF LiveIsMapped, CodeMapped
<1>9. ComTypes' /\ EntriesAreOpen'
  BY <1>2, <1>4, <1>5, <1>6, SameModules
<1>10. FiledByCid'
  BY <1>2 DEF FiledByCid
<1> QED
  BY <1>3, <1>7, <1>8, <1>9, <1>10 DEF CountsAgree, NoTrouble

LEMMA CreateInstanceStep ==
    ASSUME ComInv, NEW c, CreateInstance(c)
    PROVE  ComInv'
<1> USE DEF ComInv
<1>0. ClassAt(c) \in 1..Len(mClasses)
  BY FoundByCid DEF CreateInstance
<1> PICK s : s = mClasses[ClassAt(c)].mClass
  OBVIOUS
<1>1. s \in Service /\ refCnt[s] > 0 /\ CodeMapped(s)
  BY <1>0, RegisteredIsLive
<1>2. Calls({s}) /\ UNCHANGED <<mClasses, mModules, loads, mapped, refCnt, held, manager>>
  BY DEF CreateInstance
<1>3. trouble' = trouble
  <2>1. \A x \in {s} : CodeMapped(x) /\ refCnt[x] # 0
    BY <1>1
  <2> QED  BY <1>2, <2>1, HarmlessCalls
<1> QED
  BY <1>2, <1>3 DEF ComTypes, FiledByCid, CountsAgree, LiveIsMapped, EntriesAreOpen, NoTrouble,
     Registrations, Clients, Modules, CodeMapped

\* A client releases what it holds.
LEMMA ReleaseServiceStep ==
    ASSUME ComInv, NEW i, ReleaseService(i)
    PROVE  ComInv'
<1> USE DEF ComInv
<1>0. refCnt \in [Service -> Int] /\ held \in Seq(Service) /\ mClasses \in Seq(ClassEntry)
  BY DEF ComTypes
<1>1. i \in 1..Len(held)
  BY <1>0, LenProperties DEF ReleaseService
<1> PICK q \in Seq(Service) : q = held
  BY <1>0
<1>1a. IsRemoved(held', q, i) /\ i \in 1..Len(q) /\ q[i] \in Service
  BY <1>1, ElementOfSeq DEF ReleaseService, RemoveAt, IsRemoved
<1>1b. ASSUME NEW P
       PROVE  CountAt(held', 1..Len(held'), P) = CountAt(q, 1..Len(q), P) - (IF q[i] \in P THEN 1 ELSE 0)
  BY <1>1a, CountRemoved
<1> PICK s : s = q[i]
  OBVIOUS
<1>2. s \in Service /\ refCnt[s] > 0 /\ CodeMapped(s)
  BY <1>1, HeldIsLive
<1>3. /\ Calls({s}) /\ refCnt' = [refCnt EXCEPT ![s] = @ - 1]
      /\ UNCHANGED <<mClasses, mModules, loads, mapped, manager>>
  BY DEF ReleaseService
<1>4. trouble' = trouble
  <2>1. \A x \in {s} : CodeMapped(x) /\ refCnt[x] # 0
    BY <1>2
  <2> QED  BY <1>3, <2>1, HarmlessCalls
<1>5. refCnt' \in [Service -> Int] /\ refCnt'[s] = refCnt[s] - 1 /\ \A x \in Service \ {s} : refCnt'[x] = refCnt[x]
  BY <1>0, <1>2, <1>3
<1>6. held' \in Seq(Service)
  BY <1>1a, RemovedList
<1>7. ASSUME NEW x \in Service PROVE refCnt'[x] = Registrations(x)' + Clients(x)'
  <2>1. Clients(x)' = Clients(x) - (IF s \in {x} THEN 1 ELSE 0)
    BY <1>1b DEF Clients
  <2>2. Clients(x) \in Nat /\ Registrations(x) \in Nat /\ Registrations(x)' = Registrations(x)
    BY <1>0, <1>3, CountType DEF Clients, Registrations
  <2>3. refCnt[x] = Registrations(x) + Clients(x)
    BY DEF CountsAgree
  <2> QED  BY <1>5, <2>1, <2>2, <2>3
<1>8. LiveIsMapped'
  <2>1. \A x \in Service : refCnt'[x] <= refCnt[x]
    <3> SUFFICES ASSUME NEW x \in Service PROVE refCnt'[x] <= refCnt[x]
      OBVIOUS
    <3>1. refCnt[x] \in Int /\ (x = s \/ refCnt'[x] = refCnt[x])
      BY <1>0, <1>5
    <3> QED  BY <3>1, <1>5
  <2> QED  BY <1>3, <1>5, <2>1, StillMapped
<1>9. ComTypes' /\ EntriesAreOpen'
  BY <1>0, <1>3, <1>5, <1>6, SameModules
<1>10. FiledByCid'
  BY <1>3 DEF FiledByCid
<1> QED
  BY <1>4, <1>7, <1>8, <1>9, <1>10 DEF CountsAgree, NoTrouble

\* destroyComponentManager.
LEMMA DestroyStep ==
    ASSUME ComInv, DestroyComponentManager
    PROVE  ComInv'
<1> USE DEF ComInv
<1>0. refCnt \in [Service -> Int] /\ held \in Seq(Service) /\ mClasses \in Seq(ClassEntry)
  BY DEF ComTypes
<1>1. mClasses' = <<>> /\ mModules' = <<>> /\ UNCHANGED <<loads, mapped, held>>
  BY DEF DestroyComponentManager
<1>2. ASSUME NEW s \in Service PROVE refCnt'[s] = refCnt[s] - Registrations(s)
  <2>1. refCnt'[s] = refCnt[s] - Cardinality({i \in DOMAIN mClasses : mClasses[i].mClass = s})
    BY DEF DestroyComponentManager
  <2>2. {i \in DOMAIN mClasses : mClasses[i].mClass = s} = {i \in 1..Len(mClasses) : mClasses[i] \in EntriesOf(s)}
    <3>1. DOMAIN mClasses = 1..Len(mClasses)
      BY <1>0, LenProperties
    <3>2. \A i \in 1..Len(mClasses) : mClasses[i] \in ClassEntry
      BY <1>0, ElementOfSeq
    <3> QED  BY <3>1, <3>2 DEF EntriesOf
  <2> QED  BY <2>1, <2>2 DEF Registrations, CountAt
<1>3. \A s \in Service : Registrations(s) \in Nat /\ Clients(s) \in Nat /\ Clients(s)' = Clients(s)
  BY <1>0, <1>1, CountType DEF Registrations, Clients
<1>4. \A s \in Service : refCnt[s] = Registrations(s) + Clients(s)
  BY DEF CountsAgree
<1>5. \A s \in Service : Registrations(s)' = 0
  BY <1>1, CountEmpty DEF Registrations
<1>6. refCnt' \in [Service -> Int]
  <2>1. refCnt' = [s \in Service |-> refCnt'[s]]
    BY DEF DestroyComponentManager
  <2> QED  BY <1>0, <1>2, <1>3, <2>1
<1>7. CountsAgree'
  BY <1>2, <1>3, <1>4, <1>5 DEF CountsAgree
<1>8. LiveIsMapped'
  <2>1. \A s \in Service : refCnt'[s] <= refCnt[s]
    BY <1>0, <1>2, <1>3
  <2> QED  BY <1>1, <1>6, <2>1, StillMapped
<1>9. NoTrouble'
  <2>1. {j \in DOMAIN mClasses : ~CodeMapped(mClasses[j].mClass)} = {}
    <3>1. DOMAIN mClasses = 1..Len(mClasses)
      BY <1>0, LenProperties
    <3> QED  BY <3>1, RegisteredIsLive
  <2>2. trouble' = trouble
          \cup {mClasses[i].mClass : i \in {j \in DOMAIN mClasses : ~CodeMapped(mClasses[j].mClass)}}
          \cup {<<-1, mModules[i].mName>> : i \in {j \in DOMAIN mModules : mModules[j].mModule = 0}}
    BY DEF DestroyComponentManager
  <2>3. ASSUME NEW x \in trouble', x \notin trouble PROVE x \notin Service
    <3>1. PICK m : x = <<-1, m>>
      BY <2>1, <2>2, <2>3
    <3>2. x[1] = -1
      BY <3>1
    <3> QED  BY <3>2, ServiceParts
  <2> QED  BY <2>3 DEF NoTrouble
<1>10. ComTypes'
  <2>1. mClasses' \in Seq(ClassEntry) /\ mModules' \in Seq(ModuleEntry)
    BY <1>1, EmptySeq
  <2> QED  BY <1>0, <1>1, <1>6, <2>1 DEF ComTypes
<1>11. EntriesAreOpen'
  <2> SUFFICES ASSUME NEW k \in Library PROVE mapped'[k] >= Modules(k)'
    BY DEF EntriesAreOpen
  <2>1. Modules(k)' = 0
    BY <1>1, CountEmpty DEF Modules
  <2>2. mapped[k] >= Modules(k) /\ Modules(k) \in Nat /\ mapped[k] \in Int
    BY ModuleCounts DEF EntriesAreOpen, ComTypes
  <2> QED  BY <1>1, <2>1, <2>2
<1>12. FiledByCid'
  <2>1. Len(mClasses') = 0
    BY <1>1, EmptySeq
  <2> QED  BY <2>1 DEF FiledByCid
<1> QED
  BY <1>7, <1>8, <1>9, <1>10, <1>11, <1>12

LEMMA ComStep == ComInv /\ [ComNext]_comVars => ComInv'
<1> SUFFICES ASSUME ComInv, [ComNext]_comVars PROVE ComInv'
  OBVIOUS
<1>1. CASE \E l \in Library : LoadLibrary(l) \/ RemoveModule(l) \/ UnloadLibrary(l)
  BY <1>1, LoadStep, RemoveModuleStep, UnloadStep
<1>2. CASE \E c \in AppCid : AddService(c)
  <2>1. AppCid \subseteq Cid
    BY ComponentsAssumption
  <2> QED  BY <1>2, <2>1, AddServiceStep
<1>3. CASE \E c \in Cid : RemoveService(c) \/ GetService(c) \/ CreateInstance(c)
  BY <1>3, RemoveServiceStep, GetServiceStep, CreateInstanceStep
<1>4. CASE \E i \in 1..MaxHeld : ReleaseService(i)
  BY <1>4, ReleaseServiceStep
<1>5. CASE DestroyComponentManager
  BY <1>5, DestroyStep
<1>6. CASE UNCHANGED comVars
  BY <1>6 DEF comVars, ComInv, ComTypes, FiledByCid, CountsAgree, LiveIsMapped, EntriesAreOpen, NoTrouble,
     Registrations, Clients, Modules, CodeMapped
<1> QED
  BY <1>1, <1>2, <1>3, <1>4, <1>5, <1>6 DEF ComNext

LEMMA CountedFollows == ComInv => ServicesAreCounted
<1> SUFFICES ASSUME ComInv PROVE ServicesAreCounted
  OBVIOUS
<1>0. /\ held \in Seq(Service) /\ mClasses \in Seq(ClassEntry)
      /\ DOMAIN mClasses = 1..Len(mClasses) /\ DOMAIN held = 1..Len(held)
  BY LenProperties DEF ComInv, ComTypes
<1>1. \A s \in Service : Registrations(s) = Cardinality({i \in DOMAIN mClasses : mClasses[i].mClass = s})
  <2> SUFFICES ASSUME NEW s \in Service
               PROVE  Registrations(s) = Cardinality({i \in DOMAIN mClasses : mClasses[i].mClass = s})
    OBVIOUS
  <2>1. \A i \in 1..Len(mClasses) : mClasses[i] \in ClassEntry
    BY <1>0, ElementOfSeq
  <2>2. {i \in DOMAIN mClasses : mClasses[i].mClass = s} = {i \in 1..Len(mClasses) : mClasses[i] \in EntriesOf(s)}
    BY <1>0, <2>1 DEF EntriesOf
  <2> QED  BY <2>2 DEF Registrations, CountAt
<1>2. \A s \in Service : Clients(s) = Cardinality({i \in DOMAIN held : held[i] = s})
  <2> SUFFICES ASSUME NEW s \in Service PROVE Clients(s) = Cardinality({i \in DOMAIN held : held[i] = s})
    OBVIOUS
  <2>1. {i \in DOMAIN held : held[i] = s} = {i \in 1..Len(held) : held[i] \in {s}}
    BY <1>0
  <2> QED  BY <2>1 DEF Clients, CountAt
<1>3. \A s \in Service : refCnt[s] = Registrations(s) + Clients(s)
  BY DEF ComInv, CountsAgree
<1>4. \A i \in DOMAIN mClasses : CodeMapped(mClasses[i].mClass)
  BY <1>0, RegisteredIsLive
<1>5. trouble \cap Service = {}
  BY DEF ComInv, NoTrouble
<1> QED
  BY <1>1, <1>2, <1>3, <1>4, <1>5 DEF ServicesAreCounted

\* ServicesAreCounted: a service's count is the number of its registrations and
\* of its clients, and no call reaches a deleted object or closed code, for any
\* libraries and class ids and any number of loads and references.
THEOREM ServicesAlwaysCounted == ComSpec => []ServicesAreCounted
<1>1. ComInit => ComInv
  BY ComStarts
<1>2. ComInv /\ [ComNext]_comVars => ComInv'
  BY ComStep
<1>3. ComInv => ServicesAreCounted
  BY CountedFollows
<1> QED
  BY <1>1, <1>2, <1>3, PTL DEF ComSpec

-----------------------------------------------------------------------------
(* The registry of source files *)

FileEntry == [filename : FileName, cats : Categories, level : LogLevel]
NamesOf(q) == [i \in DOMAIN q |-> q[i].filename]

FilesAreSorted == \A i, j \in 1..Len(files) : i < j => Rank[files[i].filename] <= Rank[files[j].filename]
NamesAreCurrent == ~stale /\ names # NoNames => names = NamesOf(files)

\* The file whose level was last set is registered, and its first entry has
\* that level.
LevelIsKept(q, set) ==
    \E i \in 1..Len(q) :
        /\ q[i].filename = set.f /\ q[i].level = set.l
        /\ \A j \in 1..(i - 1) : q[j].filename # set.f

LogInv ==
    /\ files \in Seq(FileEntry)
    /\ FilesAreSorted /\ NamesAreCurrent
    /\ lastSet # NotSet => LevelIsKept(files, lastSet)

LEMMA LogStarts == LogInit => LogInv
<1> SUFFICES ASSUME LogInit PROVE LogInv
  OBVIOUS
<1>1. files \in Seq(FileEntry) /\ Len(files) = 0
  BY EmptySeq DEF LogInit
<1> QED
  BY <1>1 DEF LogInit, LogInv, FilesAreSorted, NamesAreCurrent

\* The first greater name: everything from there on is greater, everything
\* before it is not.
LEMMA FirstGreater ==
    ASSUME LogInv, NEW f \in FileName, NEW b,
           b = SelectInSeq(files, LAMBDA d : Rank[d.filename] > Rank[f])
    PROVE  \/ b = 0 /\ \A i \in 1..Len(files) : Rank[files[i].filename] <= Rank[f]
           \/ /\ b \in 1..Len(files)
              /\ \A i \in 1..Len(files) : IF i < b THEN Rank[files[i].filename] <= Rank[f]
                                          ELSE Rank[files[i].filename] > Rank[f]
<1> DEFINE I == {i \in 1..Len(files) : Rank[files[i].filename] > Rank[f]}
<1>0. Len(files) \in Nat /\ \A i \in 1..Len(files) : files[i] \in FileEntry /\ Rank[files[i].filename] \in Nat
  <2>1. Len(files) \in Nat /\ \A i \in 1..Len(files) : files[i] \in FileEntry
    BY LenProperties, ElementOfSeq DEF LogInv
  <2>2. \A e \in FileEntry : Rank[e.filename] \in Nat
    BY LoggingAssumption DEF FileEntry
  <2> QED  BY <2>1, <2>2
<1>1. b = IF I # {} THEN Min(I) ELSE 0
  BY DEF SelectInSeq
<1>2. I \in SUBSET Nat
  BY <1>0
<1>3. Rank[f] \in Nat
  BY LoggingAssumption
<1>4. CASE I = {}
  <2>1. \A i \in 1..Len(files) : ~(Rank[files[i].filename] > Rank[f])
    BY <1>4
  <2> HIDE DEF I
  <2> QED  BY <1>0, <1>1, <1>3, <1>4, <2>1
<1>5. CASE I # {}
  <2>1. b \in I /\ \A y \in I : b <= y
    <3> HIDE DEF I
    <3> QED  BY <1>1, <1>2, <1>5, LeastNumber DEF Min
  <2>2. b \in 1..Len(files)
    BY <2>1
  <2>3. ASSUME NEW i \in 1..Len(files), i < b PROVE Rank[files[i].filename] <= Rank[f]
    <3>1. i \notin I
      <4> HIDE DEF I
      <4>1. i \in Int /\ b \in Int
        BY <1>0, <1>2, <2>1
      <4>2. i \in I => b <= i
        BY <2>1
      <4>3. ~(b <= i)
        BY <2>3, <4>1
      <4> QED  BY <4>2, <4>3
    <3> QED  BY <1>0, <1>3, <3>1
  <2>4. ASSUME NEW i \in 1..Len(files), ~(i < b) PROVE Rank[files[i].filename] > Rank[f]
    <3>1. Rank[files[b].filename] > Rank[f] /\ Rank[files[b].filename] \in Nat
      BY <1>0, <2>1
    <3>2. CASE i = b
      BY <3>1, <3>2
    <3>3. CASE b < i
      <4>1. Rank[files[b].filename] <= Rank[files[i].filename]
        BY <2>2, <3>3 DEF LogInv, FilesAreSorted
      <4> QED  BY <1>0, <1>3, <3>1, <4>1
    <3> QED  BY <1>0, <2>2, <2>4, <3>2, <3>3
  <2> QED  BY <2>2, <2>3, <2>4
<1> QED
  BY <1>4, <1>5

\* What registering a file makes of the list: everything keeps its order, and
\* the new entry is behind all that are not greater and before all that are.
Registered_(q, r, p, e) ==
    /\ r \in Seq(FileEntry) /\ Len(r) = Len(q) + 1 /\ p \in 1..(Len(q) + 1)
    /\ \A i \in 1..(Len(q) + 1) : r[i] = IF i < p THEN q[i] ELSE IF i = p THEN e ELSE q[i - 1]
    /\ \A i \in 1..Len(q) : IF i < p THEN Rank[q[i].filename] <= Rank[e.filename]
                            ELSE Rank[q[i].filename] > Rank[e.filename]

LEMMA FileRegistered ==
    ASSUME LogInv, NEW f \in FileName, NEW c \in Categories, NEW l \in LogLevel, RegisterLogging(f, c, l)
    PROVE  \E p, e : e \in FileEntry /\ e.filename = f /\ Registered_(files, files', p, e)
<1>a. PICK e : e = [filename |-> f, cats |-> c, level |-> l]
  OBVIOUS
<1>b. PICK b : b = SelectInSeq(files, LAMBDA d : Rank[d.filename] > Rank[f])
  OBVIOUS
<1>1. e \in FileEntry /\ e.filename = f
  BY <1>a DEF FileEntry
<1>2. files' = IF b = 0 THEN Append(files, e) ELSE InsertAt(files, b, e)
  BY <1>a, <1>b DEF RegisterLogging
<1>3. PICK q \in Seq(FileEntry) : q = files
  BY DEF LogInv
<1>4. \/ b = 0 /\ \A i \in 1..Len(files) : Rank[files[i].filename] <= Rank[f]
      \/ /\ b \in 1..Len(files)
         /\ \A i \in 1..Len(files) : IF i < b THEN Rank[files[i].filename] <= Rank[f]
                                     ELSE Rank[files[i].filename] > Rank[f]
  BY <1>b, FirstGreater
<1>5. Len(q) \in Nat
  BY LenProperties
<1>6. CASE b = 0
  <2> PICK p : p = Len(q) + 1
    OBVIOUS
  <2>1. files' = Append(q, e)
    BY <1>2, <1>3, <1>6
  <2>2. files' \in Seq(FileEntry) /\ Len(files') = Len(q) + 1 /\ files'[p] = e
        /\ \A i \in 1..Len(q) : files'[i] = q[i]
    BY <1>1, <1>5, <2>1, AppendProperties
  <2>3. \A i \in 1..Len(q) : Rank[q[i].filename] <= Rank[e.filename]
    BY <1>1, <1>3, <1>4, <1>5, <1>6
  <2>4. Registered_(q, files', p, e)
    BY <1>5, <2>2, <2>3 DEF Registered_
  <2> QED  BY <1>1, <1>3, <2>4
<1>7. CASE b # 0
  <2>1. files' = SubSeq(q, 1, b - 1) \o <<e>> \o SubSeq(q, b, Len(q)) /\ b \in 1..Len(q)
    BY <1>2, <1>3, <1>4, <1>7 DEF InsertAt
  <2>2. /\ files' \in Seq(FileEntry) /\ Len(files') = Len(q) + 1
        /\ \A i \in 1..(Len(q) + 1) : files'[i] = IF i < b THEN q[i] ELSE IF i = b THEN e ELSE q[i - 1]
    <3>1. b \in 1..(Len(q) + 1)
      BY <2>1, <1>5
    <3>2. IsInserted(files', q, b, e)
      BY <2>1 DEF IsInserted
    <3> QED  BY <1>1, <3>1, <3>2, InsertedAt
  <2>3. \A i \in 1..Len(q) : IF i < b THEN Rank[q[i].filename] <= Rank[e.filename]
                             ELSE Rank[q[i].filename] > Rank[e.filename]
    BY <1>1, <1>3, <1>4, <1>7
  <2>4. b \in 1..(Len(q) + 1)
    BY <1>5, <2>1
  <2>5. Registered_(q, files', b, e)
    BY <2>2, <2>3, <2>4 DEF Registered_
  <2> QED  BY <1>1, <1>3, <2>5
<1> QED
  BY <1>6, <1>7

\* RegisterLogging keeps the registry sorted, and the first entry of a name
\* that is registered already stays the first.
LEMMA RegisterStep ==
    ASSUME LogInv, NEW f \in FileName, NEW c \in Categories, NEW l \in LogLevel, RegisterLogging(f, c, l)
    PROVE  LogInv'
<1>0. /\ files \in Seq(FileEntry) /\ Len(files) \in Nat
      /\ \A i \in 1..Len(files) : files[i].filename \in FileName /\ Rank[files[i].filename] \in Nat
  <2>1. files \in Seq(FileEntry) /\ Len(files) \in Nat /\ \A i \in 1..Len(files) : files[i] \in FileEntry
    BY LenProperties, ElementOfSeq DEF LogInv
  <2>2. \A e \in FileEntry : e.filename \in FileName /\ Rank[e.filename] \in Nat
    BY LoggingAssumption DEF FileEntry
  <2> QED  BY <2>1, <2>2
<1>1. PICK p, e : e \in FileEntry /\ e.filename = f /\ Registered_(files, files', p, e)
  BY FileRegistered
<1>2. /\ files' \in Seq(FileEntry) /\ Len(files') = Len(files) + 1 /\ p \in 1..(Len(files) + 1)
      /\ \A i \in 1..(Len(files) + 1) : files'[i] = IF i < p THEN files[i] ELSE IF i = p THEN e ELSE files[i - 1]
      /\ \A i \in 1..Len(files) : IF i < p THEN Rank[files[i].filename] <= Rank[f]
                                  ELSE Rank[files[i].filename] > Rank[f]
  BY <1>1 DEF Registered_
<1>3. Rank[f] \in Nat
  BY LoggingAssumption
<1>4. names' = NoNames /\ lastSet' = lastSet
  BY DEF RegisterLogging
<1>5. ASSUME NEW i \in 1..Len(files'), NEW j \in 1..Len(files'), i < j
      PROVE  Rank[files'[i].filename] <= Rank[files'[j].filename]
  <2>0. i \in Int /\ j \in Int /\ p \in Int /\ i \in 1..(Len(files) + 1) /\ j \in 1..(Len(files) + 1)
    BY <1>0, <1>2
  <2>1. CASE j < p
    <3>1. i \in 1..Len(files) /\ j \in 1..Len(files) /\ files'[i] = files[i] /\ files'[j] = files[j]
      BY <1>0, <1>2, <1>5, <2>0, <2>1
    <3> QED  BY <1>5, <3>1 DEF LogInv, FilesAreSorted
  <2>2. CASE j = p
    <3>1. i \in 1..Len(files) /\ files'[i] = files[i] /\ files'[j] = e /\ i < p
      BY <1>0, <1>2, <1>5, <2>0, <2>2
    <3> QED  BY <1>1, <1>2, <3>1
  <2>3. CASE j > p /\ i < p
    <3>1. i \in 1..Len(files) /\ j - 1 \in 1..Len(files) /\ files'[i] = files[i] /\ files'[j] = files[j - 1] /\ i < j - 1
      BY <1>0, <1>2, <1>5, <2>0, <2>3
    <3> QED  BY <3>1 DEF LogInv, FilesAreSorted
  <2>4. CASE j > p /\ i = p
    <3>1. j - 1 \in 1..Len(files) /\ ~(j - 1 < p) /\ ~(j < p) /\ j # p /\ p \in 1..(Len(files) + 1)
      <4>1. PICK n \in Nat : n = Len(files) /\ j \in 1..(n + 1)
        BY <1>0, <2>0
      <4>2. j - 1 \in 1..n /\ ~(j - 1 < p) /\ ~(j < p) /\ j # p
        BY <4>1, <2>0, <2>4
      <4> QED  BY <4>1, <4>2, <1>2
    <3>2. files'[i] = e /\ files'[j] = files[j - 1]
      BY <1>2, <2>0, <2>4, <3>1
    <3>3. Rank[files[j - 1].filename] > Rank[f] /\ Rank[files[j - 1].filename] \in Nat
      BY <1>0, <1>2, <3>1
    <3> QED  BY <1>1, <1>3, <3>2, <3>3
  <2>5. CASE j > p /\ i > p
    <3>1. /\ i - 1 \in 1..Len(files) /\ j - 1 \in 1..Len(files) /\ files'[i] = files[i - 1]
          /\ files'[j] = files[j - 1] /\ i - 1 < j - 1
      BY <1>0, <1>2, <1>5, <2>0, <2>5
    <3> QED  BY <3>1 DEF LogInv, FilesAreSorted
  <2> QED  BY <2>0, <2>1, <2>2, <2>3, <2>4, <2>5
<1>6. FilesAreSorted'
  BY <1>5 DEF FilesAreSorted
<1>7. ASSUME lastSet # NotSet PROVE LevelIsKept(files', lastSet)
  <2>1. PICK i \in 1..Len(files) :
            /\ files[i].filename = lastSet.f /\ files[i].level = lastSet.l
            /\ \A j \in 1..(i - 1) : files[j].filename # lastSet.f
    BY <1>7 DEF LogInv, LevelIsKept
  <2>2. CASE i < p
    <3>1. i \in 1..Len(files') /\ files'[i] = files[i]
      BY <1>0, <1>2, <2>2
    <3>2. \A j \in 1..(i - 1) : files'[j] = files[j]
      BY <1>0, <1>2, <2>2
    <3> QED  BY <2>1, <3>1, <3>2 DEF LevelIsKept
  <2>3. CASE ~(i < p)
    <3>1. Rank[files[i].filename] > Rank[f]
      BY <1>2, <2>3
    <3>2. lastSet.f # f
      BY <1>3, <2>1, <3>1
    <3>3. i + 1 \in 1..Len(files') /\ files'[i + 1] = files[i]
      <4>1. i + 1 \in 1..(Len(files) + 1) /\ ~(i + 1 < p) /\ i + 1 # p /\ (i + 1) - 1 = i
        BY <1>0, <1>2, <2>3
      <4> QED  BY <1>2, <4>1
    <3>4. ASSUME NEW j \in 1..i PROVE files'[j].filename # lastSet.f
      <4>0. j \in 1..(Len(files) + 1) /\ j \in Int /\ p \in Int
        BY <1>0, <1>2
      <4>1. CASE j < p
        <5>1. files'[j] = files[j] /\ j \in 1..(i - 1)
          BY <1>2, <2>3, <4>0, <4>1
        <5> QED  BY <2>1, <5>1
      <4>2. CASE j = p
        BY <1>1, <1>2, <3>2, <4>0, <4>2
      <4>3. CASE j > p
        <5>1. files'[j] = files[j - 1] /\ j - 1 \in 1..(i - 1)
          BY <1>2, <4>0, <4>3
        <5> QED  BY <2>1, <5>1
      <4> QED  BY <4>0, <4>1, <4>2, <4>3
    <3>5. \A j \in 1..((i + 1) - 1) : files'[j].filename # lastSet.f
      BY <3>4
    <3> PICK k : k = i + 1
      OBVIOUS
    <3> QED  BY <2>1, <3>3, <3>5 DEF LevelIsKept
  <2> QED  BY <2>2, <2>3
<1> QED
  BY <1>2, <1>4, <1>6, <1>7 DEF LogInv, NamesAreCurrent

\* Setting categories or levels leaves the files and their order.
LEMMA EntriesSet ==
    ASSUME LogInv, NEW r, r \in Seq(FileEntry), Len(r) = Len(files),
           \A i \in 1..Len(files) : r[i].filename = files[i].filename,
           files' = r, UNCHANGED <<names, stale>>
    PROVE  FilesAreSorted' /\ NamesAreCurrent'
<1>1. FilesAreSorted'
  BY DEF LogInv, FilesAreSorted
<1>2. NamesOf(r) = NamesOf(files)
  <2>1. DOMAIN r = DOMAIN files /\ DOMAIN r = 1..Len(files)
    BY LenProperties DEF LogInv
  <2> QED  BY <2>1 DEF NamesOf
<1> QED
  BY <1>1, <1>2 DEF LogInv, NamesAreCurrent

LEMMA SetCatsStep ==
    ASSUME LogInv, NEW f, NEW c \in Categories, SetCats(f, c)
    PROVE  LogInv'
<1>0. /\ files \in Seq(FileEntry) /\ DOMAIN files = 1..Len(files) /\ Len(files) \in Nat
      /\ \A i \in 1..Len(files) : files[i] \in FileEntry
  BY LenProperties, ElementOfSeq DEF LogInv
<1>1. /\ files' = [i \in 1..Len(files) |-> IF Named(files[i], f) THEN [files[i] EXCEPT !.cats = c] ELSE files[i]]
      /\ UNCHANGED <<names, stale, lastSet>>
  BY <1>0 DEF SetCats
<1>2. \A e \in FileEntry : /\ [e EXCEPT !.cats = c] \in FileEntry
                           /\ [e EXCEPT !.cats = c].filename = e.filename /\ [e EXCEPT !.cats = c].level = e.level
  BY DEF FileEntry
<1>3. PICK r : r = files'
  OBVIOUS
<1>4. r \in Seq(FileEntry) /\ Len(r) = Len(files)
      /\ \A i \in 1..Len(files) : r[i].filename = files[i].filename /\ r[i].level = files[i].level
  <2>1. \A i \in 1..Len(files) : r[i] = IF Named(files[i], f) THEN [files[i] EXCEPT !.cats = c] ELSE files[i]
    BY <1>1, <1>3
  <2>2. \A i \in 1..Len(files) : r[i] \in FileEntry /\ r[i].filename = files[i].filename /\ r[i].level = files[i].level
    BY <1>0, <1>2, <2>1
  <2>3. DOMAIN r = 1..Len(files) /\ r = [i \in 1..Len(files) |-> r[i]]
    BY <1>1, <1>3
  <2> QED  BY <1>0, <2>2, <2>3
<1>5. FilesAreSorted' /\ NamesAreCurrent'
  BY <1>1, <1>3, <1>4, EntriesSet
<1>6. lastSet # NotSet => LevelIsKept(r, lastSet)
  <2> SUFFICES ASSUME lastSet # NotSet PROVE LevelIsKept(r, lastSet)
    OBVIOUS
  <2>1. PICK i \in 1..Len(files) :
            /\ files[i].filename = lastSet.f /\ files[i].level = lastSet.l
            /\ \A j \in 1..(i - 1) : files[j].filename # lastSet.f
    BY DEF LogInv, LevelIsKept
  <2>2. \A j \in 1..(i - 1) : j \in 1..Len(files)
    BY <1>0
  <2> QED  BY <1>4, <2>1, <2>2 DEF LevelIsKept
<1> QED
  BY <1>1, <1>3, <1>4, <1>5, <1>6 DEF LogInv

LEMMA SetLevelStep ==
    ASSUME LogInv, NEW f, NEW l \in LogLevel, SetLevel(f, l)
    PROVE  LogInv'
<1>0. /\ files \in Seq(FileEntry) /\ DOMAIN files = 1..Len(files) /\ Len(files) \in Nat
      /\ \A i \in 1..Len(files) : files[i] \in FileEntry
  BY LenProperties, ElementOfSeq DEF LogInv
<1>1. /\ files' = [i \in 1..Len(files) |-> IF Named(files[i], f) THEN [files[i] EXCEPT !.level = l] ELSE files[i]]
      /\ lastSet' = IF \E i \in 1..Len(files) : files[i].filename = f THEN [f |-> f, l |-> l]
                    ELSE IF f = "all" THEN NotSet ELSE lastSet
      /\ UNCHANGED <<names, stale>>
  BY <1>0 DEF SetLevel
<1>2. \A e \in FileEntry : /\ [e EXCEPT !.level = l] \in FileEntry
                           /\ [e EXCEPT !.level = l].filename = e.filename /\ [e EXCEPT !.level = l].level = l
  BY DEF FileEntry
<1>3. PICK r : r = files'
  OBVIOUS
<1>4. r \in Seq(FileEntry) /\ Len(r) = Len(files)
      /\ \A i \in 1..Len(files) : /\ r[i].filename = files[i].filename
                                  /\ r[i].level = IF Named(files[i], f) THEN l ELSE files[i].level
  <2>1. \A i \in 1..Len(files) : r[i] = IF Named(files[i], f) THEN [files[i] EXCEPT !.level = l] ELSE files[i]
    BY <1>1, <1>3
  <2>2. \A i \in 1..Len(files) : /\ r[i] \in FileEntry /\ r[i].filename = files[i].filename
                                 /\ r[i].level = IF Named(files[i], f) THEN l ELSE files[i].level
    BY <1>0, <1>2, <2>1
  <2>3. DOMAIN r = 1..Len(files) /\ r = [i \in 1..Len(files) |-> r[i]]
    BY <1>1, <1>3
  <2> QED  BY <1>0, <2>2, <2>3
<1>5. FilesAreSorted' /\ NamesAreCurrent'
  BY <1>1, <1>3, <1>4, EntriesSet
<1>6. ASSUME lastSet' # NotSet PROVE LevelIsKept(r, lastSet')
  <2>1. CASE \E i \in 1..Len(files) : files[i].filename = f
    <3> DEFINE T == {i \in 1..Len(files) : files[i].filename = f}
    <3>1. T \in SUBSET Nat /\ T # {}
      BY <1>0, <2>1
    <3>2. PICK i \in T : \A y \in T : i <= y
      <4> HIDE DEF T
      <4> QED  BY <3>1, LeastNumber
    <3>3. i \in 1..Len(files) /\ files[i].filename = f
      OBVIOUS
    <3>4. ASSUME NEW j \in 1..(i - 1) PROVE files[j].filename # f
      <4>1. j \in 1..Len(files) /\ ~(i <= j)
        BY <1>0, <3>3
      <4> QED  BY <3>2, <4>1
    <3>5. lastSet' = [f |-> f, l |-> l]
      BY <1>1, <2>1
    <3>6. lastSet'.f = f /\ lastSet'.l = l
      BY <3>5
    <3>7. r[i].filename = f /\ r[i].level = l
      BY <1>4, <3>3 DEF Named
    <3>8. \A j \in 1..(i - 1) : r[j].filename # f
      BY <1>0, <1>4, <3>3, <3>4
    <3> QED  BY <1>4, <3>3, <3>6, <3>7, <3>8 DEF LevelIsKept
  <2>2. CASE ~(\E i \in 1..Len(files) : files[i].filename = f)
    <3>1. lastSet' = lastSet /\ lastSet # NotSet /\ f # "all"
      BY <1>1, <1>6, <2>2
    <3>2. \A i \in 1..Len(files) : ~Named(files[i], f)
      BY <2>2, <3>1 DEF Named
    <3>3. PICK i \in 1..Len(files) :
            /\ files[i].filename = lastSet.f /\ files[i].level = lastSet.l
            /\ \A j \in 1..(i - 1) : files[j].filename # lastSet.f
      BY <3>1 DEF LogInv, LevelIsKept
    <3>4. \A j \in 1..(i - 1) : j \in 1..Len(files)
      BY <1>0
    <3> QED  BY <1>4, <3>1, <3>2, <3>3, <3>4 DEF LevelIsKept
  <2> QED  BY <2>1, <2>2
<1> QED
  BY <1>3, <1>4, <1>5, <1>6 DEF LogInv

LEMMA OtherLogSteps ==
    ASSUME LogInv, GetNames \/ Cleanup \/ PrintNext \/ UNCHANGED logVars
    PROVE  LogInv'
<1>1. CASE GetNames
  <2>1. UNCHANGED <<files, lastSet, stale>> /\ names' = IF names = NoNames /\ files # <<>> THEN NamesOf(files) ELSE names
    BY <1>1 DEF GetNames, NamesOf
  <2> QED  BY <2>1 DEF LogInv, FilesAreSorted, NamesAreCurrent
<1>2. CASE Cleanup
  <2>1. files' = <<>> /\ lastSet' = NotSet /\ stale'
    BY <1>2 DEF Cleanup
  <2>2. files' \in Seq(FileEntry) /\ Len(files') = 0
    BY <2>1, EmptySeq
  <2> QED  BY <2>1, <2>2 DEF LogInv, FilesAreSorted, NamesAreCurrent
<1>3. CASE PrintNext \/ UNCHANGED logVars
  <2>1. UNCHANGED <<files, lastSet, stale, names>>
    BY <1>3 DEF PrintNext, logVars, SetFile, SetCopyFile, LoggingMark, JhLogPrint
  <2> QED  BY <2>1 DEF LogInv, FilesAreSorted, NamesAreCurrent
<1> QED
  BY <1>1, <1>2, <1>3

LEMMA LogStep == LogInv /\ [RegistryNext \/ PrintNext]_logVars => LogInv'
<1> SUFFICES ASSUME LogInv, [RegistryNext \/ PrintNext]_logVars PROVE LogInv'
  OBVIOUS
<1>1. CASE \E f \in FileName, c \in Categories, l \in LogLevel : RegisterLogging(f, c, l)
  BY <1>1, RegisterStep
<1>2. CASE \E f \in FileName \cup {"all"} : (\E c \in Categories : SetCats(f, c)) \/ (\E l \in LogLevel : SetLevel(f, l))
  BY <1>2, SetCatsStep, SetLevelStep
<1> QED
  BY <1>1, <1>2, OtherLogSteps DEF RegistryNext

LEMMA RegistryFollows == LogInv => RegistryIsCurrent
<1> SUFFICES ASSUME LogInv PROVE RegistryIsCurrent
  OBVIOUS
<1>0. files \in Seq(FileEntry) /\ DOMAIN files = 1..Len(files) /\ Len(files) \in Nat
  BY LenProperties DEF LogInv
<1>1. lastSet # NotSet => GetLevel(lastSet.f) = lastSet.l
  <2> SUFFICES ASSUME lastSet # NotSet PROVE GetLevel(lastSet.f) = lastSet.l
    OBVIOUS
  <2>1. PICK i \in 1..Len(files) :
            /\ files[i].filename = lastSet.f /\ files[i].level = lastSet.l
            /\ \A j \in 1..(i - 1) : files[j].filename # lastSet.f
    BY DEF LogInv, LevelIsKept
  <2> DEFINE I == {j \in 1..Len(files) : files[j].filename = lastSet.f}
  <2>2. LookupFile(lastSet.f) = IF I # {} THEN Min(I) ELSE 0
    BY DEF LookupFile, SelectInSeq
  <2>3. i \in I
    BY <2>1
  <2>4. \A y \in I : i <= y
    <3> SUFFICES ASSUME NEW y \in I, y < i PROVE FALSE
      BY <1>0
    <3>1. y \in 1..(i - 1)
      BY <1>0
    <3> QED  BY <2>1, <3>1
  <2>5. I \in SUBSET Nat
    BY <1>0
  <2> HIDE DEF I
  <2>6. Min(I) = i
    <3>1. Min(I) \in I /\ \A y \in I : Min(I) <= y
      BY <2>3, <2>4 DEF Min
    <3>2. Min(I) <= i /\ i <= Min(I) /\ i \in Nat /\ Min(I) \in Nat
      BY <2>3, <2>4, <2>5, <3>1
    <3> QED  BY <3>2
  <2>7. LookupFile(lastSet.f) = i /\ i # 0
    BY <2>2, <2>3, <2>6
  <2> QED  BY <2>1, <2>7 DEF GetLevel
<1> QED
  BY <1>0, <1>1 DEF LogInv, FilesAreSorted, NamesAreCurrent, NamesOf, RegistryIsCurrent

\* RegistryIsCurrent: the cached names, the order of the files and the level
\* last set, for any files, order of names and number of registrations.
THEOREM RegistryAlwaysCurrent == LogSpec => []RegistryIsCurrent
<1>1. LogInit => LogInv
  BY LogStarts
<1>2. LogInv /\ [RegistryNext \/ PrintNext]_logVars => LogInv'
  BY LogStep
<1>3. LogInv => RegistryIsCurrent
  BY RegistryFollows
<1> QED
  BY <1>1, <1>2, <1>3, PTL DEF LogSpec

-----------------------------------------------------------------------------
(* Lines *)

\* b is what the buffer holds of text G: the whole of it, or what fits.
HoldsText(b, G) ==
    IF Len(G) < BufSize THEN b.text = G /\ b.len = Len(G)
    ELSE b.text = SubSeq(G, 1, BufSize - 1) /\ b.len \in Nat /\ b.len >= BufSize

\* The beginning of a text and of one that goes on.
LEMMA FirstPart ==
    ASSUME NEW S, NEW q \in Seq(S), NEW t \in Seq(S), NEW m \in Nat
    PROVE  /\ m <= Len(q) => SubSeq(q \o t, 1, m) = SubSeq(q, 1, m)
           /\ Len(q) <= m /\ m <= Len(q) + Len(t) => SubSeq(q \o t, 1, m) = q \o SubSeq(t, 1, m - Len(q))
<1>0. Len(q) \in Nat /\ Len(t) \in Nat
  BY LenProperties
<1>1. /\ q \o t \in Seq(S) /\ Len(q \o t) = Len(q) + Len(t)
      /\ \A i \in 1..(Len(q) + Len(t)) : (q \o t)[i] = IF i <= Len(q) THEN q[i] ELSE t[i - Len(q)]
  BY ConcatProperties
<1> PICK r : r = q \o t
  OBVIOUS
<1>2. ASSUME m <= Len(q) PROVE SubSeq(r, 1, m) = SubSeq(q, 1, m)
  <2>1. /\ SubSeq(r, 1, m) \in Seq(S) /\ Len(SubSeq(r, 1, m)) = m
        /\ \A i \in 1..m : SubSeq(r, 1, m)[i] = r[i]
    BY <1>0, <1>1, <1>2, SubSeqProperties
  <2>2. /\ SubSeq(q, 1, m) \in Seq(S) /\ Len(SubSeq(q, 1, m)) = m
        /\ \A i \in 1..m : SubSeq(q, 1, m)[i] = q[i]
    BY <1>0, <1>2, SubSeqProperties
  <2>3. \A i \in 1..m : r[i] = q[i]
    BY <1>0, <1>1, <1>2
  <2> QED  BY <2>1, <2>2, <2>3, SeqEqual
<1>3. ASSUME Len(q) <= m, m <= Len(q) + Len(t) PROVE SubSeq(r, 1, m) = q \o SubSeq(t, 1, m - Len(q))
  <2> PICK k : k = m - Len(q)
    OBVIOUS
  <2> PICK u : u = SubSeq(t, 1, k)
    OBVIOUS
  <2>0. k \in Nat /\ k <= Len(t) /\ m = Len(q) + k
    BY <1>0, <1>3
  <2>1. /\ SubSeq(r, 1, m) \in Seq(S) /\ Len(SubSeq(r, 1, m)) = m
        /\ \A i \in 1..m : SubSeq(r, 1, m)[i] = r[i]
    BY <1>0, <1>1, <1>3, SubSeqProperties
  <2>2. u \in Seq(S) /\ Len(u) = k /\ \A i \in 1..k : u[i] = t[i]
    BY <1>0, <2>0, SubSeqProperties
  <2>3. /\ q \o u \in Seq(S) /\ Len(q \o u) = Len(q) + Len(u)
        /\ \A i \in 1..(Len(q) + Len(u)) : (q \o u)[i] = IF i <= Len(q) THEN q[i] ELSE u[i - Len(q)]
    BY <2>2, ConcatProperties
  <2>4. Len(q \o u) = m
    BY <2>0, <2>2, <2>3
  <2>5. ASSUME NEW i \in 1..m PROVE (q \o u)[i] = r[i]
    <3>0. i \in 1..(Len(q) + Len(u)) /\ i \in 1..(Len(q) + Len(t))
      BY <1>0, <2>0, <2>2
    <3>1. CASE i <= Len(q)
      BY <1>1, <2>3, <3>0, <3>1
    <3>2. CASE ~(i <= Len(q))
      <4>1. i - Len(q) \in 1..k
        BY <1>0, <2>0, <3>2
      <4> QED  BY <1>1, <2>2, <2>3, <3>0, <3>2, <4>1
    <3> QED  BY <3>1, <3>2
  <2>6. PICK v \in Seq(S) : v = q \o u
    BY <2>3
  <2>7. PICK w \in Seq(S) : w = SubSeq(r, 1, m)
    BY <2>1
  <2>8. Len(v) = m /\ Len(w) = m /\ \A i \in 1..m : w[i] = v[i]
    BY <2>1, <2>4, <2>5, <2>6, <2>7
  <2>9. w = v
    BY <2>8, SeqEqual
  <2> QED  BY <2>6, <2>7, <2>9
<1> QED
  BY <1>2, <1>3

LEMMA FirstPartLonger ==
    ASSUME NEW S, NEW q \in Seq(S), NEW t \in Seq(S), NEW m \in Nat, Len(q) <= m, m <= Len(q) + Len(t)
    PROVE  SubSeq(q \o t, 1, m) = q \o SubSeq(t, 1, m - Len(q))
  BY FirstPart


LEMMA WholePart ==
    ASSUME NEW S, NEW q \in Seq(S)
    PROVE  SubSeq(q, 1, Len(q)) = q
<1>0. Len(q) \in Nat
  BY LenProperties
<1>1. /\ SubSeq(q, 1, Len(q)) \in Seq(S) /\ Len(SubSeq(q, 1, Len(q))) = Len(q)
      /\ \A i \in 1..Len(q) : SubSeq(q, 1, Len(q))[i] = q[i]
  BY <1>0, SubSeqProperties
<1> QED
  BY <1>1, SeqEqual

\* Each snprintf goes on where the text ended, as long as there is room.
LEMMA MoreText ==
    ASSUME NEW S, NEW G \in Seq(S), NEW t \in Seq(S), NEW b, HoldsText(b, G)
    PROVE  HoldsText(More(b, t), G \o t)
<1>0. Len(G) \in Nat /\ Len(t) \in Nat /\ BufSize \in Nat /\ BufSize > 2
  BY LenProperties, LoggingAssumption
<1>1. Len(G \o t) = Len(G) + Len(t)
  BY ConcatProperties
<1> PICK H : H = G \o t
  OBVIOUS
<1>2. CASE Len(G) < BufSize
  <2>1. b.text = G /\ b.len = Len(G)
    BY <1>2 DEF HoldsText
  <2> PICK k : k = IF Len(t) < BufSize - Len(G) THEN Len(t) ELSE BufSize - 1 - Len(G)
    OBVIOUS
  <2>2a. PICK x : x = G \o SubSeq(t, 1, k)
    OBVIOUS
  <2>2b. PICK n : n = Len(G) + Len(t)
    OBVIOUS
  <2>2. More(b, t) = [text |-> x, len |-> n]
    BY <1>2, <2>1, <2>2a, <2>2b DEF More, Snprintf
  <2>3. More(b, t).text = x /\ More(b, t).len = n
    BY <2>2
  <2>4. CASE Len(G) + Len(t) < BufSize
    <3>1. k = Len(t)
      BY <1>0, <2>4
    <3>2. SubSeq(t, 1, k) = t
      BY <3>1, WholePart
    <3> QED  BY <1>1, <2>2a, <2>2b, <2>3, <2>4, <3>2 DEF HoldsText
  <2>5. CASE ~(Len(G) + Len(t) < BufSize)
    <3>1. k = BufSize - 1 - Len(G) /\ Len(G) <= BufSize - 1 /\ BufSize - 1 <= Len(G) + Len(t) /\ BufSize - 1 \in Nat
      BY <1>0, <1>2, <2>5
    <3>2. PICK m \in Nat : m = BufSize - 1 /\ k = m - Len(G)
      BY <1>0, <3>1
    <3>3. SubSeq(H, 1, m) = x
      <4>1. SubSeq(G \o t, 1, m) = G \o SubSeq(t, 1, m - Len(G))
        BY <3>1, <3>2, FirstPartLonger
      <4> QED  BY <2>2a, <3>2, <4>1
    <3> QED  BY <1>0, <1>1, <2>2b, <2>3, <2>5, <3>2, <3>3 DEF HoldsText
  <2> QED  BY <2>4, <2>5
<1>3. CASE ~(Len(G) < BufSize)
  <2>1. b.text = SubSeq(G, 1, BufSize - 1) /\ b.len \in Nat /\ b.len >= BufSize
    BY <1>3 DEF HoldsText
  <2>2. More(b, t) = b
    BY <1>0, <2>1 DEF More
  <2>3. PICK m \in Nat : m = BufSize - 1 /\ m <= Len(G)
    BY <1>0, <1>3
  <2>4. SubSeq(H, 1, m) = SubSeq(G, 1, m)
    BY <2>3, FirstPart
  <2>5. ~(Len(H) < BufSize)
    BY <1>0, <1>1, <1>3
  <2> QED  BY <2>1, <2>2, <2>3, <2>4, <2>5 DEF HoldsText
<1> QED
  BY <1>2, <1>3

\* The first part of a part.
LEMMA PartOfPart ==
    ASSUME NEW S, NEW q \in Seq(S), NEW n \in Nat, n <= Len(q), NEW m \in Nat, m <= n
    PROVE  SubSeq(SubSeq(q, 1, n), 1, m) = SubSeq(q, 1, m)
<1>0. Len(q) \in Nat
  BY LenProperties
<1>1. /\ SubSeq(q, 1, n) \in Seq(S) /\ Len(SubSeq(q, 1, n)) = n
      /\ \A i \in 1..n : SubSeq(q, 1, n)[i] = q[i]
  BY <1>0, SubSeqProperties
<1>2. PICK p \in Seq(S) : p = SubSeq(q, 1, n)
  BY <1>1
<1>3. Len(p) = n /\ \A i \in 1..n : p[i] = q[i]
  BY <1>1, <1>2
<1>4. /\ SubSeq(p, 1, m) \in Seq(S) /\ Len(SubSeq(p, 1, m)) = m
      /\ \A i \in 1..m : SubSeq(p, 1, m)[i] = p[i]
  BY <1>0, <1>3, SubSeqProperties
<1>5. /\ SubSeq(q, 1, m) \in Seq(S) /\ Len(SubSeq(q, 1, m)) = m
      /\ \A i \in 1..m : SubSeq(q, 1, m)[i] = q[i]
  BY <1>0, SubSeqProperties
<1>6. \A i \in 1..m : p[i] = q[i]
  BY <1>3
<1>7. SubSeq(p, 1, m) = SubSeq(q, 1, m)
  BY <1>4, <1>5, <1>6, SeqEqual
<1> QED
  BY <1>2, <1>7

\* The beginning of the line, with the name cut to the size of the buffer.
LEMMA FirstText ==
    ASSUME NEW S, NEW name \in Seq(S), NEW head \in Seq(S), Len(head) = 1,
           NEW cut, cut = SubSeq(name, 1, IF Len(name) < BufSize THEN Len(name) ELSE BufSize - 1),
           NEW b, b = Snprintf([text |-> <<>>, len |-> 0], head \o cut)
    PROVE  HoldsText(b, head \o name)
<1>0. Len(name) \in Nat /\ BufSize \in Nat /\ BufSize > 2
  BY LenProperties, LoggingAssumption
<1>1. PICK e : e = [text |-> <<>>, len |-> 0]
  OBVIOUS
<1>2. <<>> \in Seq(S) /\ Len(<<>>) = 0
  BY EmptySeq
<1>3. HoldsText(e, <<>>)
  BY <1>0, <1>1, <1>2 DEF HoldsText
<1>4. cut \in Seq(S) /\ Len(cut) = IF Len(name) < BufSize THEN Len(name) ELSE BufSize - 1
  <2>1. PICK k \in Nat : k = IF Len(name) < BufSize THEN Len(name) ELSE BufSize - 1
    BY <1>0
  <2>2. k <= Len(name)
    BY <1>0, <2>1
  <2>3. \A i \in 1..k : name[i] \in S
    BY <1>0, <2>2, ElementOfSeq
  <2>4. SubSeq(name, 1, k) \in Seq(S) /\ Len(SubSeq(name, 1, k)) = k
    BY <2>2, <2>3, SubSeqProperties
  <2> QED  BY <2>1, <2>4
<1>5. PICK p \in Seq(S) : p = head \o cut
  BY <1>4, ConcatProperties
<1>6. HoldsText(More(e, p), <<>> \o p)
  BY <1>2, <1>3, MoreText
<1>7. <<>> \o p = p
  BY ConcatEmptySeq
<1>8. More(e, p) = b
  BY <1>0, <1>1, <1>5 DEF More
<1>9. HoldsText(b, p)
  BY <1>6, <1>7, <1>8
<1>10. CASE Len(name) < BufSize
  <2>1. cut = name
    BY <1>10, WholePart
  <2> QED  BY <1>5, <1>9, <2>1
<1>11. CASE ~(Len(name) < BufSize)
  <2>1. Len(p) = BufSize
    <3>1. Len(head \o cut) = Len(head) + Len(cut)
      BY <1>4, ConcatProperties
    <3> QED  BY <1>0, <1>4, <1>5, <1>11, <3>1
  <2>2. b.text = SubSeq(p, 1, BufSize - 1) /\ b.len \in Nat /\ b.len >= BufSize
    BY <1>0, <1>9, <2>1 DEF HoldsText
  <2>3. PICK G \in Seq(S) : G = head \o name
    BY ConcatProperties
  <2>4. Len(G) = 1 + Len(name)
    BY <2>3, ConcatProperties
  <2>5. SubSeq(G, 1, BufSize) = p
    <3>1. SubSeq(head \o name, 1, BufSize) = head \o SubSeq(name, 1, BufSize - Len(head))
      <4>1. Len(head) <= BufSize /\ BufSize <= Len(head) + Len(name)
        BY <1>0, <1>11
      <4> QED  BY <1>0, <4>1, FirstPartLonger
    <3>2. cut = SubSeq(name, 1, BufSize - Len(head))
      BY <1>11
    <3> QED  BY <1>5, <2>3, <3>1, <3>2
  <2>6. BufSize <= Len(G) /\ BufSize - 1 \in Nat /\ BufSize - 1 <= BufSize
    BY <1>0, <1>11, <2>4
  <2>7. PICK m \in Nat : m = BufSize - 1 /\ m <= BufSize
    BY <2>6
  <2>8. SubSeq(SubSeq(G, 1, BufSize), 1, m) = SubSeq(G, 1, m)
    BY <1>0, <2>6, <2>7, PartOfPart
  <2>9. ~(Len(G) < BufSize)
    BY <1>0, <2>4, <1>11
  <2>10. HoldsText(b, G)
    BY <2>2, <2>5, <2>7, <2>8, <2>9 DEF HoldsText
  <2> QED  BY <2>3, <2>10
<1> QED
  BY <1>10, <1>11

\* A printed line, of a text that ends with its only newline.
WholeLine(text, full) ==
    /\ Len(text) < BufSize
    /\ {i \in DOMAIN text : text[i] = "\n"} = {Len(text)}
    /\ IF Len(full) < BufSize THEN text = full
       ELSE SubSeq(text, 1, BufSize - 2) = SubSeq(full, 1, BufSize - 2)

LEMMA LineEnds ==
    ASSUME NEW S, NEW F \in Seq(S), "\n" \in S, Len(F) > 0, F[Len(F)] = "\n", \A i \in 1..(Len(F) - 1) : F[i] # "\n",
           NEW b, HoldsText(b, F)
    PROVE  WholeLine(EndLine(b), F)
<1>0. Len(F) \in Nat /\ BufSize \in Nat /\ BufSize > 2 /\ DOMAIN F = 1..Len(F)
  BY LenProperties, LoggingAssumption
<1>1. CASE Len(F) < BufSize
  <2>1. b.text = F /\ b.len = Len(F)
    BY <1>1 DEF HoldsText
  <2>2. EndLine(b) = F
    BY <1>0, <1>1, <2>1 DEF EndLine
  <2>3. {i \in DOMAIN F : F[i] = "\n"} = {Len(F)}
    BY <1>0
  <2> QED  BY <1>1, <2>2, <2>3 DEF WholeLine
<1>2. CASE ~(Len(F) < BufSize)
  <2>1. PICK m \in Nat : m = BufSize - 1 /\ m <= Len(F) - 1 /\ m > 1
    BY <1>0, <1>2
  <2>2. b.text = SubSeq(F, 1, m) /\ b.len >= BufSize
    BY <1>2, <2>1 DEF HoldsText
  <2>3. PICK q : q = SubSeq(F, 1, m)
    OBVIOUS
  <2>4. q \in Seq(S) /\ Len(q) = m /\ (\A i \in 1..m : q[i] = F[i]) /\ DOMAIN q = 1..m
    <3>1. \A i \in 1..m : F[i] \in S
      BY <1>0, <2>1, ElementOfSeq
    <3>2. q \in Seq(S) /\ Len(q) = m /\ (\A i \in 1..m : q[i] = F[i])
      BY <2>1, <2>3, <3>1, SubSeqProperties
    <3> QED  BY <3>2, LenProperties
  <2>5. PICK x : x = [q EXCEPT ![m] = "\n"]
    OBVIOUS
  <2>6. EndLine(b) = x
    BY <2>1, <2>2, <2>3, <2>5 DEF EndLine
  <2>7. x \in Seq(S) /\ Len(x) = m /\ DOMAIN x = 1..m /\ \A i \in 1..m : x[i] = IF i = m THEN "\n" ELSE q[i]
    BY <2>1, <2>4, <2>5
  <2>8. {i \in DOMAIN x : x[i] = "\n"} = {m}
    <3>1. \A i \in 1..m : i # m => x[i] # "\n"
      <4> SUFFICES ASSUME NEW i \in 1..m, i # m PROVE x[i] # "\n"
        OBVIOUS
      <4>1. x[i] = F[i] /\ i \in 1..(Len(F) - 1)
        BY <1>0, <2>1, <2>4, <2>7
      <4> QED  BY <4>1
    <3>2. m \in 1..m /\ x[m] = "\n"
      BY <2>1, <2>7
    <3> QED  BY <2>7, <3>1, <3>2
  <2>9. SubSeq(x, 1, BufSize - 2) = SubSeq(F, 1, BufSize - 2)
    <3>1. PICK k \in Nat : k = BufSize - 2 /\ k < m /\ k <= Len(F)
      BY <1>0, <2>1
    <3>2. /\ SubSeq(x, 1, k) \in Seq(S) /\ Len(SubSeq(x, 1, k)) = k
          /\ \A i \in 1..k : SubSeq(x, 1, k)[i] = x[i]
      <4>1. \A i \in 1..k : x[i] \in S
        BY <2>1, <2>7, <3>1, ElementOfSeq
      <4> QED  BY <4>1, SubSeqProperties
    <3>3. /\ SubSeq(F, 1, k) \in Seq(S) /\ Len(SubSeq(F, 1, k)) = k
          /\ \A i \in 1..k : SubSeq(F, 1, k)[i] = F[i]
      <4>1. \A i \in 1..k : F[i] \in S
        BY <1>0, <3>1, ElementOfSeq
      <4> QED  BY <4>1, SubSeqProperties
    <3>4. \A i \in 1..k : x[i] = F[i]
      BY <2>1, <2>4, <2>7, <3>1
    <3>5. SubSeq(x, 1, k) = SubSeq(F, 1, k)
      BY <3>2, <3>3, <3>4, SeqEqual
    <3> QED  BY <3>1, <3>5
  <2>10. Len(x) < BufSize
    BY <1>0, <2>1, <2>7
  <2> QED  BY <1>2, <2>6, <2>7, <2>8, <2>9, <2>10 DEF WholeLine
<1> QED
  BY <1>1, <1>2

LEMMA OneElement ==
    ASSUME NEW S, NEW e \in S
    PROVE  <<e>> \in Seq(S) /\ Len(<<e>>) = 1 /\ <<e>>[1] = e
  OBVIOUS

LEMMA Repeated ==
    ASSUME NEW S, NEW e \in S, NEW n \in Nat
    PROVE  [i \in 1..n |-> e] \in Seq(S)
  OBVIOUS

\* A text joined from three.
Joined(x, y) == x \o y

LEMMA JoinThree ==
    ASSUME NEW S, NEW x \in Seq(S), NEW y \in Seq(S), NEW z \in Seq(S)
    PROVE  Joined(Joined(x, y), z) = Joined(x, Joined(y, z))
<1>1. (x \o y) \o z = x \o (y \o z)
  BY ConcatAssociative
<1> QED
  BY <1>1 DEF Joined

\* jh_log_print.
LEMMA PrintStep ==
    ASSUME NEW Chars, NamesAreFixedUp(Chars), NEW d \in Declaration, NEW n \in Nat,
           NEW error \in {<<>>, <<"e">>}, JhLogPrint(d, n, error, <<"t">>)
    PROVE  WholeLine(printed'.text, printed'.full)
<1>1. PICK C : C = Chars \cup {"[", "m", "e", "t"}
  OBVIOUS
<1>2. PICK S : S = C \cup {"\n"}
  OBVIOUS
<1>3. "\n" \notin C /\ "\n" \in S /\ C \subseteq S
  BY <1>1, <1>2 DEF NamesAreFixedUp
<1>4. d.name \in Seq(C) /\ d.name \in Seq(S)
  <2>1. d.name \in Seq(Chars) /\ Chars \subseteq C
    BY <1>1 DEF NamesAreFixedUp
  <2> QED  BY <1>3, <2>1
<1>5. PICK name \in Seq(C) : name = d.name
  BY <1>4
<1>6. PICK head \in Seq(C) : head = <<"[">> /\ Len(head) = 1
  <2>1. "[" \in C
    BY <1>1
  <2> QED  BY <2>1, OneElement
<1>7. PICK ms \in Seq(C) : ms = [i \in 1..n |-> "m"]
  <2>1. "m" \in C
    BY <1>1
  <2> QED  BY <2>1, Repeated
<1>8. PICK err \in Seq(C) : err = error
  <2>1. <<>> \in Seq(C)
    BY EmptySeq
  <2>2. <<"e">> \in Seq(C)
    BY <1>1
  <2> QED  BY <2>1, <2>2
<1>9. PICK tail \in Seq(C) : tail = <<"t">>
  <2>1. "t" \in C
    BY <1>1
  <2> QED  BY <2>1, OneElement
<1>10. PICK nl \in Seq(S) : nl = <<"\n">> /\ Len(nl) = 1 /\ nl[1] = "\n"
  BY <1>3, OneElement
<1>11. PICK cut : cut = SubSeq(name, 1, IF Len(name) < BufSize THEN Len(name) ELSE BufSize - 1)
  OBVIOUS
<1>12. cut = FunctionNameFixup(d.text, BufSize)
  BY <1>5, <1>11 DEF NamesAreFixedUp
<1>13. PICK b1 : b1 = Snprintf([text |-> <<>>, len |-> 0], head \o cut)
  OBVIOUS
<1>14. PICK G1 \in Seq(C) : G1 = head \o name
  BY ConcatProperties
<1>15. HoldsText(b1, G1)
  BY <1>6, <1>11, <1>13, <1>14, FirstText
<1>16. PICK G2 \in Seq(C) : G2 = G1 \o ms
  BY ConcatProperties
<1>17. HoldsText(More(b1, ms), G2)
  BY <1>15, <1>16, MoreText
<1>18. PICK G3 \in Seq(C) : G3 = G2 \o err
  BY ConcatProperties
<1>19. HoldsText(More(More(b1, ms), err), G3)
  BY <1>17, <1>18, MoreText
<1>20. PICK body \in Seq(C) : body = G3 \o tail
  BY ConcatProperties
<1>21. G3 \in Seq(S) /\ tail \in Seq(S) /\ body \in Seq(S)
  BY <1>3
<1>22. PICK F \in Seq(S) : F = body \o nl
  BY <1>21, ConcatProperties
<1>23. PICK rest \in Seq(S) : rest = tail \o nl
  BY <1>21, ConcatProperties
<1>24. F = G3 \o rest
  <2>1. PICK x \in Seq(S) : x = G3
    BY <1>21
  <2>2. PICK y \in Seq(S) : y = tail
    BY <1>21
  <2>3. body = x \o y /\ rest = y \o nl
    BY <1>20, <1>23, <2>1, <2>2
  <2>4. body \o nl = x \o rest
    <3>1. Joined(Joined(x, y), nl) = Joined(x, Joined(y, nl))
      BY JoinThree
    <3> QED  BY <2>3, <3>1 DEF Joined
  <2> QED  BY <1>22, <2>1, <2>4
<1>25. PICK b : b = More(More(More(b1, ms), err), rest)
  OBVIOUS
<1>26. HoldsText(b, F)
  BY <1>19, <1>21, <1>24, <1>25, MoreText
<1>27. /\ Len(body) \in Nat /\ Len(F) = Len(body) + 1
       /\ F[Len(F)] = "\n" /\ \A i \in 1..(Len(F) - 1) : F[i] # "\n"
  <2>1. Len(body) \in Nat /\ \A i \in 1..Len(body) : body[i] \in C
    BY LenProperties, ElementOfSeq
  <2>2. /\ Len(F) = Len(body) + Len(nl)
        /\ \A i \in 1..(Len(body) + Len(nl)) : F[i] = IF i <= Len(body) THEN body[i] ELSE nl[i - Len(body)]
    BY <1>21, <1>22, ConcatProperties
  <2>3. Len(F) = Len(body) + 1
    BY <1>10, <2>2
  <2>4. F[Len(body) + 1] = nl[1]
    <3>1. Len(body) + 1 \in 1..(Len(body) + Len(nl)) /\ ~(Len(body) + 1 <= Len(body)) /\ (Len(body) + 1) - Len(body) = 1
      BY <1>10, <2>1
    <3> QED  BY <2>2, <3>1
  <2>5. ASSUME NEW i \in 1..(Len(F) - 1) PROVE F[i] # "\n"
    <3>1. i \in 1..Len(body) /\ i \in 1..(Len(body) + Len(nl)) /\ i <= Len(body)
      BY <1>10, <2>1, <2>3
    <3>2. F[i] = body[i] /\ body[i] \in C
      BY <2>1, <2>2, <3>1
    <3> QED  BY <1>3, <3>2
  <2> QED  BY <1>10, <2>1, <2>3, <2>4, <2>5
<1>28. WholeLine(EndLine(b), F)
  <2>1. Len(F) > 0
    BY <1>27
  <2> QED  BY <1>3, <1>26, <1>27, <2>1, LineEnds
<1>29. printed'.text = EndLine(b)
  <2>1. b = More(More(More(Snprintf([text |-> <<>>, len |-> 0], <<"[">> \o FunctionNameFixup(d.text, BufSize)),
                           [i \in 1..n |-> "m"]), error), <<"t">> \o <<"\n">>)
    BY <1>6, <1>7, <1>8, <1>9, <1>10, <1>12, <1>13, <1>23, <1>25
  <2>2. PICK x : x = EndLine(b)
    OBVIOUS
  <2>3. PICK y : y = Full(<<"[">> \o d.name, n, error, <<"t">>)
    OBVIOUS
  <2>4. PICK z : z = (IF logFile THEN 1 ELSE 0) + (IF copyFile THEN 1 ELSE 0)
    OBVIOUS
  <2>5. printed' = [text |-> x, full |-> y, to |-> z]
    BY <2>1, <2>2, <2>3, <2>4, Zenon DEF JhLogPrint
  <2> QED  BY <2>2, <2>5
<1>30. printed'.full = F
  <2>1. PICK x : x = printed'.text
    OBVIOUS
  <2>3. PICK y : y = Full(<<"[">> \o d.name, n, error, <<"t">>)
    OBVIOUS
  <2>5. printed'.full = y
    BY <2>3, Zenon DEF JhLogPrint
  <2>6. y = F
    BY <1>5, <1>6, <1>7, <1>8, <1>9, <1>10, <1>14, <1>16, <1>18, <1>20, <1>22, <2>3 DEF Full
  <2> QED  BY <2>5, <2>6
<1> QED
  BY <1>28, <1>29, <1>30

LEMMA DumpFits == \A label \in 0..10, cnt \in 1..16 : DumpLine(label, cnt, cnt) + 1 <= 100
  BY DEF DumpLine

LEMMA LineStarts == LogInit => WholeLine(printed.text, printed.full)
<1> SUFFICES ASSUME LogInit PROVE WholeLine(printed.text, printed.full)
  OBVIOUS
<1>1. PICK q : q = <<"\n">>
  OBVIOUS
<1>2. printed.text = q /\ printed.full = q
  BY <1>1 DEF LogInit, NoLine
<1>3. Len(q) = 1 /\ DOMAIN q = {1} /\ q[1] = "\n"
  BY <1>1
<1> QED
  BY <1>2, <1>3, LoggingAssumption DEF WholeLine

\* LinesAreWhole: a line is printed whole or cut where the buffer ends, with
\* one newline at its end, for any buffer size, message and error text, and any
\* declarations of which function_name_fixup finds the names.
THEOREM LinesAlwaysWhole ==
    ASSUME NEW CONSTANT Chars, NamesAreFixedUp(Chars)
    PROVE  LogSpec => []LinesAreWhole
<1>1. LogInit => WholeLine(printed.text, printed.full)
  BY LineStarts
<1>2. WholeLine(printed.text, printed.full) /\ [RegistryNext \/ PrintNext]_logVars
        => WholeLine(printed.text, printed.full)'
  <2> SUFFICES ASSUME WholeLine(printed.text, printed.full), [RegistryNext \/ PrintNext]_logVars
               PROVE  WholeLine(printed.text, printed.full)'
    OBVIOUS
  <2>1. CASE \E d \in Declaration, n \in 0..BufSize, error \in {<<>>, <<"e">>} : JhLogPrint(d, n, error, <<"t">>)
    <3>1. PICK d \in Declaration, n \in 0..BufSize, error \in {<<>>, <<"e">>} : JhLogPrint(d, n, error, <<"t">>)
      BY <2>1
    <3>2. n \in Nat
      BY LoggingAssumption
    <3>3. WholeLine(printed'.text, printed'.full)
      BY <3>1, <3>2, PrintStep
    <3> QED  BY <3>3
  <2>2. CASE UNCHANGED printed
    BY <2>2
  <2>3. \/ \E d \in Declaration, n \in 0..BufSize, error \in {<<>>, <<"e">>} : JhLogPrint(d, n, error, <<"t">>)
        \/ UNCHANGED printed
    BY DEF RegistryNext, PrintNext, logVars, RegisterLogging, SetCats, SetLevel, GetNames, Cleanup,
           SetFile, SetCopyFile, LoggingMark
  <2> QED  BY <2>1, <2>2, <2>3
<1>3. WholeLine(printed.text, printed.full) => LinesAreWhole
  BY DumpFits DEF WholeLine, LinesAreWhole
<1> QED
  BY <1>1, <1>2, <1>3, PTL DEF LogSpec

-----------------------------------------------------------------------------
(* Agents *)

Family == {"none", "async", "cast", "sync", "ret"}
CopiedParams == Seq([val : Nat \X Nat])
NamedParams == Seq([ref : Sender, place : Nat])
StoredAgent == [family : Family, to : Receiver \cup {None}, params : CopiedParams \cup NamedParams,
                serial : Nat, ret : Nat]
QueueEntry == [a : Agent, by : Sender \cup {None}]

AgentTypes ==
    /\ agents \in [Agent -> StoredAgent]
    /\ refs \in [Agent -> Int] /\ payload \in [Agent -> Int]
    /\ mine \in [Sender -> Nat] /\ calls \in Nat
    /\ pc \in [Sender -> {Idle, "made", "waiting", "done", "returning"}]
    /\ hand \in [Sender -> Agent \cup {None}] /\ answer \in [Sender -> Nat \X Nat]
    /\ sends \in Seq(QueueEntry)
    /\ active \in QueueEntry \/ active = [a |-> None, by |-> None]

\* An agent is in the queue or being delivered once at most.
IsQueued(a) == \E i \in 1..Len(sends) : sends[i].a = a
EntriesDiffer ==
    /\ \A i, j \in 1..Len(sends) : sends[i].a = sends[j].a => i = j
    /\ \A i \in 1..Len(sends) : sends[i].a # active.a

\* An entry of the queue, or the one that is delivered: it keeps the agent
\* alive, or its sender waits for it.
EntryFits(e) ==
    /\ e.by = None => /\ refs[e.a] = 1 /\ agents[e.a].family \in {"async", "cast"}
                      /\ \A s \in Sender : hand[s] # e.a
    /\ e.by # None => hand[e.by] = e.a /\ pc[e.by] = "waiting"
EntriesFit ==
    /\ \A i \in 1..Len(sends) : EntryFits(sends[i])
    /\ active.a # None => EntryFits(active)

\* What a sender has in hand, and who else refers to it.
HandFits(s) ==
    /\ pc[s] = Idle <=> hand[s] = None
    /\ pc[s] = "made" => refs[hand[s]] = 0
    /\ pc[s] \in {"waiting", "done"} => refs[hand[s]] = 2
    /\ pc[s] = "returning" => refs[hand[s]] = 1
    /\ pc[s] \in {"waiting", "done", "returning"} => Synchronous(hand[s])
    /\ pc[s] \in {"made", "done", "returning"} => ~IsQueued(hand[s]) /\ active.a # hand[s]
    /\ pc[s] = "waiting" => IsQueued(hand[s]) \/ active.a = hand[s]
HandsFit ==
    /\ \A s \in Sender : HandFits(s)
    /\ \A s, t \in Sender : hand[s] = hand[t] /\ hand[s] # None => s = t

\* An agent that is not freed is queued, delivered or in a hand.
AliveIsHeld ==
    \A a \in Agent : refs[a] # Free_ => IsQueued(a) \/ active.a = a \/ \E s \in Sender : hand[s] = a

\* What an agent stores.
IsCopy(g) == \E n \in Nat : g.params = [i \in 1..n |-> [val |-> <<g.serial, i>>]]
NamesSender(g, s) == \E n \in Nat : g.params = [i \in 1..n |-> [ref |-> s, place |-> i]]
ContentFits(a) ==
    /\ refs[a] # Free_ => /\ agents[a].to \notin retired
                          /\ agents[a].family \in {"async", "cast", "sync", "ret"}
                          /\ agents[a].family \in {"async", "ret"} => IsCopy(agents[a])
                          /\ agents[a].family = "cast" <=> payload[a] > 0
    /\ payload[a] > 0 => refs[a] # Free_
ContentsFit == \A a \in Agent : ContentFits(a)

\* While a synchronous call is under way its sender's variable is what it was.
CallFits(s) ==
    /\ pc[s] \in {"made", "waiting"} =>
          /\ agents[hand[s]].serial = mine[s]
          /\ agents[hand[s]].family = "sync" => NamesSender(agents[hand[s]], s)
    /\ pc[s] \in {"done", "returning"} /\ agents[hand[s]].family = "ret" =>
          agents[hand[s]].serial = mine[s] /\ agents[hand[s]].ret = mine[s] + 1
    /\ answer[s] # <<0, 0>> => answer[s][2] = answer[s][1] + 1
CallsFit == \A s \in Sender : CallFits(s)

AgentInv ==
    /\ AgentTypes /\ EntriesDiffer /\ EntriesFit /\ HandsFit /\ AliveIsHeld /\ ContentsFit /\ CallsFit
    /\ ~wrong

LEMMA AgentTypesUnfold ==
    ASSUME AgentTypes
    PROVE  /\ \A i \in 1..Len(sends) : sends[i] \in QueueEntry /\ sends[i].a \in Agent
                                       /\ sends[i].by \in Sender \cup {None}
           /\ active.a \in Agent \cup {None} /\ active.by \in Sender \cup {None}
           /\ active.a # None => active \in QueueEntry
           /\ Len(sends) \in Nat
<1> USE DEF AgentTypes, QueueEntry
<1>1. \A i \in 1..Len(sends) : sends[i] \in QueueEntry
  BY ElementOfSeq
<1>2. \A i \in 1..Len(sends) : sends[i].a \in Agent /\ sends[i].by \in Sender \cup {None}
  BY <1>1
<1>3. Len(sends) \in Nat
  BY LenProperties
<1> QED
  BY <1>1, <1>2, <1>3

\* Freed storage is in no queue, delivery or hand.
LEMMA FreeIsUnused ==
    ASSUME AgentInv, NEW a \in Agent, refs[a] = Free_
    PROVE  ~IsQueued(a) /\ active.a # a /\ \A t \in Sender : hand[t] # a
<1>0. a # None
  BY AgentsAssumption
<1>1. ASSUME NEW t \in Sender PROVE hand[t] # a
  <2>1. pc[t] \in {Idle, "made", "waiting", "done", "returning"}
    BY DEF AgentInv, AgentTypes
  <2>2. HandFits(t)
    BY DEF AgentInv, HandsFit
  <2> QED  BY <1>0, <2>1, <2>2 DEF HandFits, Free_
<1>2. ASSUME NEW e \in QueueEntry, EntryFits(e) PROVE e.a # a
  <2>1. CASE e.by = None
    BY <2>1, <1>2 DEF EntryFits, Free_
  <2>2. CASE e.by # None
    <3>1. e.by \in Sender /\ hand[e.by] = e.a
      BY <2>2, <1>2 DEF EntryFits, QueueEntry
    <3> QED  BY <3>1, <1>1
  <2> QED  BY <2>1, <2>2
<1>3. ~IsQueued(a)
  BY <1>2, AgentTypesUnfold DEF AgentInv, EntriesFit, IsQueued
<1>4. active.a # a
  BY <1>0, <1>2, AgentTypesUnfold DEF AgentInv, EntriesFit
<1> QED
  BY <1>1, <1>3, <1>4

\* The parameters a family stores.
LEMMA ParamsStored ==
    ASSUME NEW s \in Sender, NEW n \in Nat, NEW m \in Nat, mine[s] = m
    PROVE  /\ \A f \in {"async", "cast", "ret"} :
                Params(f, s, n) = [i \in 1..n |-> [val |-> <<m, i>>]]
           /\ Params("sync", s, n) = [i \in 1..n |-> [ref |-> s, place |-> i]]
           /\ \A f \in {"async", "cast", "sync", "ret"} : Params(f, s, n) \in CopiedParams \cup NamedParams
<1>1. Params("async", s, n) = [i \in 1..n |-> [val |-> <<m, i>>]]
  BY DEF Params, AsyncParams, Copies
<1>2. Params("cast", s, n) = [i \in 1..n |-> [val |-> <<m, i>>]]
  BY DEF Params, CastParams, Copies
<1>3. Params("ret", s, n) = [i \in 1..n |-> [val |-> <<m, i>>]]
  BY DEF Params, RetParams, Copies
<1>4. Params("sync", s, n) = [i \in 1..n |-> [ref |-> s, place |-> i]]
  BY DEF Params, SyncParams, References
<1>5. [i \in 1..n |-> [val |-> <<m, i>>]] \in CopiedParams
  BY DEF CopiedParams
<1>6. [i \in 1..n |-> [ref |-> s, place |-> i]] \in NamedParams
  BY DEF NamedParams
<1> QED
  BY <1>1, <1>2, <1>3, <1>4, <1>5, <1>6

LEMMA AgentStarts ==
    ASSUME AgentInit
    PROVE  AgentInv
<1> USE DEF AgentInit, None, Idle, Free_
<1>0. sends = <<>> /\ Len(sends) = 0 /\ sends \in Seq(QueueEntry)
  BY EmptySeq
<1>1. AgentTypes
  <2>1. NoAgent \in StoredAgent
    <3>1. <<>> \in CopiedParams
      BY EmptySeq DEF CopiedParams
    <3> QED  BY <3>1 DEF NoAgent, StoredAgent, Family
  <2> QED  BY <1>0, <2>1 DEF AgentTypes
<1>2. EntriesDiffer /\ EntriesFit
  BY <1>0 DEF EntriesDiffer, EntriesFit
<1>3. HandsFit
  BY DEF HandsFit, HandFits
<1>4. AliveIsHeld /\ ContentsFit
  BY DEF AliveIsHeld, ContentsFit, ContentFits
<1>5. CallsFit
  BY DEF CallsFit, CallFits
<1> QED
  BY <1>1, <1>2, <1>3, <1>4, <1>5 DEF AgentInv

LEMMA NextValueKeeps ==
    ASSUME AgentInv, NEW s \in Sender, NextValue(s)
    PROVE  AgentInv'
<1> USE DEF AgentInv, NextValue
<1>1. AgentTypes'
  BY DEF AgentTypes
<1>2. EntriesDiffer' /\ EntriesFit'
  BY DEF EntriesDiffer, EntriesFit, EntryFits
<1>3. HandsFit'
  BY DEF HandsFit, HandFits, IsQueued, Synchronous
<1>4. AliveIsHeld' /\ ContentsFit'
  BY DEF AliveIsHeld, ContentsFit, ContentFits, IsQueued
<1>5. CallsFit'
  BY DEF CallsFit, CallFits, AgentTypes, Idle
<1> QED
  BY <1>1, <1>2, <1>3, <1>4, <1>5

LEMMA MakeAgentKeeps ==
    ASSUME AgentInv, NEW s \in Sender, NEW a \in Agent, NEW f \in {"async", "cast", "sync", "ret"},
           NEW to \in Receiver, NEW n \in Arity, MakeAgent(s, a, f, to, n)
    PROVE  AgentInv'
<1> USE DEF AgentInv, MakeAgent
<1>0. n \in Nat /\ a # None /\ mine[s] \in Nat
  BY AgentsAssumption DEF AgentTypes
<1>a. PICK m \in Nat : m = mine[s]
  BY <1>0
<1>1. /\ \A h \in {"async", "cast", "ret"} : Params(h, s, n) = [i \in 1..n |-> [val |-> <<m, i>>]]
      /\ Params("sync", s, n) = [i \in 1..n |-> [ref |-> s, place |-> i]]
      /\ \A h \in {"async", "cast", "sync", "ret"} : Params(h, s, n) \in CopiedParams \cup NamedParams
  <2> HIDE DEF AgentInv, MakeAgent
  <2> QED  BY <1>0, <1>a, ParamsStored
<1>2. PICK ps \in CopiedParams \cup NamedParams : ps = Params(f, s, n)
  BY <1>1
<1>3. PICK g \in StoredAgent : g = [family |-> f, to |-> to, serial |-> m, params |-> ps, ret |-> 0]
  <2> HIDE DEF AgentInv, MakeAgent
  <2> QED  BY <1>0 DEF StoredAgent, Family
<1>b. g.family = f /\ g.to = to /\ g.serial = m /\ g.params = ps /\ g.ret = 0
  <2> HIDE DEF AgentInv, MakeAgent
  <2> QED  BY <1>3
<1>4. agents' = [agents EXCEPT ![a] = g]
  BY <1>a, <1>2, <1>3
<1>5. ~IsQueued(a) /\ active.a # a /\ \A t \in Sender : hand[t] # a
  BY FreeIsUnused
<1>6. f \in {"async", "ret"} => IsCopy(g)
  <2> SUFFICES ASSUME f \in {"async", "ret"} PROVE g.params = [i \in 1..n |-> [val |-> <<g.serial, i>>]]
    BY <1>0 DEF IsCopy
  <2> HIDE DEF AgentInv, MakeAgent
  <2>1. g.params = [i \in 1..n |-> [val |-> <<m, i>>]]
    BY <1>1, <1>2, <1>b
  <2> QED  BY <2>1, <1>b, Zenon
<1>7. f = "sync" => NamesSender(g, s)
  BY <1>0, <1>1, <1>2, <1>b DEF NamesSender
<1>11. AgentTypes'
  BY <1>4 DEF AgentTypes
<1>12. EntriesDiffer'
  BY DEF EntriesDiffer
<1>8. /\ \A b \in Agent : b # a => agents'[b] = agents[b] /\ refs'[b] = refs[b] /\ payload'[b] = payload[b]
      /\ agents'[a] = g /\ refs'[a] = 0 /\ payload'[a] = (IF f = "cast" THEN 1 ELSE 0)
      /\ \A t \in Sender : t # s => hand'[t] = hand[t] /\ pc'[t] = pc[t]
      /\ hand'[s] = a /\ pc'[s] = "made" /\ pc[s] = Idle
  BY <1>4 DEF AgentTypes
<1>13. EntriesFit'
  <2>1. ASSUME NEW e \in QueueEntry, EntryFits(e), e.a # a PROVE EntryFits(e)'
    BY <2>1, <1>8 DEF EntryFits, QueueEntry, Idle
  <2>2. \A i \in 1..Len(sends) : EntryFits(sends[i])'
    BY <2>1, <1>5, AgentTypesUnfold DEF EntriesFit, IsQueued
  <2>3. active.a # None => EntryFits(active)'
    BY <2>1, <1>5, AgentTypesUnfold DEF EntriesFit
  <2> QED  BY <2>2, <2>3 DEF EntriesFit
<1>14. HandsFit'
  <2>1. ASSUME NEW t \in Sender PROVE HandFits(t)'
    BY <2>1, <1>0, <1>5, <1>8 DEF HandsFit, HandFits, IsQueued, Synchronous, AgentTypes, Idle, None
  <2>2. \A t, u \in Sender : (hand[t] = hand[u] /\ hand[t] # None)' => t = u
    BY <1>5, <1>8 DEF HandsFit
  <2> QED  BY <2>1, <2>2 DEF HandsFit
<1>15. AliveIsHeld'
  <2>1. hand[s] = None /\ \A b \in Agent : b # None
    BY <1>8, AgentsAssumption DEF HandsFit, HandFits
  <2>2. ASSUME NEW b \in Agent, b # a, refs'[b] # Free_
        PROVE  (IsQueued(b) \/ active.a = b \/ \E t \in Sender : hand[t] = b)'
    <3>1. IsQueued(b) \/ active.a = b \/ \E t \in Sender : hand[t] = b
      BY <2>2, <1>8 DEF AliveIsHeld
    <3>2. IsQueued(b)' <=> IsQueued(b)
      BY DEF IsQueued
    <3> QED  BY <2>1, <3>1, <3>2, <1>8
  <2> QED  BY <2>2, <1>8 DEF AliveIsHeld
<1>16. ContentsFit'
  BY <1>b, <1>6, <1>8 DEF ContentsFit, ContentFits, Free_
<1>17. CallsFit'
  BY <1>a, <1>b, <1>5, <1>7, <1>8 DEF CallsFit, CallFits, AgentTypes, HandsFit, HandFits, Idle, None
<1> QED
  BY <1>11, <1>12, <1>13, <1>14, <1>15, <1>16, <1>17

\* A new entry at the end of the queue.
LEMMA EntryAppended ==
    ASSUME AgentInv, NEW e \in QueueEntry, sends' = Append(sends, e), active' = active,
           ~IsQueued(e.a), active.a # e.a
    PROVE  /\ sends' \in Seq(QueueEntry) /\ Len(sends') = Len(sends) + 1
           /\ \A i \in 1..Len(sends) : sends'[i] = sends[i]
           /\ sends'[Len(sends) + 1] = e
           /\ \A b : IsQueued(b)' <=> (IsQueued(b) \/ b = e.a)
           /\ EntriesDiffer'
<1>0. sends \in Seq(QueueEntry) /\ Len(sends) \in Nat
  BY AgentTypesUnfold DEF AgentInv, AgentTypes
<1>1. /\ sends' \in Seq(QueueEntry) /\ Len(sends') = Len(sends) + 1
      /\ \A i \in 1..Len(sends) : sends'[i] = sends[i]
      /\ sends'[Len(sends) + 1] = e
  BY <1>0, AppendProperties
<1>2. ASSUME NEW b PROVE IsQueued(b)' <=> (IsQueued(b) \/ b = e.a)
  BY <1>0, <1>1 DEF IsQueued
<1>3. EntriesDiffer'
  BY <1>0, <1>1 DEF AgentInv, EntriesDiffer, IsQueued
<1> QED
  BY <1>1, <1>2, <1>3

LEMMA SendAsyncKeeps ==
    ASSUME AgentInv, NEW s \in Sender, SendAsync(s)
    PROVE  AgentInv'
<1> USE DEF AgentInv, SendAsync
<1>1. /\ pc[s] = "made" /\ hand[s] \in Agent /\ hand[s] # None /\ refs[hand[s]] = 0
      /\ ~IsQueued(hand[s]) /\ active.a # hand[s]
      /\ \A t \in Sender : hand[t] = hand[s] => t = s
      /\ \A b \in Agent : b # None
  BY AgentsAssumption DEF HandsFit, HandFits, AgentTypes, Idle, None
<1>2. PICK a \in Agent : a = hand[s]
  BY <1>1
<1>3. PICK e \in QueueEntry : e = [a |-> a, by |-> None]
  BY DEF QueueEntry
<1>4. e.a = a /\ e.by = None
  BY <1>3
<1>5. sends' = Append(sends, e) /\ active' = active
  BY <1>2, <1>3
<1>6. /\ sends' \in Seq(QueueEntry) /\ Len(sends') = Len(sends) + 1
      /\ \A i \in 1..Len(sends) : sends'[i] = sends[i]
      /\ sends'[Len(sends) + 1] = e
      /\ \A b : IsQueued(b)' <=> (IsQueued(b) \/ b = a)
      /\ EntriesDiffer'
  <2> HIDE DEF AgentInv, SendAsync
  <2> QED  BY <1>1, <1>2, <1>4, <1>5, EntryAppended
<1>7. /\ \A b \in Agent : b # a => refs'[b] = refs[b]
      /\ refs[a] = 0 /\ refs'[a] = 1
      /\ \A t \in Sender : t # s => hand'[t] = hand[t] /\ pc'[t] = pc[t]
      /\ hand'[s] = None /\ pc'[s] = Idle
  BY <1>1, <1>2 DEF AgentTypes
<1>8. agents[a].family \in {"async", "cast"}
  BY <1>2, <1>7 DEF ContentsFit, ContentFits, Free_, Synchronous
<1>11. AgentTypes'
  <2>1. refs' \in [Agent -> Int] /\ hand' \in [Sender -> Agent \cup {None}]
    BY <1>1 DEF AgentTypes
  <2>2. pc' \in [Sender -> {Idle, "made", "waiting", "done", "returning"}]
    BY DEF AgentTypes
  <2> QED  BY <1>6, <2>1, <2>2 DEF AgentTypes
<1>13. EntriesFit'
  <2>1. ASSUME NEW d \in QueueEntry, EntryFits(d), d.a # a PROVE EntryFits(d)'
    BY <2>1, <1>1, <1>2, <1>7 DEF EntryFits, QueueEntry, None, Idle
  <2>2. EntryFits(e)'
    BY <1>1, <1>2, <1>4, <1>7, <1>8 DEF EntryFits
  <2>3. \A i \in 1..Len(sends) : EntryFits(sends[i])'
    BY <2>1, <1>1, <1>2, AgentTypesUnfold DEF EntriesFit, IsQueued
  <2>4. active.a # None => EntryFits(active)'
    BY <2>1, <1>1, <1>2, AgentTypesUnfold DEF EntriesFit
  <2>5. ASSUME NEW i \in 1..Len(sends') PROVE EntryFits(sends[i])'
    <3>1. i \in 1..Len(sends) \/ i = Len(sends) + 1
      BY <1>6, AgentTypesUnfold
    <3>2. CASE i \in 1..Len(sends)
      BY <2>3, <3>2
    <3>3. CASE i = Len(sends) + 1
      BY <2>2, <3>3, <1>6 DEF EntryFits
    <3> QED  BY <3>1, <3>2, <3>3
  <2> QED  BY <2>5, <2>4 DEF EntriesFit, EntryFits
<1>14. HandsFit'
  <2>1. ASSUME NEW t \in Sender PROVE HandFits(t)'
    BY <2>1, <1>1, <1>2, <1>6, <1>7 DEF HandsFit, HandFits, Synchronous, AgentTypes, Idle, None
  <2>2. \A t, u \in Sender : (hand[t] = hand[u] /\ hand[t] # None)' => t = u
    BY <1>7 DEF HandsFit
  <2> QED  BY <2>1, <2>2 DEF HandsFit
<1>15. AliveIsHeld'
  <2>2. ASSUME NEW b \in Agent, b # a, refs'[b] # Free_
        PROVE  (IsQueued(b) \/ active.a = b \/ \E t \in Sender : hand[t] = b)'
    <3>1. IsQueued(b) \/ active.a = b \/ \E t \in Sender : hand[t] = b
      BY <2>2, <1>7 DEF AliveIsHeld
    <3> QED  BY <2>2, <3>1, <1>2, <1>6, <1>7
  <2> QED  BY <2>2, <1>6 DEF AliveIsHeld
<1>16. ContentsFit'
  BY <1>7 DEF ContentsFit, ContentFits, Free_
<1>17. CallsFit'
  BY <1>7 DEF CallsFit, CallFits, Idle
<1> QED
  BY <1>6, <1>11, <1>13, <1>14, <1>15, <1>16, <1>17
LEMMA SendSyncKeeps ==
    ASSUME AgentInv, NEW s \in Sender, SendSync(s)
    PROVE  AgentInv'
<1> USE DEF AgentInv, SendSync
<1>1. /\ pc[s] = "made" /\ hand[s] \in Agent /\ hand[s] # None /\ refs[hand[s]] = 0
      /\ ~IsQueued(hand[s]) /\ active.a # hand[s]
      /\ \A t \in Sender : hand[t] = hand[s] => t = s
      /\ \A b \in Agent : b # None
  BY AgentsAssumption DEF HandsFit, HandFits, AgentTypes, Idle, None
<1>2. PICK a \in Agent : a = hand[s]
  BY <1>1
<1>3. PICK e \in QueueEntry : e = [a |-> a, by |-> s]
  BY DEF QueueEntry
<1>4. e.a = a /\ e.by = s
  BY <1>3
<1>5. sends' = Append(sends, e) /\ active' = active
  BY <1>2, <1>3
<1>6. /\ sends' \in Seq(QueueEntry) /\ Len(sends') = Len(sends) + 1
      /\ \A i \in 1..Len(sends) : sends'[i] = sends[i]
      /\ sends'[Len(sends) + 1] = e
      /\ \A b : IsQueued(b)' <=> (IsQueued(b) \/ b = a)
      /\ EntriesDiffer'
  <2> HIDE DEF AgentInv, SendSync
  <2> QED  BY <1>1, <1>2, <1>4, <1>5, EntryAppended
<1>7. /\ \A b \in Agent : b # a => refs'[b] = refs[b]
      /\ refs[a] = 0 /\ refs'[a] = 2
      /\ \A t \in Sender : t # s => hand'[t] = hand[t] /\ pc'[t] = pc[t]
      /\ hand'[s] = a /\ hand[s] = a /\ pc'[s] = "waiting"
  BY <1>1, <1>2 DEF AgentTypes, HoldMe
<1>8. agents[a].family \in {"sync", "ret"} /\ s # None
  BY <1>2, AgentsAssumption DEF Synchronous
<1>11. AgentTypes'
  <2>1. refs' \in [Agent -> Int] /\ hand' \in [Sender -> Agent \cup {None}]
    BY <1>1 DEF HoldMe, AgentTypes
  <2>2. pc' \in [Sender -> {Idle, "made", "waiting", "done", "returning"}]
    BY DEF AgentTypes
  <2> QED  BY <1>6, <2>1, <2>2 DEF AgentTypes
<1>13. EntriesFit'
  <2>1. ASSUME NEW d \in QueueEntry, EntryFits(d), d.a # a PROVE EntryFits(d)'
    BY <2>1, <1>1, <1>2, <1>7 DEF EntryFits, QueueEntry, None, Idle
  <2>2. EntryFits(e)'
    BY <1>1, <1>2, <1>4, <1>7, <1>8 DEF EntryFits
  <2>3. \A i \in 1..Len(sends) : EntryFits(sends[i])'
    BY <2>1, <1>1, <1>2, AgentTypesUnfold DEF EntriesFit, IsQueued
  <2>4. active.a # None => EntryFits(active)'
    BY <2>1, <1>1, <1>2, AgentTypesUnfold DEF EntriesFit
  <2>5. ASSUME NEW i \in 1..Len(sends') PROVE EntryFits(sends[i])'
    <3>1. i \in 1..Len(sends) \/ i = Len(sends) + 1
      BY <1>6, AgentTypesUnfold
    <3>2. CASE i \in 1..Len(sends)
      BY <2>3, <3>2
    <3>3. CASE i = Len(sends) + 1
      BY <2>2, <3>3, <1>6 DEF EntryFits
    <3> QED  BY <3>1, <3>2, <3>3
  <2> QED  BY <2>5, <2>4 DEF EntriesFit, EntryFits
<1>14. HandsFit'
  <2>1. ASSUME NEW t \in Sender PROVE HandFits(t)'
    BY <2>1, <1>1, <1>2, <1>8, <1>6, <1>7 DEF HandsFit, HandFits, Synchronous, AgentTypes, Idle, None
  <2>2. \A t, u \in Sender : (hand[t] = hand[u] /\ hand[t] # None)' => t = u
    BY <1>7 DEF HandsFit
  <2> QED  BY <2>1, <2>2 DEF HandsFit
<1>15. AliveIsHeld'
  <2>2. ASSUME NEW b \in Agent, b # a, refs'[b] # Free_
        PROVE  (IsQueued(b) \/ active.a = b \/ \E t \in Sender : hand[t] = b)'
    <3>1. IsQueued(b) \/ active.a = b \/ \E t \in Sender : hand[t] = b
      BY <2>2, <1>7 DEF AliveIsHeld
    <3> QED  BY <2>2, <3>1, <1>2, <1>6, <1>7
  <2> QED  BY <2>2, <1>6 DEF AliveIsHeld
<1>16. ContentsFit'
  BY <1>7 DEF ContentsFit, ContentFits, Free_
<1>17. CallsFit'
  BY <1>7 DEF CallsFit, CallFits, Idle
<1> QED
  BY <1>6, <1>11, <1>13, <1>14, <1>15, <1>16, <1>17

LEMMA TakeAgentKeeps ==
    ASSUME AgentInv, TakeAgent
    PROVE  AgentInv'
<1> USE DEF AgentInv, TakeAgent
<1>0. sends \in Seq(QueueEntry) /\ sends # <<>> /\ Len(sends) \in Nat /\ \A b \in Agent : b # None
  BY AgentTypesUnfold, AgentsAssumption DEF AgentTypes
<1>1. /\ sends' \in Seq(QueueEntry) /\ Len(sends') = Len(sends) - 1 /\ 1 <= Len(sends)
      /\ \A i \in 1..Len(sends') : sends'[i] = sends[i + 1] /\ i + 1 \in 1..Len(sends)
      /\ active' = sends[1] /\ active' \in QueueEntry
  BY <1>0, HeadTailProperties, EmptySeq, AgentTypesUnfold
<1>2. active.a = None /\ active'.a \in Agent /\ active'.a # None
  BY <1>0, <1>1, AgentTypesUnfold DEF QueueEntry
<1>3. ASSUME NEW b \in Agent
      PROVE  (IsQueued(b) \/ active.a = b)' <=> (IsQueued(b) \/ active.a = b)
  <2>1. ASSUME IsQueued(b) PROVE (IsQueued(b) \/ active.a = b)'
    <3>1. PICK i \in 1..Len(sends) : sends[i].a = b
      BY <2>1 DEF IsQueued
    <3>2. CASE i = 1
      BY <3>1, <3>2, <1>1
    <3>3. CASE i # 1
      <4>1. i - 1 \in 1..Len(sends') /\ (i - 1) + 1 = i
        BY <3>3, <1>0, <1>1
      <4>2. sends'[i - 1] = sends[i]
        BY <4>1, <1>1
      <4> QED  BY <4>1, <4>2, <3>1 DEF IsQueued
    <3> QED  BY <3>2, <3>3
  <2>2. ASSUME IsQueued(b)' PROVE IsQueued(b)
    <3>1. PICK i \in 1..Len(sends') : sends'[i].a = b
      BY <2>2 DEF IsQueued
    <3> QED  BY <3>1, <1>1 DEF IsQueued
  <2>3. active'.a = b => IsQueued(b)
    BY <1>0, <1>1 DEF IsQueued
  <2> QED  BY <2>1, <2>2, <2>3, <1>0, <1>2
<1>11. AgentTypes'
  BY <1>1 DEF AgentTypes
<1>12. EntriesDiffer'
  <2>1. \A i, j \in 1..Len(sends') : sends'[i].a = sends'[j].a => i = j
    BY <1>0, <1>1 DEF EntriesDiffer
  <2>2. \A i \in 1..Len(sends') : sends'[i].a # active'.a
    BY <1>0, <1>1 DEF EntriesDiffer
  <2> QED  BY <2>1, <2>2 DEF EntriesDiffer
<1>13. EntriesFit'
  <2>1. \A i \in 1..Len(sends) : EntryFits(sends[i])
    BY DEF EntriesFit
  <2>2. ASSUME NEW i \in 1..Len(sends') PROVE EntryFits(sends[i])'
    <3>1. PICK e : e = sends'[i] /\ EntryFits(e)
      BY <2>1, <1>1
    <3> QED  BY <3>1 DEF EntryFits
  <2>3. EntryFits(active)'
    <3>1. PICK e : e = active' /\ EntryFits(e)
      BY <2>1, <1>0, <1>1
    <3> QED  BY <3>1 DEF EntryFits
  <2> QED  BY <2>2, <2>3 DEF EntriesFit
<1>14. HandsFit'
  <2>1. ASSUME NEW t \in Sender PROVE HandFits(t)'
    <3>1. HandFits(t) /\ (hand[t] \in Agent \/ hand[t] = None)
      BY DEF HandsFit, AgentTypes
    <3>2. hand[t] \in Agent => ((IsQueued(hand[t]) \/ active.a = hand[t])' <=> (IsQueued(hand[t]) \/ active.a = hand[t]))
      BY <1>3
    <3> QED  BY <3>1, <3>2 DEF HandFits, Synchronous, Idle
  <2> QED  BY <2>1 DEF HandsFit
<1>15. AliveIsHeld'
  BY <1>3 DEF AliveIsHeld
<1>16. ContentsFit' /\ CallsFit'
  BY DEF ContentsFit, ContentFits, CallsFit, CallFits
<1> QED
  BY <1>11, <1>12, <1>13, <1>14, <1>15, <1>16

LEMMA HolderGoneKeeps ==
    ASSUME AgentInv, NEW s \in Sender, HolderGone(s)
    PROVE  AgentInv'
<1> USE DEF AgentInv, HolderGone
<1>1. /\ pc[s] = "done" /\ hand[s] \in Agent /\ hand[s] # None /\ refs[hand[s]] = 2
      /\ ~IsQueued(hand[s]) /\ active.a # hand[s] /\ Synchronous(hand[s])
      /\ \A t \in Sender : hand[t] = hand[s] => t = s
  BY DEF HandsFit, HandFits, AgentTypes, Idle, None
<1>2. PICK a \in Agent : a = hand[s]
  BY <1>1
<1>3. /\ \A b \in Agent : b # a => refs'[b] = refs[b]
      /\ refs[a] = 2 /\ refs'[a] = 1 /\ refs' \in [Agent -> Int]
      /\ \A t \in Sender : t # s => pc'[t] = pc[t]
      /\ pc'[s] = "returning" /\ pc' \in [Sender -> {Idle, "made", "waiting", "done", "returning"}]
  BY <1>1, <1>2 DEF AgentTypes, Dropped, Free_
<1>11. AgentTypes'
  BY <1>3 DEF AgentTypes
<1>12. EntriesDiffer'
  BY DEF EntriesDiffer
<1>13. EntriesFit'
  <2>1. ASSUME NEW d \in QueueEntry, EntryFits(d), d.a # a PROVE EntryFits(d)'
    BY <2>1, <1>1, <1>2, <1>3 DEF EntryFits, QueueEntry
  <2>3. \A i \in 1..Len(sends) : EntryFits(sends[i])'
    BY <2>1, <1>1, <1>2, AgentTypesUnfold DEF EntriesFit, IsQueued
  <2>4. active.a # None => EntryFits(active)'
    BY <2>1, <1>1, <1>2, AgentTypesUnfold DEF EntriesFit
  <2> QED  BY <2>3, <2>4 DEF EntriesFit
<1>14. HandsFit'
  <2>1. ASSUME NEW t \in Sender PROVE HandFits(t)'
    BY <2>1, <1>1, <1>2, <1>3 DEF HandsFit, HandFits, IsQueued, Synchronous, AgentTypes, Idle, None
  <2> QED  BY <2>1 DEF HandsFit
<1>15. AliveIsHeld'
  BY <1>3, <1>2 DEF AliveIsHeld, IsQueued, Free_
<1>16. ContentsFit'
  BY <1>3 DEF ContentsFit, ContentFits, Free_
<1>17. CallsFit'
  BY <1>3 DEF CallsFit, CallFits
<1> QED
  BY <1>11, <1>12, <1>13, <1>14, <1>15, <1>16, <1>17

LEMMA SendReturnsKeeps ==
    ASSUME AgentInv, NEW s \in Sender, SendReturns(s)
    PROVE  AgentInv'
<1> USE DEF AgentInv, SendReturns
<1>1. /\ pc[s] = "returning" /\ hand[s] \in Agent /\ hand[s] # None /\ refs[hand[s]] = 1
      /\ ~IsQueued(hand[s]) /\ active.a # hand[s] /\ Synchronous(hand[s])
      /\ \A t \in Sender : hand[t] = hand[s] => t = s
      /\ \A b \in Agent : b # None
  BY AgentsAssumption DEF HandsFit, HandFits, AgentTypes, Idle, None
<1>2. PICK a \in Agent : a = hand[s]
  BY <1>1
<1>3. /\ \A b \in Agent : b # a => refs'[b] = refs[b]
      /\ refs[a] = 1 /\ refs'[a] = Free_ /\ refs' \in [Agent -> Int]
      /\ \A t \in Sender : t # s => hand'[t] = hand[t] /\ pc'[t] = pc[t]
      /\ hand'[s] = None /\ pc'[s] = Idle /\ pc' \in [Sender -> {Idle, "made", "waiting", "done", "returning"}]
      /\ hand' \in [Sender -> Agent \cup {None}]
  BY <1>1, <1>2 DEF AgentTypes, Dropped, Free_
<1>4. ~wrong'
  <2>1. refs[hand[s]] # Free_
    BY <1>1 DEF Free_
  <2> QED  BY <2>1, Zenon
<1>5. payload[a] \in Int /\ ~(payload[a] > 0)
  <2>1. agents[a].family # "cast"
    BY <1>1, <1>2 DEF Synchronous
  <2> QED  BY <2>1, <1>3 DEF ContentsFit, ContentFits, AgentTypes, Free_
<1>6. /\ answer' \in [Sender -> Nat \X Nat]
      /\ \A t \in Sender : t # s => answer'[t] = answer[t]
      /\ answer'[s] = answer[s] \/ answer'[s][2] = answer'[s][1] + 1
  <2>1. CASE agents[a].family = "ret"
    <3>1. PICK m \in Nat, r \in Nat : m = mine[s] /\ r = agents[a].ret /\ r = m + 1
      BY <2>1, <1>1, <1>2 DEF CallsFit, CallFits, AgentTypes, StoredAgent
    <3>2. answer' = [answer EXCEPT ![s] = <<m, r>>]
      BY <3>1, <2>1, <1>2
    <3>3. answer' \in [Sender -> Nat \X Nat]
      BY <3>2 DEF AgentTypes
    <3>4. answer'[s] = <<m, r>> /\ \A t \in Sender : t # s => answer'[t] = answer[t]
      BY <3>2 DEF AgentTypes
    <3> QED  BY <3>1, <3>3, <3>4
  <2>2. CASE agents[a].family # "ret"
    BY <2>2, <1>2 DEF AgentTypes
  <2> QED  BY <2>1, <2>2
<1>11. AgentTypes'
  BY <1>3, <1>6 DEF AgentTypes
<1>12. EntriesDiffer'
  BY DEF EntriesDiffer
<1>13. EntriesFit'
  <2>1. ASSUME NEW d \in QueueEntry, EntryFits(d), d.a # a PROVE EntryFits(d)'
    BY <2>1, <1>1, <1>2, <1>3 DEF EntryFits, QueueEntry
  <2>3. \A i \in 1..Len(sends) : EntryFits(sends[i])'
    BY <2>1, <1>1, <1>2, AgentTypesUnfold DEF EntriesFit, IsQueued
  <2>4. active.a # None => EntryFits(active)'
    BY <2>1, <1>1, <1>2, AgentTypesUnfold DEF EntriesFit
  <2> QED  BY <2>3, <2>4 DEF EntriesFit
<1>14. HandsFit'
  <2>1. ASSUME NEW t \in Sender PROVE HandFits(t)'
    BY <2>1, <1>1, <1>2, <1>3 DEF HandsFit, HandFits, IsQueued, Synchronous, AgentTypes, Idle, None
  <2>2. \A t, u \in Sender : (hand[t] = hand[u] /\ hand[t] # None)' => t = u
    BY <1>3 DEF HandsFit
  <2> QED  BY <2>1, <2>2 DEF HandsFit
<1>15. AliveIsHeld'
  <2>1. ASSUME NEW b \in Agent, refs'[b] # Free_
        PROVE  (IsQueued(b) \/ active.a = b \/ \E t \in Sender : hand[t] = b)'
    <3>0. b # a
      BY <2>1, <1>3
    <3>1. IsQueued(b) \/ active.a = b \/ \E t \in Sender : hand[t] = b
      BY <2>1, <3>0, <1>3 DEF AliveIsHeld
    <3>2. IsQueued(b)' <=> IsQueued(b)
      BY DEF IsQueued
    <3> QED  BY <3>0, <3>1, <3>2, <1>2, <1>3
  <2> QED  BY <2>1 DEF AliveIsHeld
<1>16. ContentsFit'
  BY <1>3, <1>5 DEF ContentsFit, ContentFits
<1>17. CallsFit'
  BY <1>3, <1>6 DEF CallsFit, CallFits, Idle
<1> QED
  BY <1>4, <1>11, <1>12, <1>13, <1>14, <1>15, <1>16, <1>17

\* Copies are passed as they were when the agent was made.
LEMMA CopiesPassed ==
    ASSUME NEW a \in Agent, IsCopy(agents[a])
    PROVE  Passed(a) = Given(agents[a].serial, Len(agents[a].params))
<1>1. PICK ps, m : ps = agents[a].params /\ m = agents[a].serial
  OBVIOUS
<1>2. PICK n \in Nat : ps = [i \in 1..n |-> [val |-> <<m, i>>]]
  BY <1>1 DEF IsCopy
<1>3. DOMAIN ps = 1..n /\ Len(ps) = n
  BY <1>2
<1>4. ASSUME NEW i \in 1..n PROVE Value_(ps[i]) = <<m, i>>
  <2>1. PICK v : v = <<m, i>>
    OBVIOUS
  <2>2. ps[i] = [val |-> v]
    BY <1>2, <2>1
  <2>3. Value_([val |-> v]) = v
    BY DEF Value_
  <2> QED  BY <2>1, <2>2, <2>3
<1>5. Passed(a) = [i \in 1..n |-> Value_(ps[i])]
  BY <1>1, <1>3 DEF Passed
<1>6. [i \in 1..n |-> Value_(ps[i])] = [i \in 1..n |-> <<m, i>>]
  BY <1>4
<1> QED
  BY <1>1, <1>3, <1>5, <1>6 DEF Given

\* References are passed as the sender's variable is now.
LEMMA ReferencesPassed ==
    ASSUME NEW a \in Agent, NEW s \in Sender, NamesSender(agents[a], s), agents[a].serial = mine[s]
    PROVE  Passed(a) = Given(agents[a].serial, Len(agents[a].params))
<1>1. PICK ps, m : ps = agents[a].params /\ m = agents[a].serial
  OBVIOUS
<1>2. PICK n \in Nat : ps = [i \in 1..n |-> [ref |-> s, place |-> i]]
  BY <1>1 DEF NamesSender
<1>3. DOMAIN ps = 1..n /\ Len(ps) = n
  BY <1>2
<1>4. ASSUME NEW i \in 1..n PROVE Value_(ps[i]) = <<m, i>>
  <2>2. ps[i] = [ref |-> s, place |-> i]
    BY <1>2
  <2>3. Value_([ref |-> s, place |-> i]) = <<mine[s], i>>
    BY DEF Value_
  <2> QED  BY <1>1, <2>2, <2>3
<1>5. Passed(a) = [i \in 1..n |-> Value_(ps[i])]
  BY <1>1, <1>3 DEF Passed
<1>6. [i \in 1..n |-> Value_(ps[i])] = [i \in 1..n |-> <<m, i>>]
  BY <1>4
<1> QED
  BY <1>1, <1>3, <1>5, <1>6 DEF Given

\* The agent that is delivered: who refers to it, and what its call gets.
LEMMA ActiveAgent ==
    ASSUME AgentInv, active.a # None
    PROVE  /\ active.a \in Agent /\ refs[active.a] # Free_ /\ DeliveryTarget(active.a) \notin retired
           /\ ~IsQueued(active.a)
           /\ active.by = None => /\ refs[active.a] = 1 /\ agents[active.a].family \in {"async", "cast"}
                                  /\ \A s \in Sender : hand[s] # active.a
           /\ active.by # None => /\ active.by \in Sender /\ hand[active.by] = active.a
                                  /\ pc[active.by] = "waiting" /\ refs[active.a] = 2
                                  /\ agents[active.a].family \in {"sync", "ret"}
                                  /\ agents[active.a].serial = mine[active.by]
                                  /\ \A s \in Sender : hand[s] = active.a => s = active.by
           /\ agents[active.a].family = "sync" => NamesSender(agents[active.a], active.by)
           /\ agents[active.a].family = "cast" => payload[active.a] > 0
           /\ agents[active.a].family # "cast" =>
                Passed(active.a) = Given(agents[active.a].serial, Len(agents[active.a].params))
<1> USE DEF AgentInv
<1>1. active.a \in Agent /\ active \in QueueEntry /\ EntryFits(active) /\ active.by \in Sender \cup {None}
  BY AgentTypesUnfold DEF EntriesFit
<1>2. PICK a \in Agent, by \in Sender \cup {None} : a = active.a /\ by = active.by
  BY <1>1
<1>3. ~IsQueued(a)
  BY <1>2 DEF EntriesDiffer, IsQueued
<1>4. by = None => refs[a] = 1 /\ agents[a].family \in {"async", "cast"} /\ \A s \in Sender : hand[s] # a
  BY <1>1, <1>2 DEF EntryFits
<1>5. ASSUME by # None
      PROVE  /\ by \in Sender /\ hand[by] = a /\ pc[by] = "waiting" /\ refs[a] = 2
             /\ agents[a].family \in {"sync", "ret"} /\ agents[a].serial = mine[by]
             /\ \A s \in Sender : hand[s] = a => s = by
             /\ agents[a].family = "sync" => NamesSender(agents[a], by)
  <2>1. by \in Sender /\ hand[by] = a /\ pc[by] = "waiting"
    BY <1>1, <1>2, <1>5 DEF EntryFits
  <2>2. HandFits(by) /\ CallFits(by) /\ a # None
    BY <2>1, <1>2, AgentsAssumption DEF HandsFit, CallsFit
  <2>3. \A s \in Sender : hand[s] = a => s = by
    BY <2>1, <2>2 DEF HandsFit
  <2> QED  BY <2>1, <2>2, <2>3 DEF HandFits, CallFits, Synchronous
<1>6. refs[a] # Free_
  BY <1>4, <1>5 DEF Free_
<1>7. /\ DeliveryTarget(a) \notin retired
      /\ agents[a].family = "cast" => payload[a] > 0
      /\ agents[a].family \in {"async", "cast", "sync", "ret"}
      /\ agents[a].family \in {"async", "ret"} => IsCopy(agents[a])
  BY <1>6 DEF ContentsFit, ContentFits, DeliveryTarget
<1>8. agents[a].family # "cast" => Passed(a) = Given(agents[a].serial, Len(agents[a].params))
  <2>1. CASE agents[a].family \in {"async", "ret"}
    BY <2>1, <1>7, CopiesPassed
  <2>2. CASE agents[a].family = "sync"
    BY <2>2, <1>4, <1>5, ReferencesPassed
  <2> QED  BY <2>1, <2>2, <1>7
<1>9. DeliveryTarget(active.a) \notin retired
  BY <1>2, <1>7 DEF DeliveryTarget
<1>10. agents[a].family = "sync" => NamesSender(agents[a], by)
  BY <1>4, <1>5
<1> QED
  BY <1>2, <1>3, <1>4, <1>5, <1>6, <1>7, <1>8, <1>9, <1>10

\* deliver() does nothing wrong.
LEMMA CalledRight ==
    ASSUME AgentInv, active.a # None, Deliver(active.a)
    PROVE  ~wrong'
<1>1. /\ refs[active.a] # Free_ /\ DeliveryTarget(active.a) \notin retired
      /\ agents[active.a].family = "cast" => payload[active.a] # 0
      /\ agents[active.a].family # "cast" =>
                Passed(active.a) = Given(agents[active.a].serial, Len(agents[active.a].params))
  BY ActiveAgent
<1>2. ~wrong
  BY DEF AgentInv
<1>3. CASE CastDeliver(active.a)
  BY <1>1, <1>2, <1>3, Zenon DEF CastDeliver
<1>4. CASE AsyncDeliver(active.a) \/ SyncDeliver(active.a) \/ RetDeliver(active.a)
  <2>1. Called(active.a) /\ agents[active.a].family # "cast"
    BY <1>4 DEF AsyncDeliver, SyncDeliver, RetDeliver
  <2> QED  BY <1>1, <1>2, <2>1, Zenon DEF Called
<1> QED
  BY <1>3, <1>4 DEF Deliver

LEMMA DeliverAsyncKeeps ==
    ASSUME AgentInv, DeliverAsync
    PROVE  AgentInv'
<1> USE DEF AgentInv, DeliverAsync
<1>1. PICK a \in Agent : /\ a = active.a /\ refs[a] = 1 /\ agents[a].family \in {"async", "cast"}
                         /\ \A s \in Sender : hand[s] # a
                         /\ ~IsQueued(a)
  BY ActiveAgent
<1>2. ~wrong'
  BY CalledRight
<1>3. agents' = agents /\ mine' = mine
  BY <1>1 DEF Deliver, AsyncDeliver, CastDeliver, SyncDeliver, RetDeliver
<1>4. /\ \A b \in Agent : b # a => refs'[b] = refs[b] /\ payload'[b] = payload[b]
      /\ refs'[a] = Free_ /\ payload'[a] = 0 /\ refs' \in [Agent -> Int] /\ payload' \in [Agent -> Int]
  BY <1>1 DEF AgentTypes, Dropped, PayloadAfter, Free_
<1>5. active'.a = None /\ active' = [a |-> None, by |-> None]
  OBVIOUS
<1>6. \A b \in Agent : b # None
  BY AgentsAssumption
<1>7. \A b : IsQueued(b)' <=> IsQueued(b)
  BY DEF IsQueued
<1>11. AgentTypes'
  BY <1>3, <1>4, <1>5 DEF AgentTypes
<1>12. EntriesDiffer'
  BY <1>5, <1>6, AgentTypesUnfold DEF EntriesDiffer
<1>13. EntriesFit'
  <2>1. ASSUME NEW d \in QueueEntry, EntryFits(d), d.a # a PROVE EntryFits(d)'
    BY <2>1, <1>3, <1>4 DEF EntryFits, QueueEntry
  <2>3. \A i \in 1..Len(sends) : EntryFits(sends[i])'
    BY <2>1, <1>1, AgentTypesUnfold DEF EntriesFit, IsQueued
  <2> QED  BY <2>3, <1>5 DEF EntriesFit
<1>14. HandsFit'
  <2>1. ASSUME NEW t \in Sender PROVE HandFits(t)'
    <3>1. HandFits(t) /\ hand[t] # a /\ (hand[t] \in Agent \/ hand[t] = None)
          /\ pc[t] \in {Idle, "made", "waiting", "done", "returning"}
      BY <1>1 DEF HandsFit, AgentTypes
    <3> QED  BY <3>1, <1>1, <1>3, <1>4, <1>5, <1>6, <1>7 DEF HandFits, Synchronous, Idle
  <2> QED  BY <2>1 DEF HandsFit
<1>15. AliveIsHeld'
  BY <1>1, <1>4, <1>7 DEF AliveIsHeld
<1>16. ContentsFit'
  BY <1>3, <1>4 DEF ContentsFit, ContentFits
<1>17. CallsFit'
  BY <1>3 DEF CallsFit, CallFits
<1> QED
  BY <1>2, <1>11, <1>12, <1>13, <1>14, <1>15, <1>16, <1>17

\* A "sync" method writes its own sender's variable and no other.
LEMMA WritesSenderOnly ==
    ASSUME AgentInv, NEW a \in Agent, NEW by \in Sender, NamesSender(agents[a], by), SyncDeliver(a)
    PROVE  mine' \in [Sender -> Nat] /\ \A t \in Sender : t # by => mine'[t] = mine[t]
<1>1. PICK n \in Nat : agents[a].params = [i \in 1..n |-> [ref |-> by, place |-> i]]
  BY DEF NamesSender
<1>2. ASSUME NEW t \in Sender, NEW i \in 1..n PROVE [ref |-> by, place |-> i] = [ref |-> t, place |-> i] => t = by
  OBVIOUS
<1>3. ASSUME NEW t \in Sender, t # by
      PROVE  ~\E i \in DOMAIN agents[a].params : agents[a].params[i] = [ref |-> t, place |-> i]
  BY <1>1, <1>2, <1>3
<1> QED
  BY <1>3 DEF SyncDeliver, AgentInv, AgentTypes

LEMMA DeliverSyncKeeps ==
    ASSUME AgentInv, DeliverSync
    PROVE  AgentInv'
<1> USE DEF AgentInv, DeliverSync
<1>1. PICK a \in Agent, by \in Sender :
           /\ a = active.a /\ by = active.by /\ hand[by] = a
           /\ pc[by] = "waiting" /\ refs[a] = 2
           /\ agents[a].family \in {"sync", "ret"} /\ agents[a].serial = mine[by]
           /\ \A s \in Sender : hand[s] = a => s = by
           /\ agents[a].family = "sync" => NamesSender(agents[a], by)
           /\ ~IsQueued(a)
  BY ActiveAgent
<1>2. ~wrong'
  BY CalledRight
<1>3. \A t \in Sender : t # by => pc'[t] = pc[t]
  BY <1>1 DEF AgentTypes
<1>4. pc'[by] = "done" /\ pc' \in [Sender -> {Idle, "made", "waiting", "done", "returning"}]
  BY <1>1 DEF AgentTypes
<1>5. active'.a = None /\ active' = [a |-> None, by |-> None]
  OBVIOUS
<1>6. \A b \in Agent : b # None
  BY AgentsAssumption
<1>7. \A b : IsQueued(b)' <=> IsQueued(b)
  BY DEF IsQueued
<1>0. PICK h \in StoredAgent : h = agents[a]
  BY DEF AgentTypes
<1>8. PICK g : g = [agents[a] EXCEPT !.ret = agents[a].serial + 1]
  OBVIOUS
<1>a. g = [h EXCEPT !.ret = h.serial + 1] /\ h.serial \in Nat
  BY <1>0, <1>8 DEF StoredAgent
<1>b. g \in StoredAgent
  <2> HIDE DEF AgentInv, DeliverSync
  <2> QED  BY <1>a DEF StoredAgent
<1>9. /\ g.family = agents[a].family /\ g.to = agents[a].to /\ g.params = agents[a].params
      /\ g.serial = agents[a].serial /\ g.ret = agents[a].serial + 1
  <2> HIDE DEF AgentInv, DeliverSync
  <2> QED  BY <1>0, <1>a DEF StoredAgent
<1>10. /\ agents' \in [Agent -> StoredAgent] /\ mine' \in [Sender -> Nat]
       /\ \A b \in Agent : b # a => agents'[b] = agents[b]
       /\ \A t \in Sender : t # by => mine'[t] = mine[t]
       /\ agents[a].family = "sync" => agents'[a] = agents[a]
       /\ agents[a].family = "ret" => agents'[a] = g /\ mine' = mine
  <2>1. CASE agents[a].family = "sync"
    <3>1. SyncDeliver(a)
      BY <2>1, <1>1 DEF Deliver, AsyncDeliver, CastDeliver, RetDeliver
    <3>2. mine' \in [Sender -> Nat] /\ \A t \in Sender : t # by => mine'[t] = mine[t]
      BY <3>1, <2>1, <1>1, WritesSenderOnly
    <3> QED  BY <2>1, <3>1, <3>2 DEF SyncDeliver, AgentTypes
  <2>2. CASE agents[a].family = "ret"
    <3>1. RetDeliver(a)
      BY <2>2, <1>1 DEF Deliver, AsyncDeliver, CastDeliver, SyncDeliver
    <3>2. agents' = [agents EXCEPT ![a] = g] /\ mine' = mine
      BY <3>1, <1>8 DEF RetDeliver
    <3> QED  BY <2>2, <3>2, <1>b DEF AgentTypes
  <2> QED  BY <2>1, <2>2, <1>1
<1>18. /\ agents'[a].family = agents[a].family /\ agents'[a].to = agents[a].to
       /\ agents'[a].params = agents[a].params /\ agents'[a].serial = agents[a].serial
  BY <1>1, <1>9, <1>10
<1>11. AgentTypes'
  BY <1>4, <1>5, <1>10 DEF AgentTypes
<1>12. EntriesDiffer'
  BY <1>5, <1>6, AgentTypesUnfold DEF EntriesDiffer
<1>13. EntriesFit'
  <2>1. ASSUME NEW d \in QueueEntry, EntryFits(d), d.a # a PROVE EntryFits(d)'
    BY <2>1, <1>1, <1>3, <1>10 DEF EntryFits, QueueEntry
  <2>3. \A i \in 1..Len(sends) : EntryFits(sends[i])'
    BY <2>1, <1>1, AgentTypesUnfold DEF EntriesFit, IsQueued
  <2> QED  BY <2>3, <1>5 DEF EntriesFit
<1>14. HandsFit'
  <2>1. ASSUME NEW t \in Sender PROVE HandFits(t)'
    <3>1. HandFits(t) /\ (hand[t] \in Agent \/ hand[t] = None) /\ (hand[t] = a <=> t = by)
          /\ pc[t] \in {Idle, "made", "waiting", "done", "returning"}
      BY <1>1 DEF HandsFit, AgentTypes
    <3>2. CASE t = by
      BY <3>1, <3>2, <1>1, <1>4, <1>5, <1>6, <1>7, <1>18 DEF HandFits, Synchronous, Idle
    <3>3. CASE t # by
      BY <3>1, <3>3, <1>1, <1>3, <1>10, <1>5, <1>6, <1>7 DEF HandFits, Synchronous, Idle
    <3> QED  BY <3>2, <3>3
  <2> QED  BY <2>1 DEF HandsFit
<1>15. AliveIsHeld'
  BY <1>1, <1>7 DEF AliveIsHeld
<1>16. ContentsFit'
  <2>1. IsCopy(agents[a]) => IsCopy(agents'[a])
    BY <1>18 DEF IsCopy
  <2> QED  BY <2>1, <1>10, <1>18 DEF ContentsFit, ContentFits
<1>17. CallsFit'
  <2>1. ASSUME NEW t \in Sender PROVE CallFits(t)'
    <3>1. CallFits(t) /\ (hand[t] = a <=> t = by) /\ HandFits(t) /\ (hand[t] \in Agent \/ hand[t] = None)
      BY <1>1 DEF CallsFit, HandsFit, AgentTypes
    <3>2. CASE t = by
      BY <3>1, <3>2, <1>1, <1>4, <1>9, <1>10 DEF CallFits
    <3>3. CASE t # by
      BY <3>1, <3>3, <1>3, <1>10 DEF CallFits, HandFits, Idle
    <3> QED  BY <3>2, <3>3
  <2> QED  BY <2>1 DEF CallsFit
<1> QED
  BY <1>2, <1>11, <1>12, <1>13, <1>14, <1>15, <1>16, <1>17

LEMMA SendInlineKeeps ==
    ASSUME AgentInv, NEW to \in Receiver, SendInline(to)
    PROVE  AgentInv'
<1> USE DEF AgentInv, SendInline
<1>1. AgentTypes'
  BY DEF AgentTypes
<1>2. EntriesDiffer' /\ EntriesFit'
  BY DEF EntriesDiffer, EntriesFit, EntryFits
<1>3. HandsFit'
  BY DEF HandsFit, HandFits, IsQueued, Synchronous
<1>4. AliveIsHeld' /\ ContentsFit' /\ CallsFit'
  BY DEF AliveIsHeld, ContentsFit, ContentFits, IsQueued, CallsFit, CallFits
<1> QED
  BY <1>1, <1>2, <1>3, <1>4

\* The queue without the entries at the places of gone.
LEMMA EntriesKept ==
    ASSUME AgentInv, NEW gone \in SUBSET (1..Len(sends)), active' = active,
           sends' = KeepPlaces(sends, DOMAIN sends \ gone)
    PROVE  /\ sends' \in Seq(QueueEntry)
           /\ \A k \in 1..Len(sends') : \E i \in 1..Len(sends) : i \notin gone /\ sends'[k] = sends[i]
           /\ \A b : IsQueued(b)' <=> (IsQueued(b) /\ ~\E i \in gone : sends[i].a = b)
           /\ EntriesDiffer'
<1>1. PICK q \in Seq(QueueEntry) : q = sends
  BY DEF AgentInv, AgentTypes
<1>2. PICK K \in SUBSET (1..Len(q)) : K = (1..Len(q)) \ gone
  OBVIOUS
<1>3. PICK r : r = KeepPlaces(q, K)
  OBVIOUS
<1>4. sends' = r
  <2>1. DOMAIN q = 1..Len(q)
    BY LenProperties
  <2> QED  BY <1>1, <1>2, <1>3, <2>1
<1>5. /\ r \in Seq(QueueEntry)
      /\ \E f \in [1..Len(r) -> K] :
            /\ \A k \in 1..Len(r) : RankIn(K, f[k]) = k - 1 /\ r[k] = q[f[k]]
            /\ \A i \in K : \E k \in 1..Len(r) : f[k] = i
  BY <1>3, KeptPlaces
<1>6. PICK f \in [1..Len(r) -> K] :
            /\ \A k \in 1..Len(r) : RankIn(K, f[k]) = k - 1 /\ r[k] = q[f[k]]
            /\ \A i \in K : \E k \in 1..Len(r) : f[k] = i
  BY <1>5
<1>a. \A k \in 1..Len(r) : r[k] = q[f[k]]
  BY <1>6
<1>b. \A i \in K : \E k \in 1..Len(r) : f[k] = i
  BY <1>6
<1>c. \A k \in 1..Len(r) : f[k] \in K
  BY <1>6
<1>7. /\ \A i, j \in 1..Len(q) : q[i].a = q[j].a => i = j
      /\ \A i \in 1..Len(q) : q[i].a # active.a
  BY <1>1 DEF AgentInv, EntriesDiffer
<1>8. \A k \in 1..Len(r) : f[k] \in 1..Len(q) /\ f[k] \notin gone
  BY <1>c, <1>2
<1>9. \A k, m \in 1..Len(r) : r[k].a = r[m].a => k = m
  <2> SUFFICES ASSUME NEW k \in 1..Len(r), NEW m \in 1..Len(r), r[k].a = r[m].a PROVE k = m
    OBVIOUS
  <2>0. r[k] = q[f[k]] /\ r[m] = q[f[m]]
    BY <1>a
  <2>1. f[k] = f[m]
    BY <1>7, <1>8, <2>0
  <2>2. RankIn(K, f[k]) = k - 1 /\ RankIn(K, f[m]) = m - 1
    BY <1>6
  <2>3. k \in Int /\ m \in Int
    OBVIOUS
  <2> QED  BY <2>1, <2>2, <2>3
<1>10. EntriesDiffer'
  <2>1. \A k \in 1..Len(r) : r[k].a # active.a
    BY <1>a, <1>7, <1>8
  <2> QED  BY <1>4, <1>9, <2>1 DEF EntriesDiffer
<1>11. ASSUME NEW b PROVE IsQueued(b)' <=> (IsQueued(b) /\ ~\E i \in gone : sends[i].a = b)
  <2>1. IsQueued(b)' <=> \E k \in 1..Len(r) : r[k].a = b
    BY <1>4 DEF IsQueued
  <2>2. (\E k \in 1..Len(r) : r[k].a = b) <=> \E i \in K : q[i].a = b
    <3>1. ASSUME NEW k \in 1..Len(r), r[k].a = b PROVE \E i \in K : q[i].a = b
      BY <3>1, <1>a, <1>c
    <3>2. ASSUME NEW i \in K, q[i].a = b PROVE \E k \in 1..Len(r) : r[k].a = b
      BY <3>2, <1>a, <1>b
    <3> QED  BY <3>1, <3>2
  <2>3. (\E i \in K : q[i].a = b) <=> (IsQueued(b) /\ ~\E i \in gone : q[i].a = b)
    BY <1>1, <1>2, <1>7 DEF IsQueued
  <2> QED  BY <2>1, <2>2, <2>3, <1>1
<1>12. \A k \in 1..Len(sends') : \E i \in 1..Len(sends) : i \notin gone /\ sends'[k] = sends[i]
  <2>1. \A k \in 1..Len(r) : \E i \in 1..Len(q) : i \notin gone /\ r[k] = q[i]
    BY <1>a, <1>8
  <2> QED  BY <1>1, <1>4, <2>1
<1>13. sends' \in Seq(QueueEntry)
  BY <1>4, <1>5
<1> QED
  BY <1>10, <1>11, <1>12, <1>13, Zenon

LEMMA RemoveAgentsForKeeps ==
    ASSUME AgentInv, NEW to \in Receiver, RemoveAgentsFor(to)
    PROVE  AgentInv'
<1> USE DEF AgentInv, RemoveAgentsFor
<1>0. DOMAIN sends = 1..Len(sends)
  BY LenProperties DEF AgentTypes
<1>1. PICK gone \in SUBSET (1..Len(sends)) :
         gone = {i \in DOMAIN sends : sends[i].by = None /\ DeliveryTarget(sends[i].a) = to}
  BY <1>0
<1>2. PICK dead : dead = {sends[i].a : i \in gone}
  OBVIOUS
<1>3. /\ active.a = None /\ active' = active
      /\ refs' = [a \in Agent |-> IF a \in dead THEN (IF refs[a] = 1 THEN Free_ ELSE refs[a] - 1) ELSE refs[a]]
      /\ payload' = [a \in Agent |-> IF a \in dead THEN 0 ELSE payload[a]]
      /\ sends' = KeepPlaces(sends, DOMAIN sends \ gone)
  BY <1>1, <1>2
<1>4. /\ sends' \in Seq(QueueEntry)
      /\ \A k \in 1..Len(sends') : \E i \in 1..Len(sends) : i \notin gone /\ sends'[k] = sends[i]
      /\ \A b : IsQueued(b)' <=> (IsQueued(b) /\ ~\E i \in gone : sends[i].a = b)
      /\ EntriesDiffer'
  <2> HIDE DEF AgentInv, RemoveAgentsFor
  <2> QED  BY <1>3, EntriesKept
<1>5. ASSUME NEW b \in dead
      PROVE  b \in Agent /\ refs[b] = 1 /\ IsQueued(b) /\ \A t \in Sender : hand[t] # b
  <2>1. PICK i \in gone : b = sends[i].a
    BY <1>2
  <2>2. i \in 1..Len(sends) /\ sends[i].by = None /\ EntryFits(sends[i]) /\ sends[i].a \in Agent
    BY <1>1, AgentTypesUnfold DEF EntriesFit
  <2> QED  BY <2>1, <2>2 DEF EntryFits, IsQueued
<1>6. \A b : IsQueued(b)' <=> (IsQueued(b) /\ b \notin dead)
  BY <1>2, <1>4
<1>7. /\ \A b \in dead : refs'[b] = Free_ /\ payload'[b] = 0
      /\ \A b \in Agent : b \notin dead => refs'[b] = refs[b] /\ payload'[b] = payload[b]
      /\ refs' \in [Agent -> Int] /\ payload' \in [Agent -> Int]
  <2>1. refs' \in [Agent -> Int] /\ payload' \in [Agent -> Int]
    BY <1>3 DEF AgentTypes, Free_
  <2> QED  BY <1>3, <1>5, <2>1
<1>8. \A b \in Agent : b # None
  BY AgentsAssumption
<1>11. AgentTypes'
  BY <1>3, <1>4, <1>7 DEF AgentTypes
<1>13. EntriesFit'
  <2>1. ASSUME NEW d \in QueueEntry, EntryFits(d), d.a \notin dead PROVE EntryFits(d)'
    BY <2>1, <1>7 DEF EntryFits, QueueEntry
  <2>2. ASSUME NEW k \in 1..Len(sends') PROVE EntryFits(sends[k])'
    <3>1. PICK i \in 1..Len(sends) : i \notin gone /\ sends'[k] = sends[i]
      BY <1>4
    <3>2. PICK d : d = sends[i]
      OBVIOUS
    <3>3. d \in QueueEntry /\ EntryFits(d)
      BY <3>2, AgentTypesUnfold DEF EntriesFit
    <3>4. d.a \notin dead
      BY <3>1, <3>2, <1>2, <1>1 DEF EntriesDiffer
    <3>5. EntryFits(d)'
      BY <3>3, <3>4, <2>1
    <3>6. sends'[k] = d /\ d' = d
      BY <3>1, <3>2
    <3> QED  BY <3>5, <3>6 DEF EntryFits
  <2>3. active'.a = None
    BY <1>3
  <2> QED  BY <2>2, <2>3 DEF EntriesFit
<1>14. HandsFit'
  <2>1. ASSUME NEW t \in Sender PROVE HandFits(t)'
    <3>1. HandFits(t) /\ hand[t] \notin dead /\ (hand[t] \in Agent \/ hand[t] = None)
          /\ pc[t] \in {Idle, "made", "waiting", "done", "returning"}
      BY <1>5 DEF HandsFit, AgentTypes
    <3> QED  BY <3>1, <1>3, <1>6, <1>7, <1>8 DEF HandFits, Synchronous, Idle
  <2> QED  BY <2>1 DEF HandsFit
<1>15. AliveIsHeld'
  BY <1>3, <1>6, <1>7 DEF AliveIsHeld
<1>16. ContentsFit'
  <2>1. ASSUME NEW b \in Agent, b \notin dead, refs[b] # Free_ PROVE agents[b].to # to
    <3>1. IsQueued(b) \/ \E s \in Sender : hand[s] = b
      BY <2>1, <1>3, <1>8 DEF AliveIsHeld
    <3>2. ASSUME NEW s \in Sender, hand[s] = b PROVE agents[b].to # to
      BY <3>2, <1>8 DEF DeliveryTarget
    <3>3. ASSUME IsQueued(b) PROVE agents[b].to # to
      <4>1. PICK i \in 1..Len(sends) : sends[i].a = b
        BY <3>3 DEF IsQueued
      <4>2. i \notin gone
        BY <2>1, <4>1, <1>2
      <4>3. CASE sends[i].by = None
        BY <4>1, <4>2, <4>3, <1>0, <1>1 DEF DeliveryTarget
      <4>4. CASE sends[i].by # None
        <5>1. EntryFits(sends[i]) /\ sends[i].by \in Sender
          BY <4>4, AgentTypesUnfold DEF EntriesFit
        <5> QED  BY <3>2, <4>1, <4>4, <5>1 DEF EntryFits
      <4> QED  BY <4>3, <4>4
    <3> QED  BY <3>1, <3>2, <3>3
  <2>2. agents' = agents /\ retired' = retired \cup {to}
    OBVIOUS
  <2>3. ASSUME NEW b \in Agent PROVE ContentFits(b)'
    <3>1. CASE b \in dead
      <4> HIDE DEF AgentInv, RemoveAgentsFor
      <4>0. \A x \in dead : refs'[x] = Free_ /\ payload'[x] = 0
        BY <1>7, Zenon
      <4>1. refs'[b] = Free_ /\ payload'[b] = 0
        BY <3>1, <4>0, Zenon
      <4> QED  BY <4>1 DEF ContentFits
    <3>2. CASE b \notin dead
      <4>1. ContentFits(b) /\ refs'[b] = refs[b] /\ payload'[b] = payload[b]
        BY <3>2, <1>7 DEF ContentsFit
      <4>2. refs[b] # Free_ => agents[b].to # to
        BY <3>2, <2>1
      <4> QED  BY <4>1, <4>2, <2>2 DEF ContentFits
    <3> QED  BY <3>1, <3>2
  <2> QED  BY <2>3 DEF ContentsFit
<1>17. CallsFit'
  BY DEF CallsFit, CallFits
<1> QED
  BY <1>4, <1>11, <1>13, <1>14, <1>15, <1>16, <1>17

LEMMA AgentKeeps ==
    ASSUME AgentInv, [AgentNext]_agentVars
    PROVE  AgentInv'
<1>1. CASE UNCHANGED agentVars
  <2> USE <1>1 DEF AgentInv, agentVars
  <2>1. AgentTypes'
    BY DEF AgentTypes
  <2>2. EntriesDiffer' /\ EntriesFit'
    BY DEF EntriesDiffer, EntriesFit, EntryFits
  <2>3. HandsFit'
    BY DEF HandsFit, HandFits, IsQueued, Synchronous
  <2>4. AliveIsHeld' /\ ContentsFit' /\ CallsFit'
    BY DEF AliveIsHeld, ContentsFit, ContentFits, IsQueued, CallsFit, CallFits
  <2> QED  BY <2>1, <2>2, <2>3, <2>4
<1>2. CASE AgentNext
  BY <1>2, NextValueKeeps, SendAsyncKeeps, SendSyncKeeps, HolderGoneKeeps, SendReturnsKeeps, MakeAgentKeeps,
     TakeAgentKeeps, DeliverAsyncKeeps, DeliverSyncKeeps, RemoveAgentsForKeeps, SendInlineKeeps DEF AgentNext
<1> QED
  BY <1>1, <1>2

LEMMA AgentFollows ==
    ASSUME AgentInv
    PROVE  AgentsDeliverAsGiven
<1> USE DEF AgentInv
<1>1. \A s \in Sender : answer[s] # <<0, 0>> => answer[s][2] = answer[s][1] + 1
  BY DEF CallsFit, CallFits
<1>2. ASSUME NEW a \in Agent
      PROVE  /\ refs[a] = Free_ <=> (Holds(a) = 0 /\ \A s \in Sender : hand[s] # a)
             /\ refs[a] # Free_ => refs[a] = Holds(a)
             /\ payload[a] > 0 => refs[a] # Free_
  <2> DEFINE Q == {i \in DOMAIN sends : sends[i].a = a}
             W == {s \in Sender : hand[s] = a /\ pc[s] \in {"waiting", "done", "returning"}}
             D == {s \in Sender : hand[s] = a /\ pc[s] = "done"}
  <2>0. DOMAIN sends = 1..Len(sends) /\ a # None
    BY LenProperties, AgentsAssumption DEF AgentTypes
  <2>1. Cardinality(Q) = IF IsQueued(a) THEN 1 ELSE 0
    <3>1. CASE ~IsQueued(a)
      <4>1. Q = {}
        BY <3>1, <2>0 DEF IsQueued
      <4> QED  BY <3>1, <4>1, FS_EmptySet
    <3>2. CASE IsQueued(a)
      <4>1. PICK i \in 1..Len(sends) : sends[i].a = a
        BY <3>2 DEF IsQueued
      <4>2. Q = {i}
        BY <4>1, <2>0 DEF EntriesDiffer
      <4> QED  BY <3>2, <4>2, FS_Singleton
    <3> QED  BY <3>1, <3>2
  <2>2. active.a = a => ~IsQueued(a)
    BY DEF EntriesDiffer, IsQueued
  <2>5. payload[a] > 0 => refs[a] # Free_
    BY DEF ContentsFit, ContentFits
  <2>3. CASE \E s \in Sender : hand[s] = a
    <3>1. PICK s \in Sender : hand[s] = a
      BY <2>3
    <3>2. \A t \in Sender : hand[t] = a => t = s
      BY <2>0, <3>1 DEF HandsFit
    <3>3. Cardinality(W) = IF pc[s] \in {"waiting", "done", "returning"} THEN 1 ELSE 0
      <4>1. CASE pc[s] \in {"waiting", "done", "returning"}
        <5>1. W = {s}
          BY <4>1, <3>1, <3>2
        <5> QED  BY <4>1, <5>1, FS_Singleton
      <4>2. CASE pc[s] \notin {"waiting", "done", "returning"}
        <5>1. W = {}
          BY <4>2, <3>1, <3>2
        <5> QED  BY <4>2, <5>1, FS_EmptySet
      <4> QED  BY <4>1, <4>2
    <3>4. Cardinality(D) = IF pc[s] = "done" THEN 1 ELSE 0
      <4>1. CASE pc[s] = "done"
        <5>1. D = {s}
          BY <4>1, <3>1, <3>2
        <5> QED  BY <4>1, <5>1, FS_Singleton
      <4>2. CASE pc[s] # "done"
        <5>1. D = {}
          BY <4>2, <3>1, <3>2
        <5> QED  BY <4>2, <5>1, FS_EmptySet
      <4> QED  BY <4>1, <4>2
    <3>5. HandFits(s) /\ pc[s] \in {Idle, "made", "waiting", "done", "returning"}
      BY DEF HandsFit, AgentTypes
    <3>6. refs[a] # Free_
      BY <3>1, <3>5, <2>0 DEF HandFits, Free_
    <3>7. Holds(a) = Cardinality(Q) + (IF active.a = a THEN 1 ELSE 0) + Cardinality(W) + Cardinality(D)
      BY DEF Holds
    <3> HIDE DEF Q, W, D
    <3>8. refs[a] = Holds(a)
      BY <3>1, <3>3, <3>4, <3>5, <3>7, <2>0, <2>1, <2>2 DEF HandFits
    <3> QED  BY <3>1, <3>6, <3>8
  <2>4. CASE \A s \in Sender : hand[s] # a
    <3>1. W = {} /\ D = {}
      BY <2>4
    <3>2. Cardinality(W) = 0 /\ Cardinality(D) = 0
      BY <3>1, FS_EmptySet
    <3>3. Holds(a) = Cardinality(Q) + (IF active.a = a THEN 1 ELSE 0) + Cardinality(W) + Cardinality(D)
      BY DEF Holds
    <3> HIDE DEF Q, W, D
    <3>4. Holds(a) = IF IsQueued(a) \/ active.a = a THEN 1 ELSE 0
      BY <3>2, <3>3, <2>1, <2>2
    <3>5. ASSUME IsQueued(a) \/ active.a = a PROVE refs[a] = 1
      <4>1. PICK e \in QueueEntry : e.a = a /\ EntryFits(e)
        BY <3>5, <2>0, AgentTypesUnfold DEF EntriesFit, IsQueued
      <4>2. e.by = None
        BY <4>1, <2>4 DEF EntryFits, QueueEntry
      <4> QED  BY <4>1, <4>2 DEF EntryFits
    <3>6. refs[a] # Free_ => IsQueued(a) \/ active.a = a
      BY <2>4 DEF AliveIsHeld
    <3> QED  BY <3>4, <3>5, <3>6, <2>4, <2>5 DEF Free_
  <2> HIDE DEF Q, W, D
  <2> QED  BY <2>3, <2>4
<1> QED
  BY <1>1, <1>2 DEF AgentsDeliverAsGiven

\* Every method that an agent calls gets the parameters its sender gave, and
\* removeAgentsByReceiver is final; the reference counts say who still holds an
\* agent, which is freed with its payload when nobody does; and what a "ret"
\* call returns is the value of that call.  For any threads, receivers and
\* storage, any numbers of parameters and any number of calls.
THEOREM AgentsAlwaysDeliver == AgentSpec => []AgentsDeliverAsGiven
<1>1. AgentInit => AgentInv
  BY AgentStarts
<1>2. AgentInv /\ [AgentNext]_agentVars => AgentInv'
  BY AgentKeeps
<1>3. AgentInv => AgentsDeliverAsGiven
  BY AgentFollows
<1> QED
  BY <1>1, <1>2, <1>3, PTL DEF AgentSpec

-----------------------------------------------------------------------------
(* Strings *)

Byte == Char \cup {NUL, Junk}

IsRep(r) ==
    /\ r \in [id : Nat \ {0}, cap : Nat, len : Nat, data : Seq(Byte)]
    /\ Len(r.data) = r.cap

\* r is a Rep with the text s.
Carries(r, s) ==
    /\ IsRep(r) /\ s \in Seq(Char)
    /\ r.len = Len(s) /\ r.len < r.cap
    /\ \A i \in 1..r.len : r.data[i] = s[i]
    /\ r.data[r.len + 1] = NUL

LEMMA CharsAreBytes ==
    ASSUME NEW s \in Seq(Char)
    PROVE  s \in Seq(Byte) /\ Len(s) \in Nat /\ \A i \in 1..Len(s) : s[i] \in Char /\ s[i] \in Byte
  BY LenProperties, ElementOfSeq DEF Byte

-----------------------------------------------------------------------------
\* What the operations on a Rep do.

IsPut(q, r, place, s) ==
    /\ IsRep(q) /\ q.id = r.id /\ q.cap = r.cap /\ q.len = r.len
    /\ \A i \in 1..r.cap : q.data[i] = IF place < i /\ i <= place + Len(s) THEN s[i - place] ELSE r.data[i]

LEMMA PutIs ==
    ASSUME NEW r, IsRep(r), NEW place \in Nat, NEW s \in Seq(Byte)
    PROVE  IsPut(Put(r, place, s), r, place, s)
<1>0. PICK q : q = Put(r, place, s)
  OBVIOUS
<1>1. PICK d \in Seq(Byte), n \in Nat, m \in Nat : d = r.data /\ n = r.cap /\ Len(d) = n /\ m = Len(s)
  BY LenProperties DEF IsRep
<1>2. DOMAIN d = 1..n /\ (\A i \in 1..n : d[i] \in Byte) /\ \A i \in 1..m : s[i] \in Byte
  BY <1>1, LenProperties, ElementOfSeq
<1>3. PICK e : e = [i \in 1..n |-> IF i - place \in 1..m THEN s[i - place] ELSE d[i]]
  OBVIOUS
<1>4. \A i \in 1..n : e[i] = IF place < i /\ i <= place + m THEN s[i - place] ELSE d[i]
  BY <1>3
<1>5. e \in Seq(Byte) /\ Len(e) = n
  <2>1. \A i \in 1..n : e[i] \in Byte
    BY <1>2, <1>3
  <2>2. e = [i \in 1..n |-> e[i]]
    BY <1>3
  <2> QED  BY <2>1, <2>2, ListBy
<1>6. q = [r EXCEPT !.data = e]
  BY <1>0, <1>1, <1>2, <1>3 DEF Put
<1>7. q.id = r.id /\ q.cap = r.cap /\ q.len = r.len /\ q.data = e
  BY <1>6 DEF IsRep
<1>8. IsRep(q)
  BY <1>1, <1>5, <1>6 DEF IsRep
<1> QED  BY <1>0, <1>1, <1>4, <1>7, <1>8 DEF IsPut

IsTerminated(q, r, n) ==
    /\ IsRep(q) /\ q.id = r.id /\ q.cap = r.cap /\ q.len = n
    /\ \A i \in 1..r.cap : q.data[i] = IF i = n + 1 THEN NUL ELSE r.data[i]

LEMMA TerminateIs ==
    ASSUME NEW r, IsRep(r), NEW n \in Nat, n < r.cap
    PROVE  IsTerminated(Terminate(r, n), r, n)
<1>0. PICK q : q = Terminate(r, n)
  OBVIOUS
<1>2. PICK one \in Seq(Byte) : one = <<NUL>> /\ Len(one) = 1 /\ one[1] = NUL
  <2>1. NUL \in Byte
    BY DEF Byte
  <2>2. <<NUL>> \in Seq(Byte)
    BY <2>1
  <2>3. Len(<<NUL>>) = 1 /\ <<NUL>>[1] = NUL
    OBVIOUS
  <2> QED  BY <2>2, <2>3, Zenon
<1>1. PICK p : p = Put(r, n, one)
  OBVIOUS
<1>3. r.cap \in Nat
  BY DEF IsRep
<1>4. /\ IsRep(p) /\ p.id = r.id /\ p.cap = r.cap /\ p.len = r.len
      /\ \A i \in 1..r.cap : p.data[i] = IF n < i /\ i <= n + Len(one) THEN one[i - n] ELSE r.data[i]
  <2>1. IsPut(p, r, n, one)
    BY <1>1, PutIs
  <2> QED  BY <2>1 DEF IsPut
<1>5. ASSUME NEW i \in 1..r.cap PROVE p.data[i] = IF i = n + 1 THEN NUL ELSE r.data[i]
  <2>1. CASE i = n + 1
    <3>1. n < i /\ i <= n + 1 /\ i - n = 1
      BY <2>1
    <3> QED  BY <3>1, <2>1, <1>2, <1>4
  <2>2. CASE i # n + 1
    <3>1. ~(n < i /\ i <= n + 1)
      BY <2>2, <1>3
    <3> QED  BY <3>1, <2>2, <1>2, <1>4
  <2> QED  BY <2>1, <2>2
<1>6. q = [p EXCEPT !.len = n]
  BY <1>0, <1>1, <1>2 DEF Terminate
<1>7. IsRep(q) /\ q.id = p.id /\ q.cap = p.cap /\ q.len = n /\ q.data = p.data
  BY <1>4, <1>6 DEF IsRep
<1> QED  BY <1>0, <1>4, <1>5, <1>7 DEF IsTerminated

LEMMA ValueIs ==
    ASSUME NEW r, NEW s, Carries(r, s)
    PROVE  ValueOf(r) = s
<1>1. PICK d \in Seq(Byte), n \in Nat, c \in Nat : d = r.data /\ n = r.len /\ c = r.cap /\ Len(d) = c /\ n < c
  BY DEF Carries, IsRep
<1>2. s \in Seq(Char) /\ Len(s) = n /\ \A i \in 1..n : d[i] = s[i]
  BY <1>1 DEF Carries
<1>3. PICK u : u = SubSeq(d, 1, n)
  OBVIOUS
<1>4. u \in Seq(Byte) /\ Len(u) = n /\ \A i \in 1..n : u[i] = d[i]
  <2>1. 1 \in Nat \ {0} /\ n <= Len(d) /\ 1 <= n + 1
    BY <1>1
  <2>2. u \in Seq(Byte) /\ Len(u) = n - 1 + 1 /\ \A i \in 1..(n - 1 + 1) : u[i] = d[1 + i - 1]
    BY <2>1, <1>1, <1>3, PartPlaces
  <2> QED  BY <2>2
<1>5. s \in Seq(Byte)
  BY <1>2, CharsAreBytes
<1>6. u = s
  BY <1>2, <1>4, <1>5, ListsEqual
<1> QED  BY <1>1, <1>3, <1>6 DEF ValueOf

\* The number that tells a new Rep from the others.
LEMMA FreshIs == FreshId \in Nat \ {0} /\ \A x \in Str : mRep[x].id # FreshId
<1>1. IsFiniteSet(Str) /\ Cardinality(Str) \in Nat
  BY StringAssumption, FS_CardinalityType
<1>2. PICK n \in Nat : n = Cardinality(Str)
  BY <1>1
<1>0. PICK f : f = [x \in Str |-> mRep[x].id]
  OBVIOUS
<1>3. PICK I : I = {f[x] : x \in Str}
  OBVIOUS
<1>4. IsFiniteSet(I) /\ Cardinality(I) <= n
  <2>1. IsFiniteSet(I) /\ Cardinality(I) <= Cardinality(Str)
    <3>1. f \in Surjection(Str, I)
      BY <1>0, <1>3 DEF Surjection
    <3> QED  BY <3>1, <1>1, FS_Surjection
  <2> QED  BY <2>1, <1>2
<1>5. IsFiniteSet(1..(n + 1)) /\ Cardinality(1..(n + 1)) = n + 1
  <2>1. n + 1 \in Nat
    OBVIOUS
  <2> QED  BY <2>1, IntervalSize
<1>6. ~(1..(n + 1) \subseteq I)
  <2>1. ASSUME 1..(n + 1) \subseteq I PROVE Cardinality(1..(n + 1)) <= Cardinality(I)
    BY <2>1, <1>4, FS_Subset
  <2>2. Cardinality(I) \in Nat
    BY <1>4, FS_CardinalityType
  <2> QED  BY <2>1, <2>2, <1>4, <1>5
<1>7. \E i \in 1..(n + 1) : \A x \in Str : mRep[x].id # i
  BY <1>0, <1>3, <1>6
<1>8. \E i \in 1..Cardinality(Str) + 1 : \A x \in Str : mRep[x].id # i
  BY <1>7, <1>2
<1>9. FreshId \in 1..Cardinality(Str) + 1 /\ \A x \in Str : mRep[x].id # FreshId
  BY <1>8, Zenon DEF FreshId
<1> QED  BY <1>9, <1>1

LEMMA MinOfTwo ==
    ASSUME NEW a \in Int, NEW b \in Int, a <= b
    PROVE  Min({a, b}) = a
<1>1. \E x \in {a, b} : \A y \in {a, b} : x <= y
  OBVIOUS
<1>2. PICK m : m = Min({a, b})
  OBVIOUS
<1>3. m \in {a, b} /\ \A y \in {a, b} : m <= y
  BY <1>1, <1>2, Zenon DEF Min
<1>4. m = a
  BY <1>3
<1> QED  BY <1>2, <1>4

\* Rep::assign of a text that fits.
LEMMA AssignIs ==
    ASSUME NEW c \in Nat, NEW d \in Seq(Byte), Len(d) = c, NEW s \in Seq(Char), Len(s) < c,
           NEW e, e = RepAssign(d, c, s)
    PROVE  /\ e \in Seq(Byte) /\ Len(e) = c
           /\ (\A i \in 1..Len(s) : e[i] = s[i]) /\ e[Len(s) + 1] = NUL
<1>1. PICK n \in Nat : n = Len(s)
  BY LenProperties
<1>2. e = [i \in 1..c |-> IF i <= n THEN s[i] ELSE IF i = n + 1 THEN NUL ELSE d[i]]
  BY <1>1 DEF RepAssign
<1>3. (\A i \in 1..n : s[i] \in Byte) /\ (\A i \in 1..c : d[i] \in Byte) /\ NUL \in Byte
  <2>1. \A i \in 1..n : s[i] \in Byte
    BY <1>1, CharsAreBytes
  <2>2. \A i \in 1..c : d[i] \in Byte
    BY ElementOfSeq
  <2> QED  BY <2>1, <2>2 DEF Byte
<1>4. ASSUME NEW i \in 1..c PROVE e[i] \in Byte
  <2>1. i <= n => i \in 1..n
    BY <1>1
  <2> QED  BY <2>1, <1>2, <1>3
<1>5. e = [i \in 1..c |-> e[i]]
  BY <1>2
<1>6. e \in Seq(Byte) /\ Len(e) = c
  <2>1. e \in [1..c -> Byte]
    BY <1>4, <1>5
  <2> QED  BY <2>1
<1>7. ASSUME NEW i \in 1..n PROVE e[i] = s[i]
  <2>1. i \in 1..c /\ i <= n
    BY <1>1
  <2> QED  BY <2>1, <1>2
<1>8. e[n + 1] = NUL
  <2>1. n + 1 \in 1..c /\ ~(n + 1 <= n)
    BY <1>1
  <2> QED  BY <2>1, <1>2
<1> QED  BY <1>1, <1>6, <1>7, <1>8

LEMMA NewRepIs ==
    ASSUME NEW c \in Nat, NEW s \in Seq(Char), Len(s) < c, NEW q, q = NewRep(c, s)
    PROVE  Carries(q, s) /\ q.id = FreshId /\ q.cap = c
<1>1. PICK d : d = [i \in 1..c |-> Junk]
  OBVIOUS
<1>2. d \in Seq(Byte) /\ Len(d) = c
  <2>1. \A i \in 1..c : d[i] \in Byte
    BY <1>1 DEF Byte
  <2>2. d = [i \in 1..c |-> d[i]]
    BY <1>1
  <2> QED  BY <2>1, <2>2, ListBy
<1>3. PICK e : e = RepAssign(d, c, s)
  OBVIOUS
<1>4. /\ e \in Seq(Byte) /\ Len(e) = c
      /\ (\A i \in 1..Len(s) : e[i] = s[i]) /\ e[Len(s) + 1] = NUL
  BY <1>2, <1>3, AssignIs
<1>5. Len(s) \in Nat
  BY LenProperties
<1>6. Min({Len(s), c - 1}) = Len(s)
  <2>1. Len(s) \in Int /\ c - 1 \in Int /\ Len(s) <= c - 1
    BY <1>5
  <2> QED  BY <2>1, MinOfTwo
<1>7. q = [id |-> FreshId, cap |-> c, len |-> Len(s), data |-> e]
  BY <1>1, <1>3, <1>6 DEF NewRep
<1>8. q.id = FreshId /\ q.cap = c /\ q.len = Len(s) /\ q.data = e
  BY <1>7
<1>9. IsRep(q)
  BY <1>4, <1>5, <1>7, <1>8, FreshIs DEF IsRep
<1> QED  BY <1>4, <1>8, <1>9 DEF Carries

IsReserved(q, r, s, n) ==
    /\ Carries(q, s) /\ n <= q.cap /\ r.cap <= q.cap
    /\ q.id = IF n > r.cap THEN FreshId ELSE r.id

LEMMA ReserveIs ==
    ASSUME NEW r, NEW s, Carries(r, s), NEW n \in Int
    PROVE  IsReserved(ReserveRep(r, n), r, s, n)
<1>0. PICK q : q = ReserveRep(r, n)
  OBVIOUS
<1>1. PICK c \in Nat : c = r.cap /\ Len(s) < c /\ s \in Seq(Char)
  BY DEF Carries, IsRep
<1>2. CASE n > c
  <2>1. PICK m \in Nat : m = (IF n < c * 2 THEN c * 2 ELSE n) /\ n <= m /\ c <= m /\ Len(s) < m
    <3>1. Len(s) \in Nat
      BY <1>1, LenProperties
    <3> QED  BY <3>1, <1>1, <1>2
  <2>2. q = NewRep(m, s)
    BY <2>1, <1>1, <1>2, ValueIs, <1>0 DEF ReserveRep
  <2>3. Carries(q, s) /\ q.id = FreshId /\ q.cap = m
    BY <2>1, <2>2, <1>1, NewRepIs
  <2>4. n <= q.cap /\ r.cap <= q.cap /\ q.id = IF n > r.cap THEN FreshId ELSE r.id
    BY <2>1, <2>3, <1>1, <1>2
  <2> QED  BY <2>3, <2>4, <1>0, Zenon DEF IsReserved
<1>3. CASE ~(n > c)
  <2>1. q = r
    BY <1>0, <1>1, <1>3 DEF ReserveRep
  <2>4. r.cap \in Int /\ n <= q.cap /\ r.cap <= q.cap /\ q.id = IF n > r.cap THEN FreshId ELSE r.id
    BY <2>1, <1>1, <1>3
  <2>5. Carries(q, s)
    BY <2>1
  <2> QED  BY <2>4, <2>5, <1>0, Zenon DEF IsReserved
<1> QED  BY <1>2, <1>3

\* Nobody but x holds the Rep with this number.
Own(x, i) == \A y \in Str : y # x => mRep[y].id # i

LEMMA CopyIs ==
    ASSUME NEW x \in Str, NEW s, Carries(mRep[x], s), NEW q, q = CopyOnWrite(x)
    PROVE  Carries(q, s) /\ Own(x, q.id) /\ q.cap = mRep[x].cap
<1>1. PICK c \in Nat : c = mRep[x].cap /\ Len(s) < c /\ s \in Seq(Char)
  BY DEF Carries, IsRep
<1>2. CASE Cardinality(Sharers(x)) > 1
  <2>1. q = NewRep(c, s)
    BY <1>1, <1>2, ValueIs DEF CopyOnWrite
  <2>2. Carries(q, s) /\ q.id = FreshId /\ q.cap = c
    BY <2>1, <1>1, NewRepIs
  <2> QED  BY <2>2, <1>1, FreshIs DEF Own
<1>3. CASE ~(Cardinality(Sharers(x)) > 1)
  <2>1. q = mRep[x]
    BY <1>3 DEF CopyOnWrite
  <2>2. IsFiniteSet(Sharers(x)) /\ x \in Sharers(x)
    <3>1. Sharers(x) \in SUBSET Str
      BY DEF Sharers
    <3> QED  BY <3>1, StringAssumption, FS_Subset DEF Sharers
  <2>3. ASSUME NEW y \in Str, y # x PROVE mRep[y].id # mRep[x].id
    <3>1. SUFFICES ASSUME mRep[y].id = mRep[x].id PROVE FALSE
      OBVIOUS
    <3>2. PICK D : D = {x, y}
      OBVIOUS
    <3>3. D \in SUBSET Sharers(x) /\ IsFiniteSet(D)
      <4>1. y \in Sharers(x)
        BY <3>1 DEF Sharers
      <4>2. D \in SUBSET Sharers(x)
        BY <4>1, <3>2, <2>2
      <4> QED  BY <4>2, <2>2, FS_Subset
    <3>4. Cardinality(D) <= Cardinality(Sharers(x))
      BY <3>3, <2>2, FS_Subset
    <3>5. Cardinality(D) = 2
      <4>1. IsFiniteSet({x}) /\ Cardinality({x}) = 1
        BY FS_Singleton
      <4>2. y \notin {x} /\ D = {x} \cup {y}
        BY <2>3, <3>2
      <4>3. Cardinality(D) = 1 + 1
        BY <4>1, <4>2, FS_AddElement
      <4> QED  BY <4>3
    <3>6. Cardinality(Sharers(x)) \in Nat
      BY <2>2, FS_CardinalityType
    <3> QED  BY <3>4, <3>5, <3>6, <1>3
  <2> QED  BY <2>1, <2>3 DEF Own
<1> QED  BY <1>2, <1>3

-----------------------------------------------------------------------------
\* How the operations change the text that a Rep carries.

\* A text is written behind the first p characters and terminated there.
IsWritten(q, r, t) == Carries(q, t) /\ q.id = r.id /\ q.cap = r.cap

LEMMA WriteIs ==
    ASSUME NEW r, NEW s, Carries(r, s), NEW p \in Nat, p <= Len(s), NEW a \in Seq(Byte), p + Len(a) < r.cap,
           NEW t \in Seq(Char), Len(t) = p + Len(a),
           \A i \in 1..Len(t) : t[i] = IF i <= p THEN s[i] ELSE a[i - p]
    PROVE  IsWritten(Terminate(Put(r, p, a), p + Len(a)), r, t)
<1>0. PICK q : q = Terminate(Put(r, p, a), p + Len(a))
  OBVIOUS
<1>1. PICK c \in Nat, n \in Nat, m \in Nat : c = r.cap /\ n = Len(s) /\ m = Len(a) /\ n < c /\ p + m < c
  BY LenProperties DEF Carries, IsRep
<1>2. IsRep(r) /\ \A i \in 1..n : r.data[i] = s[i]
  BY <1>1 DEF Carries
<1>3. PICK z : z = Put(r, p, a)
  OBVIOUS
<1>30. IsPut(z, r, p, a)
  BY <1>2, <1>3, PutIs
<1>4. IsRep(z) /\ z.id = r.id /\ z.cap = c
  BY <1>1, <1>30 DEF IsPut
<1>5. \A i \in 1..c : z.data[i] = IF p < i /\ i <= p + m THEN a[i - p] ELSE r.data[i]
  BY <1>1, <1>30 DEF IsPut
<1>6. PICK k \in Nat : k = p + m
  OBVIOUS
<1>31. IsTerminated(q, z, k)
  <2>1. q = Terminate(z, k) /\ k < z.cap
    BY <1>0, <1>1, <1>3, <1>4, <1>6
  <2> QED  BY <2>1, <1>4, TerminateIs
<1>7. IsRep(q) /\ q.id = z.id /\ q.cap = z.cap /\ q.len = k
  BY <1>31 DEF IsTerminated
<1>8. \A i \in 1..c : q.data[i] = IF i = k + 1 THEN NUL ELSE z.data[i]
  BY <1>4, <1>31 DEF IsTerminated
<1>9. ASSUME NEW i \in 1..k PROVE q.data[i] = t[i]
  <2>1. i \in 1..c /\ i # k + 1 /\ i \in 1..Len(t)
    BY <1>1, <1>6
  <2>2. q.data[i] = z.data[i] /\ t[i] = IF i <= p THEN s[i] ELSE a[i - p]
    BY <2>1, <1>8
  <2>3. CASE i <= p
    <3>1. ~(p < i) /\ i \in 1..n
      BY <2>3, <1>1
    <3> QED  BY <3>1, <2>1, <2>2, <2>3, <1>2, <1>5
  <2>4. CASE ~(i <= p)
    <3>1. p < i /\ i <= p + m
      BY <2>4, <1>6
    <3> QED  BY <3>1, <2>1, <2>2, <2>4, <1>5
  <2> QED  BY <2>3, <2>4
<1>10. q.data[k + 1] = NUL
  <2>1. k + 1 \in 1..c
    BY <1>1, <1>6
  <2> QED  BY <2>1, <1>8
<1>11. Len(t) = k /\ k < c
  BY <1>1, <1>6
<1>12. Carries(q, t)
  BY <1>1, <1>4, <1>7, <1>9, <1>10, <1>11 DEF Carries
<1> QED  BY <1>0, <1>1, <1>4, <1>7, <1>12 DEF IsWritten

\* insert, on a Rep that nobody else holds.
LEMMA InsertIs ==
    ASSUME NEW r, NEW t, Carries(r, t), NEW place \in Nat, place <= Len(t), NEW s \in Seq(Char),
           NEW q, q = InsertRep(r, place, s)
    PROVE  Carries(q, Spliced(t, place, 0, s)) /\ (q.id = r.id \/ q.id = FreshId) /\ Len(t) + Len(s) < q.cap
<1>1. PICK n \in Nat, m \in Nat : n = Len(t) /\ m = Len(s) /\ n = r.len
  BY LenProperties DEF Carries
<1>2. PICK r0 : r0 = ReserveRep(r, n + m + 1)
  OBVIOUS
<1>3. Carries(r0, t) /\ n + m + 1 <= r0.cap /\ (r0.id = r.id \/ r0.id = FreshId)
  <2>1. PICK i \in Int : i = n + m + 1
    OBVIOUS
  <2>2. IsReserved(r0, r, t, i)
    BY <2>1, <1>2, ReserveIs
  <2> QED  BY <2>1, <2>2 DEF IsReserved
<1>4. PICK c \in Nat, d \in Seq(Byte) :
          /\ c = r0.cap /\ d = r0.data /\ Len(d) = c /\ n = r0.len /\ n + m < c /\ IsRep(r0)
          /\ \A i \in 1..n : d[i] = t[i]
  BY <1>1, <1>3 DEF Carries, IsRep
<1>5. PICK u : u = SubSeq(d, place + 1, n)
  OBVIOUS
<1>6. PICK l \in Nat : l = n - place
  BY <1>1
<1>7. u \in Seq(Byte) /\ Len(u) = l /\ \A i \in 1..l : u[i] = d[place + i]
  <2>1. PICK a \in Nat \ {0} : a = place + 1
    OBVIOUS
  <2>2. n <= Len(d) /\ a <= n + 1 /\ n - a + 1 = l
    BY <2>1, <1>1, <1>4, <1>6
  <2>3. u \in Seq(Byte) /\ Len(u) = l /\ \A i \in 1..l : u[i] = d[a + i - 1]
    BY <2>1, <2>2, <1>5, PartPlaces
  <2>4. ASSUME NEW i \in 1..l PROVE u[i] = d[place + i]
    <3>1. a + i - 1 = place + i
      BY <2>1
    <3> QED  BY <2>3, <3>1
  <2> QED  BY <2>3, <2>4
<1>8. PICK j \in Nat : j = place + m
  OBVIOUS
<1>9. PICK y : y = Put(r0, j, u)
  OBVIOUS
<1>30. IsPut(y, r0, j, u)
  BY <1>4, <1>7, <1>9, PutIs
<1>10. IsRep(y) /\ y.id = r0.id /\ y.cap = c /\ y.len = n
  BY <1>4, <1>30 DEF IsPut
<1>11. \A i \in 1..c : y.data[i] = IF j < i /\ i <= j + l THEN u[i - j] ELSE d[i]
  BY <1>4, <1>7, <1>30 DEF IsPut
<1>12. PICK z : z = Put(y, place, s)
  OBVIOUS
<1>13. s \in Seq(Byte)
  BY CharsAreBytes
<1>31. IsPut(z, y, place, s)
  BY <1>10, <1>12, <1>13, PutIs
<1>14. IsRep(z) /\ z.id = y.id /\ z.cap = c /\ z.len = n
  BY <1>10, <1>31 DEF IsPut
<1>15. \A i \in 1..c : z.data[i] = IF place < i /\ i <= place + m THEN s[i - place] ELSE y.data[i]
  BY <1>1, <1>10, <1>31 DEF IsPut
<1>16. PICK k \in Nat : k = n + m
  OBVIOUS
<1>17. q = Terminate(z, k)
  BY <1>1, <1>2, <1>4, <1>5, <1>8, <1>9, <1>12, <1>16 DEF InsertRep
<1>18. k < z.cap
  BY <1>4, <1>14, <1>16
<1>34. k < c
  BY <1>14, <1>18
<1>32. IsTerminated(q, z, k)
  BY <1>14, <1>17, <1>18, TerminateIs
<1>19. IsRep(q) /\ q.id = z.id /\ q.cap = c /\ q.len = k
  BY <1>14, <1>32 DEF IsTerminated
<1>20. \A i \in 1..c : q.data[i] = IF i = k + 1 THEN NUL ELSE z.data[i]
  BY <1>14, <1>32 DEF IsTerminated
<1>21. PICK w : w = Spliced(t, place, 0, s)
  OBVIOUS
<1>22. t \in Seq(Char) /\ place + 0 <= Len(t)
  BY DEF Carries
<1>33. IsSpliced(w, Char, t, place, 0, s)
  <2>1. 0 \in Nat
    OBVIOUS
  <2> QED  BY <2>1, <1>21, <1>22, SplicePlaces
<1>23. w \in Seq(Char) /\ Len(w) = k
  <2>1. w \in Seq(Char) /\ Len(w) = Len(t) - 0 + Len(s)
    BY <1>33 DEF IsSpliced
  <2>2. Len(t) - 0 + Len(s) = k
    BY <1>1, <1>16
  <2> QED  BY <2>1, <2>2
<1>24. ASSUME NEW i \in 1..k
       PROVE  w[i] = IF i <= place THEN t[i] ELSE IF i <= j THEN s[i - place] ELSE t[i - m]
  <2>1. i \in 1..(Len(t) - 0 + Len(s)) /\ i - Len(s) + 0 = i - m /\ place + Len(s) = j
    BY <1>1, <1>8, <1>16
  <2> QED  BY <2>1, <1>33 DEF IsSpliced
<1>25. ASSUME NEW i \in 1..k PROVE q.data[i] = w[i]
  <2>1. i \in 1..c /\ i # k + 1 /\ i \in Int
    BY <1>34
  <2>2. q.data[i] = z.data[i]
    BY <2>1, <1>20
  <2>3. CASE i <= place
    <3>1. ~(place < i) /\ ~(j < i) /\ i \in 1..n
      BY <2>1, <2>3, <1>1, <1>8
    <3> QED  BY <3>1, <2>1, <2>2, <2>3, <1>4, <1>11, <1>15, <1>24
  <2>4. CASE ~(i <= place) /\ i <= j
    <3>1. place < i /\ i <= place + m
      BY <2>1, <2>4, <1>8
    <3> QED  BY <3>1, <2>1, <2>2, <2>4, <1>15, <1>24
  <2>5. CASE ~(i <= j)
    <3>1. /\ ~(i <= place + m) /\ ~(i <= place) /\ j < i /\ i <= j + l
          /\ i - j \in 1..l /\ place + (i - j) = i - m /\ i - m \in 1..n
      <4>1. i \in Int /\ i > j /\ i <= n + m /\ j = place + m /\ l = n - place /\ place <= n
        BY <2>1, <2>5, <1>1, <1>6, <1>8, <1>16
      <4> QED  BY <4>1
    <3>2. z.data[i] = u[i - j]
      BY <3>1, <2>1, <1>11, <1>15
    <3>3. u[i - j] = d[i - m]
      BY <3>1, <1>7
    <3> QED  BY <3>1, <3>2, <3>3, <2>2, <2>5, <1>4, <1>24
  <2> QED  BY <2>3, <2>4, <2>5
<1>26. q.data[k + 1] = NUL
  <2>1. k + 1 \in 1..c
    BY <1>34
  <2> QED  BY <2>1, <1>20
<1>27. Carries(q, w)
  BY <1>19, <1>23, <1>25, <1>26, <1>34 DEF Carries
<1>28. Len(t) + Len(s) < q.cap
  BY <1>1, <1>14, <1>16, <1>18, <1>19
<1> QED  BY <1>3, <1>10, <1>14, <1>19, <1>21, <1>27, <1>28

\* The text is cut behind its first n characters.
LEMMA CutIs ==
    ASSUME NEW r, NEW t, Carries(r, t), NEW z, IsRep(z), z.id = r.id, z.cap = r.cap,
           \A i \in 1..r.cap : z.data[i] = r.data[i],
           NEW n \in Nat, n <= Len(t), NEW w \in Seq(Char), Len(w) = n, \A i \in 1..n : w[i] = t[i]
    PROVE  IsWritten(Terminate(z, n), r, w)
<1>1. PICK c \in Nat, m \in Nat : c = r.cap /\ m = Len(t) /\ m < c /\ \A i \in 1..m : r.data[i] = t[i]
  BY LenProperties DEF Carries, IsRep
<1>2. PICK q : q = Terminate(z, n)
  OBVIOUS
<1>3. IsTerminated(q, z, n)
  BY <1>1, <1>2, TerminateIs
<1>4. IsRep(q) /\ q.id = r.id /\ q.cap = c /\ q.len = n
  BY <1>1, <1>3 DEF IsTerminated
<1>5. \A i \in 1..c : q.data[i] = IF i = n + 1 THEN NUL ELSE z.data[i]
  BY <1>1, <1>3 DEF IsTerminated
<1>6. ASSUME NEW i \in 1..n PROVE q.data[i] = w[i]
  <2>1. i \in 1..c /\ i # n + 1 /\ i \in 1..m
    BY <1>1
  <2> QED  BY <2>1, <1>1, <1>5
<1>7. q.data[n + 1] = NUL
  <2>1. n + 1 \in 1..c
    BY <1>1
  <2> QED  BY <2>1, <1>5
<1>8. Carries(q, w)
  BY <1>1, <1>4, <1>6, <1>7 DEF Carries
<1> QED  BY <1>1, <1>2, <1>4, <1>8 DEF IsWritten

IsErased(w, t, place, k) ==
    /\ w \in Seq(Char) /\ Len(w) = Len(t) - k
    /\ \A i \in 1..(Len(t) - k) : w[i] = IF i <= place THEN t[i] ELSE t[i + k]

\* How many characters erase takes.
Taken(t, place, n) == IF n = npos \/ place + n > Len(t) THEN Len(t) - place ELSE n

LEMMA ErasedIs ==
    ASSUME NEW t \in Seq(Char), NEW place \in Nat, place < Len(t), NEW n \in Nat \cup {npos}
    PROVE  Taken(t, place, n) \in 0..(Len(t) - place) /\ IsErased(Erased(t, place, n), t, place, Taken(t, place, n))
<1>1. PICK m \in Nat, k \in Nat : m = Len(t) /\ k = Taken(t, place, n) /\ k <= m - place
  <2>1. Len(t) \in Nat
    BY LenProperties
  <2>2. Taken(t, place, n) \in 0..(Len(t) - place)
    BY <2>1 DEF Taken, npos
  <2> QED  BY <2>1, <2>2
<1>2. PICK u : u = SubSeq(t, 1, place)
  OBVIOUS
<1>3. u \in Seq(Char) /\ Len(u) = place /\ \A i \in 1..place : u[i] = t[i]
  <2>1. 1 \in Nat \ {0} /\ place <= Len(t) /\ 1 <= place + 1
    BY <1>1
  <2>2. u \in Seq(Char) /\ Len(u) = place - 1 + 1 /\ \A i \in 1..(place - 1 + 1) : u[i] = t[1 + i - 1]
    BY <2>1, <1>2, PartPlaces
  <2> QED  BY <2>2
<1>4. PICK w : w = Erased(t, place, n)
  OBVIOUS
<1>5. CASE n = npos \/ place + n > m
  <2>1. w = u
    <3>1. CASE n = npos
      BY <3>1, <1>1, <1>2, <1>4 DEF Erased
    <3>2. CASE n # npos
      <4>1. SubSeq(t, place + n + 1, m) = << >>
        BY <3>2, <1>5, <1>1
      <4>2. w = u \o << >>
        <5>1. Len(t) \in Nat /\ ~(place >= Len(t))
          BY <1>1
        <5>2. w = SubSeq(t, 1, place) \o SubSeq(t, place + n + 1, Len(t))
          BY <5>1, <3>2, <1>4 DEF Erased
        <5>3. SubSeq(t, place + n + 1, Len(t)) = << >>
          BY <4>1, <1>1
        <5> QED  BY <5>2, <5>3, <1>2
      <4> QED  BY <4>2, <1>3, ConcatEmptySeq
    <3> QED  BY <3>1, <3>2
  <2>2. k = m - place /\ m - k = place
    BY <1>1, <1>5 DEF Taken
  <2>3. IsErased(w, t, place, k)
    BY <2>1, <2>2, <1>1, <1>3 DEF IsErased
  <2> QED  BY <2>3, <1>1, <1>4
<1>6. CASE ~(n = npos \/ place + n > m)
  <2>1. n \in Nat /\ k = n
    BY <1>1, <1>6 DEF Taken
  <2>2. PICK l \in Nat : l = m - place - k
    BY <1>1
  <2>3. PICK v : v = SubSeq(t, place + k + 1, m)
    OBVIOUS
  <2>4. v \in Seq(Char) /\ Len(v) = l /\ \A i \in 1..l : v[i] = t[place + k + i]
    <3>1. place + k \in Nat /\ m <= Len(t) /\ l = m - (place + k)
      BY <2>2, <1>1
    <3>2. IsTail(v, Char, t, place + k, l)
      BY <3>1, <2>3, TailPlaces
    <3> QED  BY <3>2 DEF IsTail
  <2>5. w = u \o v
    <3>1. Len(t) \in Nat /\ ~(place >= Len(t)) /\ n # npos
      BY <1>1, <1>6
    <3>2. w = SubSeq(t, 1, place) \o SubSeq(t, place + n + 1, Len(t))
      BY <3>1, <1>4 DEF Erased
    <3>3. SubSeq(t, place + n + 1, Len(t)) = v
      BY <2>1, <2>3, <1>1
    <3> QED  BY <3>2, <3>3, <1>2
  <2>6. u \in Seq(Char) /\ Len(u) = place /\ v \in Seq(Char) /\ Len(v) = l
    BY <2>4, <1>3
  <2>7. IsJoined(w, Char, u, place, v, l)
    BY <2>5, <2>6, JoinPlaces
  <2>8. w \in Seq(Char) /\ Len(w) = place + l /\ (\A i \in 1..place : w[i] = u[i]) /\ \A i \in 1..l : w[place + i] = v[i]
    BY <2>7 DEF IsJoined
  <2>11. ASSUME NEW i \in 1..(m - k) PROVE w[i] = IF i <= place THEN t[i] ELSE t[i + k]
    <3>1. CASE i <= place
      BY <3>1, <2>8, <1>3
    <3>2. CASE ~(i <= place)
      <4>1. PICK j \in 1..l : place + j = i
        <5>1. i - place \in 1..l /\ place + (i - place) = i
          BY <3>2, <2>2, <1>1
        <5> QED  BY <5>1
      <4>2. place + k + j = i + k
        BY <4>1
      <4> QED  BY <4>1, <4>2, <3>2, <2>4, <2>8
    <3> QED  BY <3>1, <3>2
  <2>12. place + l = m - k
    BY <2>2, <1>1
  <2>13. IsErased(w, t, place, k)
    BY <2>8, <2>11, <2>12, <1>1 DEF IsErased
  <2> QED  BY <2>13, <1>1, <1>4
<1> QED  BY <1>5, <1>6

LEMMA EraseIs ==
    ASSUME NEW r, NEW t, Carries(r, t), NEW place \in Nat, NEW n \in Nat \cup {npos}
    PROVE  IsWritten(EraseRep(r, place, n), r, Erased(t, place, n))
<1>1. PICK m \in Nat, d \in Seq(Byte), c \in Nat :
          /\ m = Len(t) /\ m = r.len /\ m < c /\ c = r.cap /\ d = r.data /\ Len(d) = c /\ IsRep(r) /\ t \in Seq(Char)
          /\ \A i \in 1..m : d[i] = t[i]
  BY LenProperties DEF Carries, IsRep
<1>2. PICK q, w : q = EraseRep(r, place, n) /\ w = Erased(t, place, n)
  OBVIOUS
<1>3. CASE place >= m
  <2>1. q = r /\ w = t
    BY <1>1, <1>2, <1>3 DEF EraseRep, Erased
  <2> QED  BY <2>1, <1>2 DEF IsWritten
<1>4. CASE place < m
  <2>1. PICK k \in Nat : k = Taken(t, place, n) /\ k <= m - place /\ IsErased(w, t, place, k)
    <3>1. Taken(t, place, n) \in 0..(m - place) /\ IsErased(w, t, place, Taken(t, place, n))
      BY <1>1, <1>2, <1>4, ErasedIs
    <3> QED  BY <3>1
  <2>2. PICK l \in Nat : l = m - k
    BY <2>1
  <2>3. w \in Seq(Char) /\ Len(w) = l /\ \A i \in 1..l : w[i] = IF i <= place THEN t[i] ELSE t[i + k]
    BY <2>1, <2>2, <1>1 DEF IsErased
  <2>4. CASE n = npos \/ place + n = m
    <3>1. q = Terminate(r, place)
      BY <2>4, <1>1, <1>2, <1>4 DEF EraseRep
    <3>2. l = place
      BY <2>1, <2>2, <2>4, <1>1, <1>4 DEF Taken
    <3>3. \A i \in 1..place : w[i] = t[i]
      BY <3>2, <2>3
    <3>4. place <= Len(t) /\ Len(w) = place /\ IsRep(r)
      BY <3>2, <2>3, <1>1, <1>4
    <3>5. Carries(q, w) /\ q.id = r.id /\ q.cap = r.cap
      <4>1. IsWritten(Terminate(r, place), r, w)
        BY <3>3, <3>4, <2>3, CutIs
      <4> QED  BY <4>1, <3>1 DEF IsWritten
    <3> QED  BY <3>5, <1>2 DEF IsWritten
  <2>5. CASE ~(n = npos \/ place + n = m)
    <3>1. PICK u : u = SubSeq(d, place + k + 1, m)
      OBVIOUS
    <3>2. k = IF place + n > m THEN m - place ELSE n
      BY <2>1, <2>5, <1>1 DEF Taken
    <3>3. q = Terminate(Put(r, place, u), l)
      BY <3>1, <3>2, <2>2, <2>5, <1>1, <1>2, <1>4 DEF EraseRep
    <3>4. PICK j \in Nat : j = m - place - k /\ l = place + j
      BY <2>1, <2>2, <1>4
    <3>5. u \in Seq(Byte) /\ Len(u) = j /\ \A i \in 1..j : u[i] = d[place + k + i]
      <4>1. place + k \in Nat /\ m <= Len(d) /\ j = m - (place + k)
        <5>1. place + k \in Nat
          OBVIOUS
        <5>2. m <= Len(d)
          BY <1>1
        <5>3. j = m - (place + k)
          BY <3>4
        <5> QED  BY <5>1, <5>2, <5>3
      <4>2. IsTail(u, Byte, d, place + k, j)
        BY <4>1, <3>1, TailPlaces
      <4> QED  BY <4>2 DEF IsTail
    <3>6. ASSUME NEW i \in 1..Len(w) PROVE w[i] = IF i <= place THEN t[i] ELSE u[i - place]
      <4>1. i \in 1..l
        BY <2>3
      <4>2. CASE i <= place
        BY <4>1, <4>2, <2>3
      <4>3. CASE ~(i <= place)
        <5>1. i - place \in 1..j /\ place + k + (i - place) = i + k /\ i + k \in 1..m
          BY <4>1, <4>3, <3>4, <2>2
        <5>2. u[i - place] = d[i + k]
          BY <5>1, <3>5
        <5> QED  BY <5>1, <5>2, <4>1, <4>3, <2>3, <1>1
      <4> QED  BY <4>2, <4>3
    <3>7. place <= Len(t) /\ place + Len(u) < r.cap /\ q = Terminate(Put(r, place, u), place + Len(u)) /\ Len(w) = place + Len(u)
      <4>1. place + Len(u) = l
        BY <3>4, <3>5
      <4>2. place <= Len(t) /\ l < r.cap
        BY <2>1, <2>2, <1>1, <1>4
      <4> QED  BY <4>1, <4>2, <3>3, <2>3
    <3>8. Carries(q, w) /\ q.id = r.id /\ q.cap = r.cap
      <4>1. IsWritten(Terminate(Put(r, place, u), place + Len(u)), r, w)
        BY <3>5, <3>6, <3>7, <2>3, WriteIs
      <4> QED  BY <4>1, <3>7 DEF IsWritten
    <3> QED  BY <3>8, <1>2 DEF IsWritten
  <2> QED  BY <2>4, <2>5
<1> QED  BY <1>1, <1>3, <1>4

-----------------------------------------------------------------------------
\* The inductive invariant.

\* Every string has no Rep, or one with the text its owner expects; who holds
\* the Rep with one number holds the same.
StringInv ==
    /\ mRep = [x \in Str |-> mRep[x]] /\ expected \in [Str -> Seq(Char)] /\ ~overrun
    /\ \A x \in Str : mRep[x] = NoRep \/ Carries(mRep[x], expected[x])
    /\ \A x, y \in Str : Exists(x) /\ mRep[x].id = mRep[y].id => mRep[x] = mRep[y] /\ expected[x] = expected[y]

LEMMA EmptyText == <<>> \in Seq(Char) /\ Len(<<>>) = 0
  OBVIOUS

LEMMA StringStarts == StringInit => StringInv
<1> SUFFICES ASSUME StringInit PROVE StringInv
  OBVIOUS
<1>1. \A x \in Str : mRep[x] = NoRep /\ expected[x] = <<>>
  BY DEF StringInit
<1>2. mRep = [x \in Str |-> mRep[x]] /\ expected \in [Str -> Seq(Char)] /\ ~overrun
  BY EmptyText DEF StringInit
<1> QED  BY <1>1, <1>2 DEF StringInv, Exists

LEMMA HasNumber ==
    ASSUME NEW r, NEW s, Carries(r, s)
    PROVE  r.id \in Nat \ {0} /\ r # NoRep
<1>1. r.id \in Nat /\ r.id # 0
  BY DEF Carries, IsRep
<1>2. NoRep.id = 0
  BY DEF NoRep
<1> QED  BY <1>1, <1>2

\* x takes or changes a Rep, and everybody who holds it, sees the new text.
LEMMA HoldKeeps ==
    ASSUME StringInv, NEW x \in Str, NEW r, NEW s, Carries(r, s), NEW n, n < r.cap, Hold(x, r, n),
           expected' = [y \in Str |-> IF y = x \/ mRep[y].id = r.id THEN s ELSE expected[y]]
    PROVE  StringInv'
<1>1. PICK d \in Seq(Byte), c \in Nat, l \in Nat :
          /\ d = r.data /\ c = r.cap /\ l = r.len /\ Len(d) = c /\ l < c /\ Len(s) = l /\ s \in Seq(Char) /\ IsRep(r)
          /\ (\A i \in 1..l : d[i] = s[i]) /\ d[l + 1] = NUL
  BY DEF Carries, IsRep
<1>2. PICK e : e = [i \in 1..c |-> IF i > l + 1 THEN Junk ELSE d[i]]
  OBVIOUS
<1>3. DOMAIN d = 1..c /\ \A i \in 1..c : d[i] \in Byte
  BY <1>1, LenProperties, ElementOfSeq
<1>4. e \in Seq(Byte) /\ Len(e) = c
  <2>1. e \in [1..c -> Byte]
    BY <1>2, <1>3 DEF Byte
  <2> QED  BY <2>1
<1>5. PICK q : q = [r EXCEPT !.data = e]
  OBVIOUS
<1>6. IsRep(q) /\ q.id = r.id /\ q.cap = c /\ q.len = l /\ q.data = e
  BY <1>1, <1>4, <1>5 DEF IsRep
<1>7. Carries(q, s)
  <2>1. ASSUME NEW i \in 1..l PROVE e[i] = s[i]
    <3>1. i \in 1..c /\ ~(i > l + 1)
      BY <1>1
    <3> QED  BY <3>1, <1>1, <1>2
  <2>2. e[l + 1] = NUL
    <3>1. l + 1 \in 1..c /\ ~(l + 1 > l + 1)
      BY <1>1
    <3> QED  BY <3>1, <1>1, <1>2
  <2> QED  BY <2>1, <2>2, <1>1, <1>6 DEF Carries
<1>8. /\ mRep' = [y \in Str |-> IF y = x \/ mRep[y].id = r.id THEN q ELSE mRep[y]]
      /\ ~overrun'
  BY <1>1, <1>2, <1>3, <1>5 DEF Hold, Fits, StringInv
<1>9. ASSUME NEW y \in Str
      PROVE  /\ (y = x \/ mRep[y].id = r.id) => mRep'[y] = q /\ expected'[y] = s
             /\ ~(y = x \/ mRep[y].id = r.id) => mRep'[y] = mRep[y] /\ expected'[y] = expected[y]
  BY <1>8
<1>10. mRep' = [y \in Str |-> mRep'[y]] /\ expected' \in [Str -> Seq(Char)]
  <2>1. mRep' = [y \in Str |-> mRep'[y]]
    BY <1>8
  <2>2. \A y \in Str : expected'[y] \in Seq(Char)
    BY <1>1, <1>9 DEF StringInv
  <2> QED  BY <2>1, <2>2
<1>11. ASSUME NEW y \in Str PROVE mRep'[y] = NoRep \/ Carries(mRep'[y], expected'[y])
  BY <1>7, <1>9 DEF StringInv
<1>12. ASSUME NEW y \in Str, NEW z \in Str, mRep'[y] # NoRep, mRep'[y].id = mRep'[z].id
       PROVE  mRep'[y] = mRep'[z] /\ expected'[y] = expected'[z]
  <2>1. CASE (y = x \/ mRep[y].id = r.id) /\ (z = x \/ mRep[z].id = r.id)
    BY <2>1, <1>9
  <2>2. CASE ~(y = x \/ mRep[y].id = r.id) /\ ~(z = x \/ mRep[z].id = r.id)
    BY <2>2, <1>9, <1>12 DEF StringInv, Exists
  <2>3. CASE (y = x \/ mRep[y].id = r.id) /\ ~(z = x \/ mRep[z].id = r.id)
    BY <2>3, <1>6, <1>9, <1>12
  <2>4. CASE ~(y = x \/ mRep[y].id = r.id) /\ (z = x \/ mRep[z].id = r.id)
    BY <2>4, <1>6, <1>9, <1>12
  <2> QED  BY <2>1, <2>2, <2>3, <2>4
<1> QED  BY <1>8, <1>10, <1>11, <1>12 DEF StringInv, Exists

\* The same for a Rep that nobody else holds.
LEMMA AloneKeeps ==
    ASSUME StringInv, NEW x \in Str, NEW r, NEW s, Carries(r, s), Own(x, r.id), NEW n, n < r.cap, Hold(x, r, n),
           Alone(x, s)
    PROVE  StringInv'
<1>1. expected' = [y \in Str |-> IF y = x \/ mRep[y].id = r.id THEN s ELSE expected[y]]
  <2>1. expected' = [y \in Str |-> IF y = x THEN s ELSE expected[y]]
    BY DEF Alone, StringInv
  <2>2. \A y \in Str : (y = x \/ mRep[y].id = r.id) <=> y = x
    BY DEF Own
  <2> QED  BY <2>1, <2>2
<1> QED  BY <1>1, HoldKeeps

LEMMA FreshIsOwn == \A x \in Str : Own(x, FreshId)
  BY FreshIs DEF Own

LEMMA HasText ==
    ASSUME StringInv, NEW x \in Str, Exists(x)
    PROVE  Carries(mRep[x], expected[x]) /\ Length(x) = Len(expected[x]) /\ expected[x] \in Seq(Char)
           /\ Len(expected[x]) \in Nat /\ mRep[x].cap \in Nat /\ Len(expected[x]) < mRep[x].cap
<1>1. Carries(mRep[x], expected[x])
  BY DEF StringInv, Exists
<1> QED  BY <1>1, LenProperties DEF Carries, IsRep, Length

LEMMA TextIs ==
    ASSUME NEW n \in Nat, NEW s \in Text(n)
    PROVE  s \in Seq(Char) /\ Len(s) \in Nat /\ Len(s) <= n
<1>1. PICK k \in 0..n : s \in [1..k -> Char]
  BY Zenon DEF Text
<1>2. s \in Seq(Char) /\ Len(s) = k
  BY <1>1
<1> QED  BY <1>2

LEMMA MakeFromKeeps ==
    ASSUME StringInv, NEW x \in Str, NEW c \in Nat, NEW s \in Seq(Char), NEW n \in Nat, Len(s) < c, n < c,
           Hold(x, NewRep(c, s), n), Alone(x, s)
    PROVE  StringInv'
<1>1. PICK r : r = NewRep(c, s)
  OBVIOUS
<1>2. Carries(r, s) /\ r.id = FreshId /\ r.cap = c
  BY <1>1, NewRepIs
<1>3. Own(x, r.id)
  BY <1>2, FreshIsOwn
<1>4. n < r.cap /\ Hold(x, r, n)
  BY <1>1, <1>2
<1> QED  BY <1>2, <1>3, <1>4, AloneKeeps

LEMMA MakeDefaultKeeps ==
    ASSUME StringInv, NEW x \in Str, MakeDefault(x)
    PROVE  StringInv'
<1>1. DefaultCapacity \in Nat /\ 0 < DefaultCapacity /\ Len(<<>>) < DefaultCapacity
  BY StringAssumption, EmptyText
<1>2. Hold(x, NewRep(DefaultCapacity, <<>>), 0) /\ Alone(x, <<>>)
  BY DEF MakeDefault
<1> QED  BY <1>1, <1>2, EmptyText, MakeFromKeeps

LEMMA MakeTextKeeps ==
    ASSUME StringInv, NEW x \in Str, NEW s \in Text(MaxText), MakeFrom(x, s)
    PROVE  StringInv'
<1>1. PICK m \in Nat : m = Len(s) /\ s \in Seq(Char)
  BY StringAssumption, TextIs
<1>2. Hold(x, NewRep(m + 1, s), m) /\ Alone(x, s)
  BY <1>1 DEF MakeFrom
<1>3. m + 1 \in Nat /\ m < m + 1 /\ Len(s) < m + 1
  BY <1>1
<1> QED  BY <1>1, <1>2, <1>3, MakeFromKeeps

LEMMA DestroyStringKeeps ==
    ASSUME StringInv, NEW x \in Str, DestroyString(x)
    PROVE  StringInv'
<1>1. mRep' = [y \in Str |-> IF y = x THEN NoRep ELSE mRep[y]]
  BY DEF DestroyString, StringInv
<1>2. expected' = [y \in Str |-> IF y = x THEN <<>> ELSE expected[y]]
  BY DEF DestroyString, StringInv
<1>3. overrun' = overrun
  BY DEF DestroyString
<1>4. \A y \in Str : /\ mRep'[y] = IF y = x THEN NoRep ELSE mRep[y]
                     /\ expected'[y] = IF y = x THEN <<>> ELSE expected[y]
  BY <1>1, <1>2
<1>5. mRep' = [y \in Str |-> mRep'[y]]
  BY <1>1
<1>6. expected' \in [Str -> Seq(Char)]
  BY <1>2, EmptyText DEF StringInv
<1>7. \A y \in Str : mRep'[y] = NoRep \/ Carries(mRep'[y], expected'[y])
  BY <1>4 DEF StringInv
<1>8. ASSUME NEW y \in Str, NEW z \in Str, mRep'[y] # NoRep, mRep'[y].id = mRep'[z].id
      PROVE  mRep'[y] = mRep'[z] /\ expected'[y] = expected'[z]
  <2>1. y # x /\ mRep[y] # NoRep /\ mRep'[y] = mRep[y] /\ expected'[y] = expected[y]
    BY <1>4, <1>8
  <2>2. mRep[y].id # 0
    BY <2>1, HasNumber DEF StringInv
  <2>3. NoRep.id = 0
    BY DEF NoRep
  <2>4. z # x
    BY <2>1, <2>2, <2>3, <1>4, <1>8
  <2>5. mRep'[z] = mRep[z] /\ expected'[z] = expected[z]
    BY <2>4, <1>4
  <2> QED  BY <2>1, <2>5, <1>8 DEF StringInv, Exists
<1> QED  BY <1>3, <1>5, <1>6, <1>7, <1>8 DEF StringInv, Exists

LEMMA AssignStringKeeps ==
    ASSUME StringInv, NEW x \in Str, NEW y \in Str, AssignString(x, y)
    PROVE  StringInv'
<1>1. mRep' = [z \in Str |-> IF z = x THEN mRep[y] ELSE mRep[z]]
  BY DEF AssignString, StringInv
<1>2. expected' = [z \in Str |-> IF z = x THEN expected[y] ELSE expected[z]]
  BY DEF AssignString, StringInv
<1>3. overrun' = overrun
  BY DEF AssignString
<1>4. \A z \in Str : \E w \in Str : mRep'[z] = mRep[w] /\ expected'[z] = expected[w]
  BY <1>1, <1>2
<1>5. mRep' = [z \in Str |-> mRep'[z]]
  BY <1>1
<1>6. expected' \in [Str -> Seq(Char)]
  BY <1>2 DEF StringInv
<1>7. \A z \in Str : mRep'[z] = NoRep \/ Carries(mRep'[z], expected'[z])
  BY <1>4, Zenon DEF StringInv
<1>8. ASSUME NEW z \in Str, NEW u \in Str, mRep'[z] # NoRep, mRep'[z].id = mRep'[u].id
      PROVE  mRep'[z] = mRep'[u] /\ expected'[z] = expected'[u]
  <2>1. PICK v \in Str : mRep'[z] = mRep[v] /\ expected'[z] = expected[v]
    BY <1>4
  <2>2. PICK w \in Str : mRep'[u] = mRep[w] /\ expected'[u] = expected[w]
    BY <1>4
  <2> QED  BY <2>1, <2>2, <1>8 DEF StringInv, Exists
<1> QED  BY <1>3, <1>5, <1>6, <1>7, <1>8 DEF StringInv, Exists

LEMMA AssignCharsKeeps ==
    ASSUME StringInv, NEW x \in Str, NEW s \in Text(MaxText), AssignChars(x, s)
    PROVE  StringInv'
<1>1. PICK m \in Nat : m = Len(s) /\ s \in Seq(Char)
  BY StringAssumption, TextIs
<1>2. Exists(x)
  BY DEF AssignChars
<1>3. PICK r : r = mRep[x] /\ Carries(r, expected[x])
  BY <1>2, HasText
<1>4. CASE m >= r.cap
  <2>1. Hold(x, NewRep(m + 1, s), m) /\ Alone(x, s)
    BY <1>1, <1>3, <1>4 DEF AssignChars
  <2>2. m + 1 \in Nat /\ m < m + 1 /\ Len(s) < m + 1
    BY <1>1
  <2> QED  BY <2>1, <2>2, <1>1, MakeFromKeeps
<1>5. CASE ~(m >= r.cap)
  <2>1. PICK c \in Nat, d \in Seq(Byte) : c = r.cap /\ d = r.data /\ Len(d) = c /\ m < c /\ IsRep(r)
    BY <1>3, <1>5 DEF Carries, IsRep
  <2>2. PICK e : e = RepAssign(d, c, s)
    OBVIOUS
  <2>3. /\ e \in Seq(Byte) /\ Len(e) = c
        /\ (\A i \in 1..m : e[i] = s[i]) /\ e[m + 1] = NUL
    BY <2>1, <2>2, <1>1, AssignIs
  <2>4. PICK q : q = [r EXCEPT !.len = m, !.data = e]
    OBVIOUS
  <2>5. IsRep(q) /\ q.id = r.id /\ q.cap = c /\ q.len = m /\ q.data = e
    BY <2>1, <2>3, <2>4 DEF IsRep
  <2>6. Carries(q, s)
    BY <2>1, <2>3, <2>5, <1>1 DEF Carries
  <2>7. Hold(x, q, m) /\ Together(x, r, s)
    BY <2>1, <2>2, <2>4, <1>1, <1>3, <1>5 DEF AssignChars
  <2>8. expected' = [y \in Str |-> IF y = x \/ mRep[y].id = q.id THEN s ELSE expected[y]]
    BY <2>5, <2>7 DEF Together
  <2>9. m < q.cap
    BY <2>1, <2>5
  <2> QED  BY <2>6, <2>7, <2>8, <2>9, HoldKeeps
<1> QED  BY <1>4, <1>5

\* Whoever holds the Rep of x expects the same text: writing in place.
LEMMA InPlaceKeeps ==
    ASSUME StringInv, NEW x \in Str, NEW r, NEW r0, NEW s, Carries(r, s), r.id = r0.id, NEW n, n < r.cap, Hold(x, r, n),
           Together(x, r0, s)
    PROVE  StringInv'
<1>1. expected' = [y \in Str |-> IF y = x \/ mRep[y].id = r.id THEN s ELSE expected[y]]
  BY DEF Together
<1> QED  BY <1>1, HoldKeeps

LEMMA AppendCharsKeeps ==
    ASSUME StringInv, NEW x \in Str, NEW s \in Seq(Char), AppendChars(x, s)
    PROVE  StringInv'
<1>1. PICK l \in Nat, m \in Nat : l = Len(expected[x]) /\ m = Len(s) /\ Length(x) = l
  BY HasText, LenProperties DEF AppendChars
<1>2. PICK e \in Seq(Char) : e = expected[x] /\ Carries(mRep[x], e) /\ Len(e) = l
  BY <1>1, HasText DEF AppendChars
<1>3. PICK n \in Nat, k \in Int : n = l + m /\ k = n + 1
  OBVIOUS
<1>4. PICK r : r = ReserveRep(mRep[x], k)
  OBVIOUS
<1>5. IsReserved(r, mRep[x], e, k)
  BY <1>2, <1>4, ReserveIs
<1>6. Carries(r, e) /\ n < r.cap
  <2>1. r.cap \in Nat
    BY <1>5 DEF IsReserved, Carries, IsRep
  <2> QED  BY <2>1, <1>3, <1>5 DEF IsReserved
<1>7. PICK t \in Seq(Char) : t = e \o s
  <2>1. e \o s \in Seq(Char)
    BY <1>2
  <2> QED  BY <2>1
<1>8. Len(t) = n /\ (\A i \in 1..l : t[i] = e[i]) /\ \A i \in 1..m : t[l + i] = s[i]
  <2>1. IsJoined(t, Char, e, l, s, m)
    BY <1>1, <1>2, <1>7, JoinPlaces
  <2> QED  BY <2>1, <1>3 DEF IsJoined
<1>9. ASSUME NEW i \in 1..n PROVE t[i] = IF i <= l THEN e[i] ELSE s[i - l]
  <2>1. CASE i <= l
    BY <2>1, <1>8
  <2>2. CASE ~(i <= l)
    <3>1. i - l \in 1..m /\ l + (i - l) = i
      BY <2>2, <1>3
    <3> QED  BY <3>1, <2>2, <1>8
  <2> QED  BY <2>1, <2>2
<1>10. PICK q : q = Terminate(Put(r, l, s), n)
  OBVIOUS
<1>11. IsWritten(q, r, t)
  <2>1. s \in Seq(Byte)
    BY CharsAreBytes
  <2>2. l <= Len(e) /\ l + Len(s) < r.cap /\ Len(t) = l + Len(s) /\ q = Terminate(Put(r, l, s), l + Len(s))
    BY <1>1, <1>2, <1>3, <1>6, <1>8, <1>10
  <2>3. \A i \in 1..Len(t) : t[i] = IF i <= l THEN e[i] ELSE s[i - l]
    BY <1>8, <1>9
  <2> QED  BY <2>1, <2>2, <2>3, <1>6, WriteIs
<1>12. Hold(x, q, n) /\ Together(x, r, t)
  BY <1>1, <1>2, <1>3, <1>4, <1>7, <1>10 DEF AppendChars
<1> QED  BY <1>6, <1>11, <1>12, InPlaceKeeps DEF IsWritten

\* z is r, its length aside.
SameBytes(z, r) ==
    IsRep(z) /\ z.id = r.id /\ z.cap = r.cap /\ \A i \in 1..r.cap : z.data[i] = r.data[i]

\* Nothing is written for an empty list.
LEMMA PutNothing ==
    ASSUME NEW r, IsRep(r), NEW place \in Nat, NEW s, Len(s) = 0, s \in Seq(Byte)
    PROVE  SameBytes(Put(r, place, s), r)
<1>1. IsPut(Put(r, place, s), r, place, s)
  BY PutIs
<1>2. ASSUME NEW i \in 1..r.cap PROVE ~(place < i /\ i <= place + Len(s))
  OBVIOUS
<1>3. r.cap \in Nat
  BY DEF IsRep
<1> QED  BY <1>1, <1>2 DEF IsPut, SameBytes

LEMMA ResizeStringKeeps ==
    ASSUME StringInv, NEW x \in Str, NEW n \in Nat, NEW c \in Char, ResizeString(x, n, c)
    PROVE  StringInv'
<1>1. PICK l \in Nat : l = Len(expected[x]) /\ Length(x) = l
  BY HasText DEF ResizeString
<1>2. PICK e \in Seq(Char) : e = expected[x] /\ Carries(mRep[x], e) /\ Len(e) = l
  BY <1>1, HasText DEF ResizeString
<1>3. PICK k \in Int : k = n + 1
  OBVIOUS
<1>4. PICK r : r = ReserveRep(mRep[x], k)
  OBVIOUS
<1>5. IsReserved(r, mRep[x], e, k)
  BY <1>2, <1>4, ReserveIs
<1>6. Carries(r, e) /\ n < r.cap
  <2>1. r.cap \in Nat
    BY <1>5 DEF IsReserved, Carries, IsRep
  <2> QED  BY <2>1, <1>3, <1>5 DEF IsReserved
<1>7. PICK a : a = [i \in 1..n - l |-> c]
  OBVIOUS
<1>8. PICK q : q = Terminate(Put(r, l, a), n)
  OBVIOUS
<1>9. PICK t : t = IF n <= l THEN SubSeq(e, 1, n) ELSE e \o a
  OBVIOUS
<1>10. Hold(x, q, n) /\ Together(x, r, t)
  BY <1>1, <1>2, <1>3, <1>4, <1>7, <1>8, <1>9 DEF ResizeString
<1>11. IsWritten(q, r, t)
  <2>1. CASE n <= l
    <3>1. a \in Seq(Byte) /\ Len(a) = 0
      <4>1. 1..(n - l) = 1..0 /\ 0 \in Nat
        BY <2>1
      <4>2. a = [i \in 1..0 |-> a[i]]
        BY <4>1, <1>7
      <4> QED  BY <4>1, <4>2, ListBy
    <3>2. PICK z : z = Put(r, l, a)
      OBVIOUS
    <3>3. IsRep(r)
      BY <1>6 DEF Carries
    <3>4. IsRep(z) /\ z.id = r.id /\ z.cap = r.cap /\ \A i \in 1..r.cap : z.data[i] = r.data[i]
      <4>1. SameBytes(z, r)
        BY <3>1, <3>2, <3>3, PutNothing
      <4> QED  BY <4>1 DEF SameBytes
    <3>5. t \in Seq(Char) /\ Len(t) = n /\ \A i \in 1..n : t[i] = e[i]
      <4>1. 1 \in Nat \ {0} /\ n <= Len(e) /\ 1 <= n + 1 /\ t = SubSeq(e, 1, n)
        BY <2>1, <1>2, <1>9
      <4>2. t \in Seq(Char) /\ Len(t) = n - 1 + 1 /\ \A i \in 1..(n - 1 + 1) : t[i] = e[1 + i - 1]
        BY <4>1, PartPlaces
      <4> QED  BY <4>2
    <3>6. n <= Len(e) /\ q = Terminate(z, n)
      BY <2>1, <3>2, <1>2, <1>8
    <3> QED  BY <3>4, <3>5, <3>6, <1>6, CutIs
  <2>2. CASE ~(n <= l)
    <3>1. PICK m \in Nat : m = n - l /\ l + m = n
      BY <2>2
    <3>2. a \in Seq(Char) /\ Len(a) = m /\ \A i \in 1..m : a[i] = c
      <4>1. a = [i \in 1..m |-> a[i]] /\ \A i \in 1..m : a[i] \in Char /\ a[i] = c
        BY <3>1, <1>7
      <4>2. a \in Seq(Char) /\ Len(a) = m
        BY <4>1, ListBy
      <4> QED  BY <4>1, <4>2
    <3>3. t = e \o a
      BY <2>2, <1>9
    <3>5. IsJoined(t, Char, e, l, a, m)
      BY <3>2, <3>3, <1>2, JoinPlaces
    <3>4. t \in Seq(Char) /\ Len(t) = n /\ (\A i \in 1..l : t[i] = e[i]) /\ \A i \in 1..m : t[l + i] = a[i]
      BY <3>1, <3>5 DEF IsJoined
    <3>7. ASSUME NEW i \in 1..Len(t) PROVE t[i] = IF i <= l THEN e[i] ELSE a[i - l]
      <4>0. i \in 1..n
        BY <3>4
      <4>1. CASE i <= l
        BY <4>0, <4>1, <3>4
      <4>2. CASE ~(i <= l)
        <5>1. i - l \in 1..m /\ l + (i - l) = i
          BY <4>0, <4>2, <3>1
        <5> QED  BY <5>1, <4>2, <3>4
      <4> QED  BY <4>1, <4>2
    <3>8. a \in Seq(Byte)
      BY <3>2, CharsAreBytes
    <3>9. l <= Len(e) /\ l + Len(a) < r.cap /\ Len(t) = l + Len(a) /\ q = Terminate(Put(r, l, a), l + Len(a))
      BY <3>1, <3>2, <3>4, <1>2, <1>6, <1>8
    <3> QED  BY <3>4, <3>7, <3>8, <3>9, <1>6, WriteIs
  <2> QED  BY <2>1, <2>2
<1> QED  BY <1>6, <1>10, <1>11, InPlaceKeeps DEF IsWritten

LEMMA ReserveStringKeeps ==
    ASSUME StringInv, NEW x \in Str, NEW n \in Nat, ReserveString(x, n)
    PROVE  StringInv'
<1>1. PICK e : e = expected[x] /\ Carries(mRep[x], e) /\ Length(x) = Len(e) /\ Len(e) \in Nat
  BY HasText DEF ReserveString
<1>2. PICK r : r = ReserveRep(mRep[x], n)
  OBVIOUS
<1>3. IsReserved(r, mRep[x], e, n)
  <2>1. n \in Int
    OBVIOUS
  <2> QED  BY <2>1, <1>1, <1>2, ReserveIs
<1>4. Carries(r, e) /\ r.id = FreshId
  BY <1>3 DEF IsReserved, ReserveString
<1>5. Own(x, r.id)
  BY <1>4, FreshIsOwn
<1>6. Length(x) < r.cap
  BY <1>1, <1>4 DEF Carries
<1>7. Hold(x, r, Length(x)) /\ Alone(x, e)
  BY <1>1, <1>2 DEF ReserveString, Alone, StringInv
<1> QED  BY <1>4, <1>5, <1>6, <1>7, AloneKeeps

LEMMA SetCharKeeps ==
    ASSUME StringInv, NEW x \in Str, NEW i \in Nat, NEW c \in Char, SetChar(x, i, c)
    PROVE  StringInv'
<1>1. PICK e \in Seq(Char), l \in Nat : e = expected[x] /\ Carries(mRep[x], e) /\ l = Len(e) /\ Length(x) = l /\ i < l
  BY HasText DEF SetChar
<1>2. PICK r : r = mRep[x]
  OBVIOUS
<1>3. IsRep(r) /\ r.len = l /\ l < r.cap /\ r.cap \in Nat /\ (\A k \in 1..l : r.data[k] = e[k]) /\ r.data[l + 1] = NUL
  BY <1>1, <1>2 DEF Carries, IsRep
<1>4. PICK one \in Seq(Byte) : one = <<c>> /\ Len(one) = 1 /\ one[1] = c
  <2>1. c \in Byte
    BY DEF Byte
  <2>2. <<c>> \in Seq(Byte)
    BY <2>1
  <2>3. Len(<<c>>) = 1 /\ <<c>>[1] = c
    OBVIOUS
  <2> QED  BY <2>2, <2>3, Zenon
<1>5. PICK q : q = Put(r, i, one)
  OBVIOUS
<1>6. IsPut(q, r, i, one)
  BY <1>3, <1>5, PutIs
<1>7. IsRep(q) /\ q.id = r.id /\ q.cap = r.cap /\ q.len = l
  BY <1>3, <1>6 DEF IsPut
<1>8. \A k \in 1..r.cap : q.data[k] = IF k = i + 1 THEN c ELSE r.data[k]
  <2>1. ASSUME NEW k \in 1..r.cap PROVE q.data[k] = IF k = i + 1 THEN c ELSE r.data[k]
    <3>1. q.data[k] = IF i < k /\ k <= i + 1 THEN one[k - i] ELSE r.data[k]
      BY <1>4, <1>6 DEF IsPut
    <3>2. CASE k = i + 1
      <4>1. i < k /\ k <= i + 1 /\ k - i = 1
        BY <3>2
      <4> QED  BY <4>1, <3>1, <3>2, <1>4
    <3>3. CASE k # i + 1
      <4>1. ~(i < k /\ k <= i + 1)
        BY <3>3, <1>3
      <4> QED  BY <4>1, <3>1, <3>3
    <3> QED  BY <3>2, <3>3
  <2> QED  BY <2>1
<1>9. PICK t : t = [e EXCEPT ![i + 1] = c]
  OBVIOUS
<1>10. t \in Seq(Char) /\ Len(t) = l /\ \A k \in 1..l : t[k] = IF k = i + 1 THEN c ELSE e[k]
  <2>1. DOMAIN e = 1..l /\ \A k \in 1..l : e[k] \in Char
    BY <1>1, LenProperties, ElementOfSeq
  <2>2. \A k \in 1..l : t[k] = IF k = i + 1 THEN c ELSE e[k]
    BY <2>1, <1>9
  <2>3. \A k \in 1..l : t[k] \in Char
    BY <2>1, <2>2
  <2>4. t = [k \in 1..l |-> t[k]]
    BY <2>1, <1>9
  <2> QED  BY <2>2, <2>3, <2>4, ListBy
<1>11. Carries(q, t)
  <2>1. ASSUME NEW k \in 1..l PROVE q.data[k] = t[k]
    <3>1. k \in 1..r.cap
      BY <1>3
    <3> QED  BY <3>1, <1>3, <1>8, <1>10
  <2>2. q.data[l + 1] = NUL
    <3>1. l + 1 \in 1..r.cap /\ l + 1 # i + 1
      BY <1>1, <1>3
    <3> QED  BY <3>1, <1>3, <1>8
  <2> QED  BY <2>1, <2>2, <1>3, <1>7, <1>10 DEF Carries
<1>12. Hold(x, q, l) /\ Together(x, r, t) /\ l < q.cap
  BY <1>1, <1>2, <1>3, <1>4, <1>5, <1>7, <1>9 DEF SetChar
<1> QED  BY <1>7, <1>11, <1>12, InPlaceKeeps

LEMMA InsertCharsKeeps ==
    ASSUME StringInv, NEW x \in Str, NEW place \in Nat, NEW s \in Seq(Char), InsertChars(x, place, s)
    PROVE  StringInv'
<1>1. PICK e \in Seq(Char), l \in Nat :
          e = expected[x] /\ Carries(mRep[x], e) /\ l = Len(e) /\ Length(x) = l /\ place < l
  BY HasText DEF InsertChars
<1>2. PICK r : r = CopyOnWrite(x)
  OBVIOUS
<1>3. Carries(r, e) /\ Own(x, r.id)
  BY <1>1, <1>2, CopyIs
<1>4. PICK q : q = InsertRep(r, place, s)
  OBVIOUS
<1>5. PICK t : t = Spliced(e, place, 0, s)
  OBVIOUS
<1>6. Carries(q, t) /\ (q.id = r.id \/ q.id = FreshId) /\ l + Len(s) < q.cap
  <2>1. place <= Len(e) /\ Carries(r, e)
    BY <1>1, <1>3
  <2>2. Carries(q, t)
    BY <2>1, <1>4, <1>5, InsertIs
  <2>3. q.id = r.id \/ q.id = FreshId
    BY <2>1, <1>4, InsertIs
  <2>4. l + Len(s) < q.cap
    BY <2>1, <1>1, <1>4, InsertIs
  <2> QED  BY <2>2, <2>3, <2>4
<1>7. Own(x, q.id)
  BY <1>3, <1>6, FreshIsOwn
<1>8. Hold(x, q, l + Len(s)) /\ Alone(x, t)
  <2>1. Hold(x, q, l + Len(s))
    BY <1>1, <1>2, <1>4, Zenon DEF InsertChars
  <2>2. Alone(x, SubSeq(e, 1, place) \o s \o SubSeq(e, place + 1, l))
    BY <1>1, Zenon DEF InsertChars
  <2>3. t = SubSeq(e, 1, place) \o s \o SubSeq(e, place + 1, l)
    <3>1. place + 0 + 1 = place + 1
      OBVIOUS
    <3> QED  BY <3>1, <1>1, <1>5, Zenon DEF Spliced
  <2> QED  BY <2>1, <2>2, <2>3
<1> QED  BY <1>6, <1>7, <1>8, AloneKeeps

LEMMA EraseCharsKeeps ==
    ASSUME StringInv, NEW x \in Str, NEW place \in Nat, NEW n \in Nat \cup {npos}, EraseChars(x, place, n)
    PROVE  StringInv'
<1>1. PICK e \in Seq(Char) : e = expected[x] /\ Carries(mRep[x], e)
  BY HasText DEF EraseChars
<1>2. PICK r : r = CopyOnWrite(x)
  OBVIOUS
<1>3. Carries(r, e) /\ Own(x, r.id)
  BY <1>1, <1>2, CopyIs
<1>4. PICK q, t : q = EraseRep(r, place, n) /\ t = Erased(e, place, n)
  OBVIOUS
<1>5. IsWritten(q, r, t)
  BY <1>3, <1>4, EraseIs
<1>6. Carries(q, t) /\ q.id = r.id
  BY <1>5 DEF IsWritten
<1>7. 0 < q.cap
  <2>1. t \in Seq(Char) /\ q.len = Len(t) /\ q.len < q.cap /\ q.cap \in Nat
    BY <1>6 DEF Carries, IsRep
  <2>2. Len(t) \in Nat
    BY <2>1, LenProperties
  <2> QED  BY <2>1, <2>2
<1>8. Hold(x, q, 0) /\ Alone(x, t)
  BY <1>1, <1>2, <1>4, Zenon DEF EraseChars
<1>9. Own(x, q.id)
  BY <1>3, <1>6
<1> QED  BY <1>6, <1>7, <1>8, <1>9, AloneKeeps

\* Erasing n characters and inserting s at the same place replaces them.
LEMMA ReplacedIs ==
    ASSUME NEW e \in Seq(Char), NEW place \in Nat, NEW k \in Nat, place < Len(e), place + k <= Len(e), NEW s \in Seq(Char)
    PROVE  /\ Spliced(Erased(e, place, k), place, 0, s) = Spliced(e, place, k, s)
           /\ Erased(e, place, k) \in Seq(Char) /\ Len(Erased(e, place, k)) = Len(e) - k
           /\ Spliced(e, place, k, s) \in Seq(Char) /\ Len(Spliced(e, place, k, s)) = Len(e) - k + Len(s)
<1>1. PICK l \in Nat, m \in Nat : l = Len(e) /\ m = Len(s)
  BY LenProperties
<1>2. PICK w, v, t : w = Erased(e, place, k) /\ v = Spliced(w, place, 0, s) /\ t = Spliced(e, place, k, s)
  OBVIOUS
<1>3. IsErased(w, e, place, k)
  <2>1. k \in Nat \cup {npos} /\ Taken(e, place, k) = k
    BY <1>1 DEF Taken, npos
  <2>2. IsErased(w, e, place, Taken(e, place, k))
    BY <2>1, <1>2, ErasedIs
  <2> QED  BY <2>1, <2>2
<1>4. PICK j \in Nat : j = l - k /\ place <= j
  <2>1. place + k <= l
    BY <1>1
  <2>2. l - k \in Nat /\ place <= l - k
    BY <2>1
  <2> QED  BY <2>2
<1>5. w \in Seq(Char) /\ Len(w) = j /\ \A i \in 1..j : w[i] = IF i <= place THEN e[i] ELSE e[i + k]
  BY <1>1, <1>3, <1>4 DEF IsErased
<1>6. IsSpliced(t, Char, e, place, k, s)
  BY <1>2, SplicePlaces
<1>7. IsSpliced(v, Char, w, place, 0, s)
  <2>1. 0 \in Nat /\ place + 0 <= Len(w)
    BY <1>4, <1>5
  <2> QED  BY <2>1, <1>2, <1>5, SplicePlaces
<1>8. /\ t \in Seq(Char) /\ Len(t) = j + m
      /\ \A i \in 1..(j + m) : t[i] = IF i <= place THEN e[i] ELSE IF i <= place + m THEN s[i - place] ELSE e[i - m + k]
  BY <1>1, <1>4, <1>6 DEF IsSpliced
<1>9. /\ v \in Seq(Char) /\ Len(v) = j + m
      /\ \A i \in 1..(j + m) : v[i] = IF i <= place THEN w[i] ELSE IF i <= place + m THEN s[i - place] ELSE w[i - m]
  <2>1. Len(w) - 0 + Len(s) = j + m
    BY <1>1, <1>5
  <2>2. ASSUME NEW i \in 1..(j + m)
        PROVE  v[i] = IF i <= place THEN w[i] ELSE IF i <= place + m THEN s[i - place] ELSE w[i - m]
    <3>1. i - Len(s) + 0 = i - m /\ place + Len(s) = place + m /\ i \in 1..(Len(w) - 0 + Len(s))
      BY <2>1, <1>1
    <3> QED  BY <3>1, <1>7 DEF IsSpliced
  <2> QED  BY <2>1, <2>2, <1>7 DEF IsSpliced
<1>10. ASSUME NEW i \in 1..(j + m) PROVE v[i] = t[i]
  <2>1. CASE i <= place
    <3>1. i \in 1..j
      BY <2>1, <1>4
    <3> QED  BY <3>1, <2>1, <1>5, <1>8, <1>9
  <2>2. CASE ~(i <= place) /\ i <= place + m
    BY <2>2, <1>8, <1>9
  <2>3. CASE ~(i <= place + m)
    <3>1. i - m \in 1..j /\ ~(i - m <= place) /\ ~(i <= place)
      BY <2>3, <1>4
    <3>2. w[i - m] = e[i - m + k]
      BY <3>1, <1>5
    <3> QED  BY <3>1, <3>2, <2>3, <1>8, <1>9
  <2> QED  BY <2>1, <2>2, <2>3
<1>11. v = t
  BY <1>8, <1>9, <1>10, ListsEqual
<1>12. Len(e) - k = j /\ Len(e) - k + Len(s) = j + m
  BY <1>1, <1>4
<1> QED  BY <1>2, <1>5, <1>8, <1>11, <1>12

\* Replacing at the end of the text is appending there.
LEMMA SplicedAtEnd ==
    ASSUME NEW w \in Seq(Char), NEW s \in Seq(Char), NEW n \in Nat, n = Len(w)
    PROVE  \A i \in 1..(n + Len(s)) : Spliced(w, n, 0, s)[i] = IF i <= n THEN w[i] ELSE s[i - n]
<1>0. PICK t : t = Spliced(w, n, 0, s)
  OBVIOUS
<1>1. PICK m \in Nat : m = Len(s)
  BY LenProperties
<1>2. IsSpliced(t, Char, w, n, 0, s)
  <2>1. 0 \in Nat /\ n + 0 <= Len(w)
    BY <1>1
  <2> QED  BY <2>1, <1>0, SplicePlaces
<1>4. ASSUME NEW i \in 1..(n + m) PROVE t[i] = IF i <= n THEN w[i] ELSE s[i - n]
  <2>1. i \in 1..(Len(w) - 0 + Len(s)) /\ i <= n + Len(s)
    BY <1>1
  <2> QED  BY <2>1, <1>2 DEF IsSpliced
<1> QED  BY <1>0, <1>1, <1>4

LEMMA ReplaceCharsKeeps ==
    ASSUME StringInv, NEW x \in Str, NEW place \in Nat, NEW k \in Nat, NEW s \in Seq(Char), ReplaceChars(x, place, k, s)
    PROVE  StringInv'
<1>1. PICK e \in Seq(Char), l \in Nat, m \in Nat :
          /\ e = expected[x] /\ Carries(mRep[x], e) /\ l = Len(e) /\ Length(x) = l /\ m = Len(s)
          /\ place < l /\ place + k <= l
  BY HasText, LenProperties DEF ReplaceChars
<1>2. PICK n \in Int : n = l - k + m
  OBVIOUS
<1>3. PICK r0, r1 : r0 = CopyOnWrite(x) /\ r1 = ReserveRep(r0, n)
  OBVIOUS
<1>4. Carries(r0, e) /\ Own(x, r0.id)
  BY <1>1, <1>3, CopyIs
<1>5. IsReserved(r1, r0, e, n)
  BY <1>3, <1>4, ReserveIs
<1>6. Carries(r1, e) /\ (r1.id = r0.id \/ r1.id = FreshId)
  BY <1>5 DEF IsReserved
<1>7. PICK r, w : r = EraseRep(r1, place, k) /\ w = Erased(e, place, k)
  OBVIOUS
<1>8. Carries(r, w) /\ r.id = r1.id
  <2>1. k \in Nat \cup {npos}
    OBVIOUS
  <2>2. IsWritten(r, r1, w)
    BY <2>1, <1>6, <1>7, EraseIs
  <2> QED  BY <2>2 DEF IsWritten
<1>9. PICK t : t = Spliced(e, place, k, s)
  OBVIOUS
<1>10. /\ t = Spliced(w, place, 0, s) /\ t \in Seq(Char) /\ Len(t) = l - k + m
       /\ w \in Seq(Char) /\ Len(w) = l - k
  <2>1. place < Len(e) /\ place + k <= Len(e)
    BY <1>1
  <2>2. t = Spliced(w, place, 0, s)
    BY <2>1, <1>7, <1>9, ReplacedIs
  <2>3. t \in Seq(Char)
    BY <2>1, <1>9, ReplacedIs
  <2>4. Len(t) = l - k + m
    <3>1. Len(Spliced(e, place, k, s)) = Len(e) - k + Len(s)
      BY <2>1, ReplacedIs
    <3> QED  BY <3>1, <1>1, <1>9, Zenon
  <2>5. w \in Seq(Char)
    BY <2>1, <1>7, ReplacedIs
  <2>6. Len(w) = l - k
    <3>1. Len(Erased(e, place, k)) = Len(e) - k
      BY <2>1, ReplacedIs
    <3> QED  BY <3>1, <1>1, <1>7, Zenon
  <2> QED  BY <2>2, <2>3, <2>4, <2>5, <2>6
<1>11. PICK j \in Nat : j = l - k /\ n = j + m /\ place <= j /\ Len(w) = j /\ r.len = j
  <2>1. l - k \in Nat /\ place <= l - k
    BY <1>1
  <2>2. r.len = l - k
    BY <1>8, <1>10 DEF Carries
  <2> QED  BY <2>1, <2>2, <1>2, <1>10
<1>12. PICK r2, q : r2 = ReserveRep(r, n + 1) /\ q = IF place >= j THEN Terminate(Put(r2, j, s), n) ELSE InsertRep(r, place, s)
  OBVIOUS
<1>13. Hold(x, q, n)
  <2>1. LET r8 == EraseRep(ReserveRep(CopyOnWrite(x), n), place, k)
            r9 == ReserveRep(r8, n + 1)
        IN  Hold(x, IF place >= r8.len THEN Terminate(Put(r9, r8.len, s), n) ELSE InsertRep(r8, place, s), n)
    BY <1>1, <1>2 DEF ReplaceChars
  <2>2. Hold(x, IF place >= r.len THEN Terminate(Put(r2, r.len, s), n) ELSE InsertRep(r, place, s), n)
    BY <2>1, <1>3, <1>7, <1>12, Zenon
  <2> QED  BY <2>2, <1>11, <1>12
<1>14. Alone(x, t)
  <2>1. Alone(x, SubSeq(e, 1, place) \o s \o SubSeq(e, place + k + 1, l))
    BY <1>1, Zenon DEF ReplaceChars
  <2> QED  BY <2>1, <1>1, <1>9, Zenon DEF Spliced
<1>15. Carries(q, t) /\ (q.id = r.id \/ q.id = FreshId) /\ n < q.cap
  <2>1. CASE place >= j
    <3>1. place = j /\ q = Terminate(Put(r2, j, s), n)
      BY <2>1, <1>11, <1>12
    <3>2. PICK i \in Int : i = n + 1
      OBVIOUS
    <3>3. IsReserved(r2, r, w, i)
      BY <3>2, <1>8, <1>12, ReserveIs
    <3>4. Carries(r2, w) /\ n < r2.cap /\ (r2.id = r.id \/ r2.id = FreshId)
      <4>1. Carries(r2, w) /\ i <= r2.cap /\ (r2.id = r.id \/ r2.id = FreshId)
        BY <3>3 DEF IsReserved
      <4>2. r2.cap \in Nat
        BY <4>1 DEF Carries, IsRep
      <4> QED  BY <4>1, <4>2, <3>2
    <3>5. t = Spliced(w, j, 0, s) /\ w \in Seq(Char) /\ j = Len(w) /\ Len(t) = j + Len(s)
      BY <3>1, <1>1, <1>10, <1>11
    <3>6. \A u \in 1..Len(t) : t[u] = IF u <= j THEN w[u] ELSE s[u - j]
      <4>1. \A u \in 1..(j + Len(s)) : Spliced(w, j, 0, s)[u] = IF u <= j THEN w[u] ELSE s[u - j]
        BY <3>5, SplicedAtEnd
      <4> QED  BY <4>1, <3>5
    <3>7. s \in Seq(Byte)
      BY CharsAreBytes
    <3>8. j <= Len(w) /\ j + Len(s) < r2.cap /\ Len(t) = j + Len(s) /\ q = Terminate(Put(r2, j, s), j + Len(s))
      BY <3>1, <3>4, <1>1, <1>10, <1>11
    <3>9. IsWritten(q, r2, t)
      BY <3>4, <3>6, <3>7, <3>8, <1>10, WriteIs
    <3> QED  BY <3>4, <3>9 DEF IsWritten
  <2>2. CASE ~(place >= j)
    <3>1. q = InsertRep(r, place, s)
      BY <2>2, <1>12
    <3>2. place <= Len(w)
      BY <1>11
    <3>3. Carries(q, t)
      BY <3>1, <3>2, <1>8, <1>10, InsertIs
    <3>4. q.id = r.id \/ q.id = FreshId
      BY <3>1, <3>2, <1>8, InsertIs
    <3>5. Len(w) + Len(s) < q.cap
      BY <3>1, <3>2, <1>8, InsertIs
    <3>6. n < q.cap
      BY <3>5, <1>1, <1>11
    <3> QED  BY <3>3, <3>4, <3>6
  <2> QED  BY <2>1, <2>2
<1>16. Own(x, q.id)
  BY <1>4, <1>6, <1>8, <1>15, FreshIsOwn
<1> QED  BY <1>13, <1>14, <1>15, <1>16, AloneKeeps

-----------------------------------------------------------------------------
\* Together.

LEMMA StringKeeps == StringInv /\ [StringNext]_strVars => StringInv'
<1> SUFFICES ASSUME StringInv, [StringNext]_strVars PROVE StringInv'
  OBVIOUS
<1>1. CASE UNCHANGED strVars
  BY <1>1 DEF strVars, StringInv, Exists
<1>2. ASSUME NEW x \in Str,
             \/ MakeDefault(x) \/ DestroyString(x)
             \/ \E s \in Text(MaxText) : MakeFrom(x, s) \/ AssignChars(x, s)
             \/ \E y \in Str : AssignString(x, y)
      PROVE  StringInv'
  BY <1>2, MakeDefaultKeeps, DestroyStringKeeps, MakeTextKeeps, AssignCharsKeeps, AssignStringKeeps
<1>3. ASSUME NEW x \in Str, NEW n \in 0..MaxText, (\E c \in Char : ResizeString(x, n, c)) \/ ReserveString(x, 2 * n)
      PROVE  StringInv'
  <2>1. n \in Nat /\ 2 * n \in Nat
    BY StringAssumption
  <2> QED  BY <2>1, <1>3, ResizeStringKeeps, ReserveStringKeeps
<1>4. ASSUME NEW s \in Text(1) PROVE s \in Seq(Char)
  BY TextIs
<1>5. ASSUME NEW x \in Str, NEW s \in Text(1), AppendChars(x, s) PROVE StringInv'
  BY <1>4, <1>5, AppendCharsKeeps
<1>6. ASSUME NEW x \in Str, NEW place \in 0..MaxText, NEW c \in Char, SetChar(x, place, c) PROVE StringInv'
  BY <1>6, StringAssumption, SetCharKeeps
<1>7. ASSUME NEW x \in Str, NEW place \in 0..MaxText, NEW n \in {npos} \cup 1..MaxText, EraseChars(x, place, n)
      PROVE  StringInv'
  <2>1. place \in Nat /\ n \in Nat \cup {npos}
    BY StringAssumption
  <2> QED  BY <2>1, <1>7, EraseCharsKeeps
<1>8. ASSUME NEW x \in Str, NEW place \in 0..MaxText, NEW s \in Text(1), InsertChars(x, place, s) PROVE StringInv'
  <2>1. place \in Nat
    BY StringAssumption
  <2> QED  BY <2>1, <1>4, <1>8, InsertCharsKeeps
<1>9. ASSUME NEW x \in Str, NEW place \in 0..MaxText, NEW s \in Text(1), NEW n \in 0..1, ReplaceChars(x, place, n, s)
      PROVE  StringInv'
  <2>1. place \in Nat /\ n \in Nat
    BY StringAssumption
  <2> QED  BY <2>1, <1>4, <1>9, ReplaceCharsKeeps
<1> QED  BY <1>1, <1>2, <1>3, <1>5, <1>6, <1>7, <1>8, <1>9, Zenon DEF StringNext

LEMMA StringInvSays == StringInv => StringsAgree
<1> SUFFICES ASSUME StringInv PROVE StringsAgree
  OBVIOUS
<1>1. ASSUME NEW x \in Str, Exists(x)
      PROVE  /\ ValueOf(mRep[x]) = expected[x]
             /\ Length(x) < mRep[x].cap /\ mRep[x].data[Length(x) + 1] = NUL
  <2>1. Carries(mRep[x], expected[x])
    BY <1>1, HasText
  <2> QED  BY <2>1, ValueIs DEF Carries, Length
<1> QED  BY <1>1 DEF StringsAgree, StringInv

\* In every execution of the operations on strings that share and copy their
\* buffers, each has the text its owner's calls give it, terminated in a
\* buffer it fits in.
THEOREM StringsAlwaysAgree == StringSpec => []StringsAgree
<1>1. StringSpec => []StringInv
  BY StringStarts, StringKeeps, PTL DEF StringSpec
<1> QED  BY <1>1, StringInvSays, PTL
=============================================================================
