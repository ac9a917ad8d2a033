----------------------------- MODULE EventAgents ----------------------------
(***************************************************************************)
(* The agents of src/include/EventAgent.h and EventAgentT.h: counted       *)
(* events that carry a receiver, a method and its parameters to the thread *)
(* of a dispatcher.  The templates come in four families, each with        *)
(* classes for 0 to 10 parameters that differ only in their number:        *)
(*   "async"  parameters are copied when the agent is made;                *)
(*   "cast"   the stored type differs, here a SmartPtr to a payload;       *)
(*   "sync"   parameters may be references to the sender's variables;      *)
(*   "ret"    the method's return value comes back to the sender.          *)
(* One dispatcher, threads that send to it, and its own thread, which also *)
(* sends synchronous agents to itself from inside a method.                *)
(***************************************************************************)
EXTENDS ListErase, Integers, Sequences, FiniteSets, SequencesExt

CONSTANTS
    Sender,         \* threads that send
    Receiver,       \* objects whose methods are called
    Agent,          \* storage for agents
    Arity,          \* numbers of parameters
    MaxCalls        \* bound on the agents made

VARIABLES
    agents,     \* per storage: the agent in it
    refs,       \* per storage: mRefCount; -1 for free storage
    mine,       \* per sender: a variable of the sender that parameters read
    pc, hand,   \* per sender: where it is, and the agent it works on
    answer,     \* per sender: what its last "ret" call returned
    sends,      \* the dispatcher's queue: [a, by], by is None unless synchronous
    active,     \* what the dispatcher's thread delivers: a queue entry or Idle
    calls,      \* number of agents made
    payload,    \* references to each "cast" agent's payload
    retired,    \* receivers for which removeAgentsByReceiver has returned
    wrong       \* a freed object was used or a call got other parameters

agentVars == <<agents, refs, mine, pc, hand, answer, sends, active, calls, payload, retired, wrong>>

None == "none"
Idle == "idle"
Free_ == -1

ASSUME AgentsAssumption ==
    /\ Arity \subseteq 0..10 /\ MaxCalls \in Nat
    /\ None \notin Agent /\ None \notin Sender

\* A call of a method: the receiver, the parameters, and the number of the call
\* that made the agent.
NoAgent == [family |-> None, to |-> None, params |-> <<>>, serial |-> 0, ret |-> 0]

AgentInit ==
    /\ agents = [a \in Agent |-> NoAgent] /\ refs = [a \in Agent |-> Free_]
    /\ mine = [s \in Sender |-> 0]
    /\ pc = [s \in Sender |-> Idle] /\ hand = [s \in Sender |-> None]
    /\ answer = [s \in Sender |-> <<0, 0>>]
    /\ sends = <<>> /\ active = [a |-> None, by |-> None]
    /\ calls = 0 /\ payload = [a \in Agent |-> 0]
    /\ retired = {} /\ wrong = FALSE
-----------------------------------------------------------------------------
\* Construction: what each family stores.  A value parameter is a copy, a
\* reference parameter names the sender's variable.

Copies(s, n) == [i \in 1..n |-> [val |-> <<mine[s], i>>]]
References(s, n) == [i \in 1..n |-> [ref |-> s, place |-> i]]

AsyncParams(s, n) == Copies(s, n)
CastParams(s, n) == Copies(s, n)
SyncParams(s, n) == References(s, n)
RetParams(s, n) == Copies(s, n)

Params(family, s, n) ==
    CASE family = "async" -> AsyncParams(s, n)
      [] family = "cast" -> CastParams(s, n)
      [] family = "sync" -> SyncParams(s, n)
      [] family = "ret" -> RetParams(s, n)

\* What a method is called with.
Value_(p) == IF "ref" \in DOMAIN p THEN <<mine[p.ref], p.place>> ELSE p.val
Passed(a) == [i \in DOMAIN agents[a].params |-> Value_(agents[a].params[i])]

\* The parameters the call should get: the sender's value when it was made.
Given(serial, n) == [i \in 1..n |-> <<serial, i>>]

\* getDeliveryTarget: the object the method is called on, by which agents are
\* found for removal.
DeliveryTarget(a) == agents[a].to

MakeAgent(s, a, family, to, n) ==
    /\ pc[s] = Idle /\ refs[a] = Free_ /\ calls < MaxCalls
    /\ to \notin retired
    /\ calls' = calls + 1
    /\ agents' = [agents EXCEPT ![a] = [family |-> family, to |-> to, serial |-> mine[s],
                                        params |-> Params(family, s, n), ret |-> 0]]
    /\ refs' = [refs EXCEPT ![a] = 0]
    /\ payload' = [payload EXCEPT ![a] = IF family = "cast" THEN 1 ELSE 0]
    /\ hand' = [hand EXCEPT ![s] = a]
    /\ pc' = [pc EXCEPT ![s] = "made"]
    /\ UNCHANGED <<mine, answer, sends, active, retired, wrong>>

\* Between calls a sender uses its variable for something else.
NextValue(s) ==
    /\ pc[s] = Idle /\ calls < MaxCalls
    /\ mine[s] < calls
    /\ mine' = [mine EXCEPT ![s] = calls]
    /\ UNCHANGED <<agents, refs, pc, hand, answer, sends, active, calls, payload, retired, wrong>>
-----------------------------------------------------------------------------
\* Release: the object goes with its last reference, and what it stores with it.
Dropped(r, a) == [r EXCEPT ![a] = IF @ = 1 THEN Free_ ELSE @ - 1]
PayloadAfter(r, a) == IF r[a] = 1 THEN [payload EXCEPT ![a] = 0] ELSE payload

Synchronous(a) == agents[a].family \in {"sync", "ret"}

\* AsyncEventAgent::send: the queue takes a reference.
SendAsync(s) ==
    LET a == hand[s]
    IN  /\ pc[s] = "made" /\ ~ Synchronous(a)
        /\ refs' = [refs EXCEPT ![a] = @ + 1]
        /\ sends' = Append(sends, [a |-> a, by |-> None])
        /\ pc' = [pc EXCEPT ![s] = Idle] /\ hand' = [hand EXCEPT ![s] = None]
        /\ UNCHANGED <<agents, mine, answer, active, calls, payload, retired, wrong>>

\* Mutant of HoldMe: send() keeps no reference of its own.
HoldNothing(a) == [refs EXCEPT ![a] = @ + 1]

\* SyncEventAgent::send and SyncRetEventAgent::send keep a reference for
\* themselves; the holder in sendEventSync keeps another.
HoldMe(a) == [refs EXCEPT ![a] = @ + 2]

SendSync(s) ==
    LET a == hand[s]
    IN  /\ pc[s] = "made" /\ Synchronous(a)
        /\ refs' = HoldMe(a)
        /\ sends' = Append(sends, [a |-> a, by |-> s])
        /\ pc' = [pc EXCEPT ![s] = "waiting"]
        /\ UNCHANGED <<agents, mine, hand, answer, active, calls, payload, retired, wrong>>

\* The dispatcher's thread takes an event and calls deliver().
TakeAgent ==
    /\ active.a = None /\ sends # <<>>
    /\ active' = Head(sends) /\ sends' = Tail(sends)
    /\ UNCHANGED <<agents, refs, mine, pc, hand, answer, calls, payload, retired, wrong>>

\* deliver() of each family: the method is called with the parameters in order;
\* "sync" writes through its references, "ret" stores the return value.
Called(a) ==
    wrong' = (wrong \/ refs[a] = Free_ \/ DeliveryTarget(a) \in retired
                    \/ Passed(a) # Given(agents[a].serial, Len(agents[a].params)))

AsyncDeliver(a) == agents[a].family = "async" /\ Called(a) /\ UNCHANGED <<agents, mine>>

CastDeliver(a) ==
    /\ agents[a].family = "cast"
    /\ wrong' = (wrong \/ refs[a] = Free_ \/ DeliveryTarget(a) \in retired \/ payload[a] = 0)
    /\ UNCHANGED <<agents, mine>>

SyncDeliver(a) ==
    /\ agents[a].family = "sync"
    /\ Called(a)
    /\ mine' = [s \in Sender |-> IF \E i \in DOMAIN agents[a].params : agents[a].params[i] = [ref |-> s, place |-> i]
                                 THEN calls ELSE mine[s]]
    /\ UNCHANGED agents

RetDeliver(a) ==
    /\ agents[a].family = "ret"
    /\ Called(a)
    /\ agents' = [agents EXCEPT ![a].ret = agents[a].serial + 1]
    /\ UNCHANGED mine

Deliver(a) == AsyncDeliver(a) \/ CastDeliver(a) \/ SyncDeliver(a) \/ RetDeliver(a)

\* handleEvent: an ordinary agent is released, a synchronous one answered.
DeliverAsync ==
    LET a == active.a
    IN  /\ a # None /\ active.by = None
        /\ Deliver(a)
        /\ refs' = Dropped(refs, a) /\ payload' = PayloadAfter(refs, a)
        /\ active' = [a |-> None, by |-> None]
        /\ UNCHANGED <<pc, hand, answer, sends, calls, retired>>

DeliverSync ==
    LET a == active.a
    IN  /\ a # None /\ active.by # None
        /\ Deliver(a)
        /\ pc' = [pc EXCEPT ![active.by] = "done"]
        /\ active' = [a |-> None, by |-> None]
        /\ UNCHANGED <<refs, hand, answer, sends, calls, payload, retired>>

\* sendEventSync returns: the holder on its stack drops the agent.
HolderGone(s) ==
    LET a == hand[s]
    IN  /\ pc[s] = "done"
        /\ refs' = Dropped(refs, a)
        /\ pc' = [pc EXCEPT ![s] = "returning"]
        /\ UNCHANGED <<agents, mine, hand, answer, sends, active, calls, payload, retired, wrong>>

\* send() returns: mRetValue is read, then the agent released.
SendReturns(s) ==
    LET a == hand[s]
    IN  /\ pc[s] = "returning"
        /\ wrong' = (wrong \/ refs[a] = Free_)
        /\ answer' = IF agents[a].family = "ret"
                     THEN [answer EXCEPT ![s] = <<mine[s], agents[a].ret>>] ELSE answer
        /\ refs' = IF refs[a] = Free_ THEN refs ELSE Dropped(refs, a)
        /\ hand' = [hand EXCEPT ![s] = None]
        /\ pc' = [pc EXCEPT ![s] = Idle]
        /\ UNCHANGED <<agents, mine, sends, active, calls, payload, retired>>

\* On the dispatcher's own thread a method sends a synchronous agent to the same
\* dispatcher: AddRef, deliver() at once, Release; the agent is never queued and
\* is gone when send() returns.
SendInline(to) ==
    /\ active.a # None /\ calls < MaxCalls
    /\ calls' = calls + 1
    /\ to \notin retired
    /\ UNCHANGED <<agents, refs, mine, pc, hand, answer, sends, active, payload, retired, wrong>>

\* removeAgentsByReceiver, run by the dispatcher's thread before everything that
\* is queued: the receiver's agents go, holders of synchronous calls stay.
RemoveAgentsFor(to) ==
    LET gone == {i \in DOMAIN sends : sends[i].by = None /\ DeliveryTarget(sends[i].a) = to}
        dead == {sends[i].a : i \in gone}
    IN  /\ active.a = None /\ to \notin retired
        \* The receiver's owner has seen to it that nobody sends to it any more.
        /\ \A s \in Sender : hand[s] # None => DeliveryTarget(hand[s]) # to
        /\ refs' = [a \in Agent |-> IF a \in dead THEN (IF refs[a] = 1 THEN Free_ ELSE refs[a] - 1) ELSE refs[a]]
        /\ payload' = [a \in Agent |-> IF a \in dead THEN 0 ELSE payload[a]]
        /\ sends' = KeepPlaces(sends, DOMAIN sends \ gone)
        /\ retired' = retired \cup {to}
        /\ UNCHANGED <<agents, mine, pc, hand, answer, active, calls, wrong>>

AgentNext ==
    \/ \E s \in Sender :
          \/ NextValue(s) \/ SendAsync(s) \/ SendSync(s) \/ HolderGone(s) \/ SendReturns(s)
          \/ \E a \in Agent, f \in {"async", "cast", "sync", "ret"}, to \in Receiver, n \in Arity :
                MakeAgent(s, a, f, to, n)
    \/ TakeAgent \/ DeliverAsync \/ DeliverSync
    \/ \E to \in Receiver : RemoveAgentsFor(to) \/ SendInline(to)

AgentSpec == AgentInit /\ [][AgentNext]_agentVars
-----------------------------------------------------------------------------
\* Properties.

\* Who refers to an agent: queue entries and the holders on senders' stacks.
Holds(a) ==
    Cardinality({i \in DOMAIN sends : sends[i].a = a})
    + (IF active.a = a THEN 1 ELSE 0)
    + Cardinality({s \in Sender : hand[s] = a /\ pc[s] \in {"waiting", "done", "returning"}})
    + Cardinality({s \in Sender : hand[s] = a /\ pc[s] = "done"})

\* Every method call gets the parameters its sender gave, whatever the sender
\* did with its variables afterwards, and none is made on a receiver after
\* removeAgentsByReceiver; no agent is used after it was freed, and one that is
\* neither queued nor held is freed with its payload; a returned value is the
\* one of the sender's own call.
AgentsDeliverAsGiven ==
    /\ ~ wrong
    /\ \A a \in Agent : /\ refs[a] = Free_ <=> (Holds(a) = 0 /\ \A s \in Sender : hand[s] # a)
                        /\ refs[a] # Free_ => refs[a] = Holds(a)
                        /\ payload[a] > 0 => refs[a] # Free_
    /\ \A s \in Sender : answer[s] # <<0, 0>> => answer[s][2] = answer[s][1] + 1
=============================================================================
