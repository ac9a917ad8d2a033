----------------------------- MODULE Components -----------------------------
(***************************************************************************)
(* ComponentManager (src/src/ComponentManager.cpp) and the JHCOM counts    *)
(* (src/include/JHCOM.h): libraries that are loaded and closed, the module *)
(* each one hands out, and the services registered under class ids.  A     *)
(* module's loadComponents and unloadComponents add and remove one service *)
(* per class id, as those of src/test/FooService.cpp do; the program adds  *)
(* services of its own.  A service is <<n, cid>>: the n-th load made it,   *)
(* or, for n = 0, the program.                                             *)
(***************************************************************************)
EXTENDS ListErase, Integers, Sequences, FiniteSets, SequencesExt

CONSTANTS
    Library, Cid,
    Provides,       \* per library: the class ids of its services
    AppCid,         \* class ids of the program's own services
    MaxLoads,       \* bound: LoadLibrary calls in one behaviour
    MaxHeld         \* bound: references clients hold at once

ASSUME ComponentsAssumption ==
    /\ Provides \in [Library -> SUBSET Cid] /\ AppCid \subseteq Cid
    /\ IsFiniteSet(Cid)
    /\ MaxLoads \in Nat /\ MaxHeld \in Nat

Service == (0..MaxLoads) \X Cid

VARIABLES
    mClasses,       \* [mCid, mClass]
    mModules,       \* [mName, mModule]: the number of the load, 0 for NULL
    loads,          \* the library of each load so far
    mapped,         \* per library: dlopen calls not undone
    refCnt,         \* per service: mRefCnt; 0 once deleted
    held,           \* references clients hold, in the order they got them
    manager,        \* gManager: "alive" or "gone"
    trouble         \* calls through NULL (-1), or of code or objects that are gone

comVars == <<mClasses, mModules, loads, mapped, refCnt, held, manager, trouble>>

ComInit ==
    /\ mClasses = <<>> /\ mModules = <<>> /\ loads = <<>>
    /\ mapped = [l \in Library |-> 0]
    /\ refCnt = [s \in Service |-> 0]
    /\ held = <<>> /\ manager = "alive" /\ trouble = {}
-----------------------------------------------------------------------------
\* A call of a service runs code of its library.
IsOf(s, l) == s[1] # 0 /\ loads[s[1]] = l
CodeMapped(s) == s[1] # 0 => mapped[loads[s[1]]] > 0
Calls(S) == trouble' = trouble \cup {s \in S : ~CodeMapped(s) \/ refCnt[s] = 0}

ClassAt(c) == SelectInSeq(mClasses, LAMBDA k : k.mCid = c)

\* AddService of each class id in a sequence.
AddServices(n, cids) ==
    /\ mClasses' = mClasses \o [i \in DOMAIN cids |-> [mCid |-> cids[i], mClass |-> <<n, cids[i]>>]]
    /\ refCnt' = [s \in Service |-> IF s[1] = n /\ s[2] \in ToSet(cids) THEN refCnt[s] + 1 ELSE refCnt[s]]

\* Mutant of RemoveServices: the service keeps the registration's reference.
RemoveServicesKept(cids) ==
    LET gone == {ClassAt(c) : c \in {d \in cids : ClassAt(d) # 0}}
        dead == {mClasses[i].mClass : i \in gone}
    IN  /\ mClasses' = KeepPlaces(mClasses, DOMAIN mClasses \ gone)
        /\ refCnt' = refCnt
        /\ Calls(dead)

\* RemoveService of each class id in a set: the first service of that id.
RemoveServices(cids) ==
    LET gone == {ClassAt(c) : c \in {d \in cids : ClassAt(d) # 0}}
        dead == {mClasses[i].mClass : i \in gone}
    IN  /\ mClasses' = KeepPlaces(mClasses, DOMAIN mClasses \ gone)
        /\ refCnt' = [s \in Service |-> IF s \in dead THEN refCnt[s] - 1 ELSE refCnt[s]]
        /\ Calls(dead)

\* LoadLibrary; a library without the entry points, or whose entry fails, stays
\* open and unknown.
LoadLibrary(l) ==
    /\ manager = "alive" /\ Len(loads) < MaxLoads
    /\ loads' = Append(loads, l)
    /\ mapped' = [mapped EXCEPT ![l] = @ + 1]
    /\ \/ /\ AddServices(Len(loads) + 1, SetToSeq(Provides[l]))
          /\ mModules' = Append(mModules, [mName |-> l, mModule |-> Len(loads) + 1])
       \/ UNCHANGED <<mClasses, refCnt, mModules>>
    /\ UNCHANGED <<held, manager, trouble>>

\* RemoveModule: the first module of that name; its entry stays without it.
RemoveModule(l) ==
    LET i == SelectInSeq(mModules, LAMBDA m : m.mName = l)
    IN  /\ manager = "alive" /\ i # 0
        /\ mModules[i].mModule # 0
        /\ RemoveServices(Provides[l])
        /\ mModules' = [mModules EXCEPT ![i].mModule = 0]
        /\ UNCHANGED <<loads, mapped, held, manager>>

\* UnloadLibrary finds the library by its module, so never after RemoveModule;
\* it closes it with its services registered.  The program sees to it that
\* nothing of the library is registered or held.
UnloadLibrary(l) ==
    LET i == SelectInSeq(mModules, LAMBDA m : m.mModule # 0 /\ m.mName = l)
    IN  /\ manager = "alive" /\ i # 0
        /\ mapped[l] = 1 => \A s \in Service : refCnt[s] > 0 => ~IsOf(s, l)
        /\ mapped' = [mapped EXCEPT ![l] = @ - 1]
        /\ mModules' = RemoveAt(mModules, i)
        /\ UNCHANGED <<mClasses, loads, refCnt, held, manager, trouble>>

\* The program's own AddService and RemoveService.
AddService(c) ==
    /\ manager = "alive" /\ refCnt[<<0, c>>] = 0
    /\ AddServices(0, <<c>>)
    /\ UNCHANGED <<mModules, loads, mapped, held, manager, trouble>>

RemoveService(c) ==
    /\ manager = "alive" /\ ClassAt(c) # 0
    /\ RemoveServices({c})
    /\ UNCHANGED <<mModules, loads, mapped, held, manager>>

\* GetService: QueryInterface adds a reference for the client.
GetService(c) ==
    LET s == mClasses[ClassAt(c)].mClass
    IN  /\ manager = "alive" /\ ClassAt(c) # 0 /\ Len(held) < MaxHeld
        /\ Calls({s})
        /\ refCnt' = [refCnt EXCEPT ![s] = @ + 1]
        /\ held' = Append(held, s)
        /\ UNCHANGED <<mClasses, mModules, loads, mapped, manager>>

\* CreateInstance: GetService, a call of the factory, and Release.
CreateInstance(c) ==
    /\ manager = "alive" /\ ClassAt(c) # 0
    /\ Calls({mClasses[ClassAt(c)].mClass})
    /\ UNCHANGED <<mClasses, mModules, loads, mapped, refCnt, held, manager>>

\* A client is done with a service.
ReleaseService(i) ==
    /\ i \in DOMAIN held
    /\ Calls({held[i]})
    /\ refCnt' = [refCnt EXCEPT ![held[i]] = @ - 1]
    /\ held' = RemoveAt(held, i)
    /\ UNCHANGED <<mClasses, mModules, loads, mapped, manager>>

\* destroyComponentManager: the destructor releases the services and then the
\* modules, also those that RemoveModule has set to NULL.
DestroyComponentManager ==
    /\ manager = "alive"
    /\ manager' = "gone"
    /\ mClasses' = <<>> /\ mModules' = <<>>
    /\ refCnt' = [s \in Service |-> refCnt[s] - Cardinality({i \in DOMAIN mClasses : mClasses[i].mClass = s})]
    /\ trouble' = trouble
          \cup {mClasses[i].mClass : i \in {j \in DOMAIN mClasses : ~CodeMapped(mClasses[j].mClass)}}
          \cup {<<-1, mModules[i].mName>> : i \in {j \in DOMAIN mModules : mModules[j].mModule = 0}}
    /\ UNCHANGED <<loads, mapped, held>>

ComNext ==
    \/ \E l \in Library : LoadLibrary(l) \/ RemoveModule(l) \/ UnloadLibrary(l)
    \/ \E c \in AppCid : AddService(c)
    \/ \E c \in Cid : RemoveService(c) \/ GetService(c) \/ CreateInstance(c)
    \/ \E i \in 1..MaxHeld : ReleaseService(i)
    \/ DestroyComponentManager

ComSpec == ComInit /\ [][ComNext]_comVars
-----------------------------------------------------------------------------
\* A service lives as long as it is registered or somebody holds it, and no
\* longer, also when several loads register the same class id and RemoveModule
\* takes the first of them; no call reaches an object that is deleted or code
\* that is closed, except the destructor's, through a module that RemoveModule
\* had removed.  (The program unloads no library of which a service is
\* registered or held: UnloadLibrary does not look.)
ServicesAreCounted ==
    /\ \A s \in Service :
          refCnt[s] = Cardinality({i \in DOMAIN mClasses : mClasses[i].mClass = s})
                        + Cardinality({i \in DOMAIN held : held[i] = s})
    /\ trouble \cap Service = {}
    /\ \A i \in DOMAIN mClasses : CodeMapped(mClasses[i].mClass)
=============================================================================
