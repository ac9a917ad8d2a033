----------------------------- MODULE MCServices -----------------------------
(***************************************************************************)
(* The classes around the dispatchers and the network classes, for TLC.    *)
(* They do not interact: a behaviour exercises one of them and leaves the  *)
(* others as constructed.                                                  *)
(***************************************************************************)
EXTENDS EventListeners, EventAgents, Mutex, Threads, Logging, Components,
        Socket, HttpAgent, TLC

VARIABLE which

\* File names in the order of strcasecmp, two of them equal but for case.
Alphabetical == "a.c" :> 1 @@ "B.c" :> 2 @@ "b.c" :> 2

Provided == "libfoo" :> {"FooService", "FooFactory"} @@ "libbar" :> {"FooService"}

\* Functions as the compiler prints them: with a return type or none, with
\* templates in the type and in the name, with parentheses in the arguments.
Types == {<<>>, <<"v", " ">>, <<"v", "<", "x", " ", "y", ">", " ">>}
Declared ==
    {[text |-> t \o n.text \o a, name |-> n.name] :
        t \in Types,
        n \in {[text |-> <<"f">>, name |-> <<"f">>],
              [text |-> <<"C", "<", "D", "<", "x", ">", " ", ">", ":", "f">>, name |-> <<"C", "<", ">", ":", "f">>]},
        a \in {<<"(", ")">>, <<"(", "i", " ", "(", ")", ")">>}}

\* What LinesAlwaysWhole asks of the declarations.
ASSUME DeclaredAreFixedUp == NamesAreFixedUp({"f", "C", "<", ">", ":"})

Words == "0" :> 0 @@ "1" :> 1 @@ "3" :> 3

FieldWords == {<<"v", SP, "v">>, <<"v", ":", "v">>}

\* URIs with and without a query, one without a path, one that is too long to
\* be parsed.
Uris ==
    {[path |-> p, query |-> q] : p \in {<<"/", "p">>, <<>>}, q \in {<<>>, <<"k">>}}
        \cup {[path |-> <<"/">>, query |-> <<"k">>]}

\* A reply counted by Content-Length, one in chunks, one with neither, one
\* that is an error; one behind a 100, and one whose code is no number.
Header(code, lines) == <<"HTTP/1.1", SP, code, SP, "OK", CR, LF>> \o lines \o <<CR, LF>>

Replies ==
    {[text |-> Header("200", <<"Content-Length", ":", SP, "3", CR, LF>>) \o <<"a", "b", "c">>,
      body |-> <<"a", "b", "c">>],
     [text |-> Header("206", <<"X", ":", "v", CR, LF, "Transfer-Encoding", ":", SP, "chunked", CR, LF>>)
                 \o <<"3", CR, LF, "a", "b", "c", CR, LF, "1", ";", "x", CR, LF, "d", CR, LF, "0", CR, LF, CR, LF>>,
      body |-> <<"a", "b", "c", "d">>],
     [text |-> Header("200", <<>>) \o <<"a">>, body |-> <<>>],
     [text |-> Header("404", <<"Content-Length", ":", "0", CR, LF>>), body |-> <<>>],
     [text |-> Header("100", <<>>) \o Header("200", <<"X", ":", "v", CR, LF, "Content-Length", ":", "1", CR, LF>>) \o <<"a">>,
      body |-> <<"a">>],
     [text |-> Header("bad", <<"X", ":", "v", CR, LF, "Content-Length", ":", "1", CR, LF>>) \o <<"a">>, body |-> <<"a">>]}

Init ==
    /\ which \in {"listeners", "agents", "mutex", "threads", "registry", "print", "components", "socket", "message", "exchange"}
    /\ ListenInit /\ AgentInit /\ MutexInit /\ ThreadInit /\ LogInit /\ ComInit
    /\ SocketInit /\ MessageInit /\ HttpInit
    /\ which # "mutex" => mRecursive
    /\ which # "message" => mMethod = "GET" /\ mUri = [path |-> <<"/", "p">>, query |-> <<>>]
    /\ which # "exchange" => reply.body = <<>> /\ Len(reply.text) = 10

\* Everything but the variables of one part is as it was.
DispatcherSide == <<listenVars, agentVars, mutexVars, threadVars>>
ProcessSide == <<logVars, comVars>>
NetworkSide == <<sockVars, msgVars, agentHttpVars>>

Next ==
    /\ UNCHANGED which
    /\ \/ which = "listeners" /\ ListenNext /\ UNCHANGED <<agentVars, mutexVars, threadVars, ProcessSide, NetworkSide>>
       \/ which = "agents" /\ AgentNext /\ UNCHANGED <<listenVars, mutexVars, threadVars, ProcessSide, NetworkSide>>
       \/ which = "mutex" /\ MutexNext /\ UNCHANGED <<listenVars, agentVars, threadVars, ProcessSide, NetworkSide>>
       \/ which = "threads" /\ ThreadNext /\ UNCHANGED <<listenVars, agentVars, mutexVars, ProcessSide, NetworkSide>>
       \/ which = "registry" /\ RegistryNext /\ UNCHANGED <<DispatcherSide, comVars, NetworkSide>>
       \/ which = "print" /\ PrintNext /\ UNCHANGED <<DispatcherSide, comVars, NetworkSide>>
       \/ which = "components" /\ ComNext /\ UNCHANGED <<DispatcherSide, logVars, NetworkSide>>
       \/ which = "socket" /\ SocketNext /\ UNCHANGED <<DispatcherSide, ProcessSide, msgVars, agentHttpVars>>
       \/ which = "message" /\ MessageNext /\ UNCHANGED <<DispatcherSide, ProcessSide, sockVars, agentHttpVars>>
       \/ which = "exchange" /\ HttpNext /\ UNCHANGED <<DispatcherSide, ProcessSide, sockVars, msgVars>>

vars == <<which, DispatcherSide, ProcessSide, NetworkSide>>

Spec == Init /\ [][Next]_vars
=============================================================================
