----------------------------- MODULE MCLibrary ------------------------------
(***************************************************************************)
(* The library's data structures, for TLC.  They do not interact: a        *)
(* behaviour exercises one of them and leaves the others as constructed.   *)
(***************************************************************************)
EXTENDS Allocator, Containers, GCHeap, JHString, Path, URI, TLC

VARIABLE which

WorkDir == <<"a">>

Uris == {<<"http", ":", "//", "h", "/", "p", "?", "k", "=", "v", "&", "j", "=", "v", "#", "f">>,
         <<"http", ":", "h", ":", "80", "/", "p">>, <<"p", "?", "k">>}

Queries == {<<>>, <<"k", "=", "v", "&", "j">>}

Sizes == [b \in Block |-> IF b = CHOOSE x \in Block : TRUE THEN 1 ELSE 3]

Init ==
    /\ which \in {"allocator", "list", "vector", "heap", "string", "path", "uri"}
    /\ AllocInit /\ ListInit /\ VectorInit /\ HeapInit /\ StringInit /\ PathInit /\ UriInit
    /\ which # "allocator" => mDoCoalesceOnFree
    /\ which # "vector" => mAllocated = 0
    /\ which # "path" => mPath = <<SEP>>

Next ==
    /\ UNCHANGED which
    /\ \/ which = "allocator" /\ AllocNext /\ UNCHANGED <<listVars, vecVars, heapVars, strVars, pathVars, uriVars>>
       \/ which = "list" /\ ListNext /\ UNCHANGED <<allocVars, vecVars, heapVars, strVars, pathVars, uriVars>>
       \/ which = "vector" /\ VectorNext /\ UNCHANGED <<allocVars, listVars, heapVars, strVars, pathVars, uriVars>>
       \/ which = "heap" /\ HeapNext /\ UNCHANGED <<allocVars, listVars, vecVars, strVars, pathVars, uriVars>>
       \/ which = "string" /\ StringNext /\ UNCHANGED <<allocVars, listVars, vecVars, heapVars, pathVars, uriVars>>
       \/ which = "path" /\ PathNext /\ UNCHANGED <<allocVars, listVars, vecVars, heapVars, strVars, uriVars>>
       \/ which = "uri" /\ UriNext /\ UNCHANGED <<allocVars, listVars, vecVars, heapVars, strVars, pathVars>>

vars == <<which, allocVars, listVars, vecVars, heapVars, strVars, pathVars, uriVars>>

Spec == Init /\ [][Next]_vars
=============================================================================
