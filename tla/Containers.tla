----------------------------- MODULE Containers -----------------------------
(***************************************************************************)
(* The two containers the library is built on, list and vector.  They      *)
(* share nothing, so that they are stated, checked and proved side by side.*)
(***************************************************************************)
EXTENDS LinkedList, Vector

\* What a container holds is what its calls put there, whichever way one looks
\* at it: forward or backward along the pointers of jh_list.h, by index in the
\* slots of jh_vector.h; and nothing else is allocated or constructed.
ContainersAgree == ChainsAgree /\ SlotsAgree
=============================================================================
