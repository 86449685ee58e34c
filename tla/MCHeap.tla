------------------------------- MODULE MCHeap -------------------------------
(***************************************************************************)
(* Instances of HeapClient for TLC.  One value is enough: a word that was  *)
(* never stored to is Indeterminate, so a store that is lost, that goes to *)
(* another block, or that a release wipes out is seen.                     *)
(***************************************************************************)
EXTENDS HeapClient

CONSTANT v1

MCValue == {v1}
=============================================================================
