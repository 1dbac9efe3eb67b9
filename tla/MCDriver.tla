------------------------------- MODULE MCDriver -------------------------------
(***************************************************************************)
(* Three compilations in one directory.  None of them is distinguished.    *)
(***************************************************************************)
EXTENDS Driver, TLC

Symmetric == Permutations(Processes)
=============================================================================
