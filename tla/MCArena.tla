------------------------------- MODULE MCArena -------------------------------
(***************************************************************************)
(* A small arena: blocks of 6 bytes, types smaller and larger than one,    *)
(* and block addresses of every residue modulo the alignments.             *)
(***************************************************************************)
EXTENDS Arena

MCSizes == {1, 3, 8}
MCAlignments == {1, 2, 4}
MCGaps == {0, 1, 3}
=============================================================================
