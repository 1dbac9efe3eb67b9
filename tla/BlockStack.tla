----------------------------- MODULE BlockStack -----------------------------
(***************************************************************************)
(* What the code generator promises about the height of the emitted code's *)
(* stack: inside a block the height may grow, and when a block ends the    *)
(* height is again what it was when the block began.  "blocks" holds the   *)
(* height each open block began at.                                        *)
(***************************************************************************)
EXTENDS Naturals, Sequences, SequencesExt

VARIABLES height, blocks

Init == height = 0 /\ blocks = <<>>

(* A slot that the innermost block will have to give back.                 *)
Reserve ==
  /\ height' = height + 1
  /\ blocks' = blocks

(* A block opens and may hold slots from the start: parameters, a switch's *)
(* scrutinee.                                                              *)
Open ==
  /\ blocks' = Append(blocks, height)
  /\ height' \in Nat /\ height' >= height

(* The two blocks of a for open and close together.                        *)
OpenTwo ==
  /\ height' \in {height, height + 1}
  /\ blocks' = blocks \o <<height, height'>>

Close ==
  /\ blocks # <<>>
  /\ height' = Last(blocks)
  /\ blocks' = Front(blocks)

CloseTwo ==
  /\ Len(blocks) > 1
  /\ height' = blocks[Len(blocks) - 1]
  /\ blocks' = Front(Front(blocks))

(* One arm of an if chain ends where the next begins.                      *)
Rewind ==
  /\ blocks # <<>>
  /\ height' = Last(blocks)
  /\ blocks' = blocks

Next == Reserve \/ Open \/ OpenTwo \/ Close \/ CloseTwo \/ Rewind

Spec == Init /\ [][Next]_<<height, blocks>>
=============================================================================
