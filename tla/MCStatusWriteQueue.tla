------------------------- MODULE MCStatusWriteQueue -------------------------
(* Bounded instances of StatusWriteQueue for TLC. *)
EXTENDS StatusWriteQueue
CONSTANTS status, mode, step

MCKeys == {status, mode, step}
MCTwoKeys == {status, mode}
=============================================================================
