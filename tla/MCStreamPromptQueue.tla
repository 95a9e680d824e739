-------------------------- MODULE MCStreamPromptQueue --------------------------
(* StreamPromptQueue on small sets, for TLC.                                  *)
EXTENDS StreamPromptQueue, TLC

Symmetry == Permutations(Update)
=============================================================================
