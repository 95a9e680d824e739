--------------------------- MODULE MCStreamAgentPort ---------------------------
(* StreamAgentPort on small sets, for TLC.                                    *)
EXTENDS StreamAgentPort, TLC

Symmetry == Permutations(Stream) \cup Permutations(Session)
=============================================================================
