-------------------------- MODULE MCCursorAgentPort --------------------------
(* The instance of CursorAgentPort that TLC checks. *)
EXTENDS CursorAgentPort, TLC

\* Symmetry, for runs without liveness.
Symmetric == Permutations(Commands) \cup Permutations(Disconnects) \cup Permutations(Ids)
==============================================================================
