------------------------ MODULE MCLifecycleSupervisor ------------------------
(* The instance of LifecycleSupervisor that TLC checks. *)
EXTENDS LifecycleSupervisor, TLC

\* Symmetry, for runs without liveness.
Symmetric == Permutations(Notes) \cup Permutations(NewSessions) \cup Permutations(Restarts)
                \cup Permutations(Sessions)
==============================================================================
