--------------------------- MODULE MCStdioConnection ---------------------------
(* StdioConnection on small sets, for TLC.                                    *)
EXTENDS StdioConnection, TLC

Symmetry == Permutations(Child) \cup Permutations(Call)

NoReentry   == {}
ExitReentry == {"exit"}
FullReentry == {"connecting", "exit"}
=============================================================================
