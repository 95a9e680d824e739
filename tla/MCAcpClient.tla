------------------------------ MODULE MCAcpClient ------------------------------
(* AcpClient on small sets, for TLC.                                          *)
EXTENDS AcpClient, TLC

Symmetry == Permutations(Child) \cup Permutations(Call)

NoReentry   == {}
FullReentry == {"connecting", "exit"}
=============================================================================
