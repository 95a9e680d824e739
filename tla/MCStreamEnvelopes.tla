--------------------------- MODULE MCStreamEnvelopes ---------------------------
(* StreamEnvelopes on small sets, for TLC.                                    *)
EXTENDS StreamEnvelopes, TLC

Symmetry == Permutations(Stream)

\* One reason of each kind, and one that is not in the table.
Reasons == {"end_turn", "max_tokens", "refusal", "constructor"}
=============================================================================
