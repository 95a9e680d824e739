--------------------------- MODULE MCHelpExtractor ---------------------------
(* The instance of HelpExtractor that TLC checks. *)
EXTENDS HelpExtractor
=============================================================================
