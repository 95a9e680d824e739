---------------------------- MODULE MCModelUpdate ----------------------------
(* The instance of ModelUpdate that TLC checks: two APIs, one of them paged   *)
(* and its names stripped of a prefix, and three ids of which two, as flash-2 *)
(* and flash.2, share a name.                                                 *)
EXTENDS ModelUpdate

Ids       == {"flash-2", "flash.2", "pro"}
Names     == [i \in Ids |-> IF i = "pro" THEN "PRO" ELSE "FLASH_2"]
InOrder   == <<"gemini", "xai">>
WithPages == {"gemini"}
BuiltIn   == [p \in {"gemini", "xai"} |-> {"pro"}]
=============================================================================
